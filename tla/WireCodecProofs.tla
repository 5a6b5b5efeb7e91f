---------------------------- MODULE WireCodecProofs ----------------------------
(***************************************************************************)
(* Decoding and encoding the messages of x/stablecoin, for bytes, ints and *)
(* field numbers of any width, buffers of any length and any contents:     *)
(* the decoder stays within its buffer (DecoderInBounds) and returns       *)
(* (DecoderReturns), what it takes and what it refuses is what the grammar *)
(* says (CodecImplementsGrammar), and what is encoded is decoded to the    *)
(* same message (CodecRoundTrip).                                          *)
(*                                                                         *)
(* The proofs are in four parts.                                           *)
(*   1. The grammar: what the recursive functions Weight, Sums and Items   *)
(*      are, and what follows from the next byte, tag, item or group.      *)
(*   2. The decoder's bounds and its termination.                          *)
(*   3. The decoder and the grammar: DInv relates every place in the code  *)
(*      to what is still needed there for the field to end at a position;  *)
(*      every step is shown to stay in a field, to take one or to refuse.  *)
(*   4. The encoder: what its sizes and bytes are, that the decoder has    *)
(*      one way to read them, and the theorems about both, of which        *)
(*      CodecReturns says that every call ends.                            *)
(***************************************************************************)
EXTENDS WireCodec, WireSyntax, SequenceTheorems, WellFoundedInduction, TLAPS

(***************************************************************************)
(* Part 1.  The grammar.                                                   *)
(***************************************************************************)

(***************************************************************************)
(* Natural numbers, and functions defined by recursion on them.            *)
(***************************************************************************)
(* A set of numbers that is not empty has a smallest one.                  *)
LEMMA Smallest ==
  ASSUME NEW T \in SUBSET Nat, T # {}
  PROVE  \E n \in T : \A m \in T : n <= m
<1> DEFINE R == OpToRel(<, Nat)
<1>1. IsWellFoundedOn(R, Nat)
  BY NatLessThanWellFounded
<1>2. \A x, y \in Nat : <<x, y>> \in R <=> x < y
  BY DEF OpToRel
<1> HIDE DEF R
<1>3. PICK n \in T : \A m \in T : <<m, n>> \notin R
  BY <1>1, WFMin
<1>4. \A m \in T : n <= m
  <2> TAKE m \in T
  <2>1. m \in Nat /\ n \in Nat
    BY <1>3
  <2>2. ~(m < n)
    BY <1>2, <1>3, <2>1
  <2> QED BY <2>1, <2>2
<1> QED
  BY <1>3, <1>4

(* What holds of no number, or of the number before too, holds of none.    *)
LEMMA NoSmallest ==
  ASSUME NEW T \in SUBSET Nat, 0 \notin T, \A n \in Nat : n + 1 \in T => n \in T
  PROVE  T = {}
<1>1. SUFFICES ASSUME T # {} PROVE FALSE
  OBVIOUS
<1>2. PICK n \in T : \A m \in T : n <= m
  BY <1>1, Smallest
<1>3. n \in Nat /\ n # 0 /\ n - 1 \in Nat /\ (n - 1) + 1 = n
  BY <1>2
<1>4. n - 1 \in T
  BY <1>2, <1>3
<1> QED
  BY <1>2, <1>3, <1>4

Begins(f, S, first, g, n) ==
  f \in [0 .. n -> S] /\ f[0] = first /\ \A m \in 0 .. n - 1 : f[m + 1] = g[<<m, f[m]>>]

LEMMA BeginningsAgree ==
  ASSUME NEW S, NEW first \in S, NEW g \in [Nat \X S -> S], NEW k \in Nat, NEW n \in Nat,
         NEW f, NEW h, Begins(f, S, first, g, k), Begins(h, S, first, g, n)
  PROVE  \A m \in 0 .. k : m <= n => f[m] = h[m]
<1> DEFINE Bad == {m \in Nat : m <= k /\ m <= n /\ f[m] # h[m]}
<1>1. 0 \notin Bad
  BY DEF Begins
<1>2. ASSUME NEW m \in Nat, m + 1 \in Bad PROVE m \in Bad
  <2>1. m \in 0 .. k - 1 /\ m \in 0 .. n - 1
    BY <1>2
  <2>2. f[m + 1] = g[<<m, f[m]>>] /\ h[m + 1] = g[<<m, h[m]>>]
    BY <2>1 DEF Begins
  <2> QED BY <1>2, <2>1, <2>2
<1>3. Bad \in SUBSET Nat
  OBVIOUS
<1> HIDE DEF Bad
<1>4. Bad = {}
  BY <1>1, <1>2, <1>3, NoSmallest
<1> QED
  BY <1>4 DEF Bad

LEMMA BeginningExists ==
  ASSUME NEW S, NEW first \in S, NEW g \in [Nat \X S -> S]
  PROVE  \A n \in Nat : \E f : Begins(f, S, first, g, n)
<1> DEFINE Bad == {n \in Nat : ~\E f : Begins(f, S, first, g, n)}
<1>1. 0 \notin Bad
  <2>1. Begins([m \in 0 .. 0 |-> first], S, first, g, 0)
    BY DEF Begins
  <2> QED BY <2>1
<1>2. ASSUME NEW n \in Nat, n \notin Bad PROVE n + 1 \notin Bad
  <2>1. PICK f : Begins(f, S, first, g, n)
    BY <1>2
  <2> DEFINE h == [m \in 0 .. n + 1 |-> IF m <= n THEN f[m] ELSE g[<<n, f[n]>>]]
  <2>2. f \in [0 .. n -> S] /\ f[0] = first /\ \A m \in 0 .. n - 1 : f[m + 1] = g[<<m, f[m]>>]
    BY <2>1 DEF Begins
  <2>3. f[n] \in S /\ g[<<n, f[n]>>] \in S
    BY <2>2
  <2>4. h \in [0 .. n + 1 -> S] /\ h[0] = first
    BY <2>2, <2>3
  <2>5. ASSUME NEW m \in 0 .. (n + 1) - 1 PROVE h[m + 1] = g[<<m, h[m]>>]
    <3>1. m \in 0 .. n /\ h[m] = f[m]
      OBVIOUS
    <3>2. CASE m = n
      BY <3>1, <3>2
    <3>3. CASE m # n
      <4>1. m \in 0 .. n - 1 /\ m + 1 <= n
        BY <3>3
      <4> QED BY <2>2, <3>1, <4>1
    <3> QED BY <3>2, <3>3
  <2>6. Begins(h, S, first, g, n + 1)
    BY <2>4, <2>5 DEF Begins
  <2> QED BY <2>6
<1>3. Bad \in SUBSET Nat
  OBVIOUS
<1>4. \A n \in Nat : n + 1 \in Bad => n \in Bad
  BY <1>2
<1> HIDE DEF Bad
<1>5. Bad = {}
  BY <1>1, <1>3, <1>4, NoSmallest
<1> QED
  BY <1>5 DEF Bad

Recurs(f, S, first, g) ==
  f \in [Nat -> S] /\ f[0] = first /\ \A n \in Nat : f[n + 1] = g[<<n, f[n]>>]

LEMMA PrimitiveRecursion ==
  ASSUME NEW S, NEW first \in S, NEW g \in [Nat \X S -> S]
  PROVE  \E f : Recurs(f, S, first, g)
<1> DEFINE a == [n \in Nat |-> CHOOSE f : Begins(f, S, first, g, n)]
           f == [n \in Nat |-> a[n][n]]
<1>1. \A n \in Nat : Begins(a[n], S, first, g, n)
  BY BeginningExists, Zenon
<1> HIDE DEF a
<1>2. \A n \in Nat : a[n][n] \in S
  BY <1>1 DEF Begins
<1>3. f \in [Nat -> S]
  BY <1>2
<1>4. f[0] = first
  BY <1>1 DEF Begins
<1>5. ASSUME NEW n \in Nat PROVE f[n + 1] = g[<<n, f[n]>>]
  <2>1. n + 1 \in Nat /\ n \in 0 .. (n + 1) - 1 /\ n \in 0 .. n /\ n <= n + 1
    OBVIOUS
  <2>2. Begins(a[n + 1], S, first, g, n + 1) /\ Begins(a[n], S, first, g, n)
    BY <1>1, <2>1
  <2>3. a[n + 1][n + 1] = g[<<n, a[n + 1][n]>>]
    BY <2>1, <2>2 DEF Begins
  <2> DEFINE shorter == a[n]
             longer == a[n + 1]
  <2>4. Begins(shorter, S, first, g, n) /\ Begins(longer, S, first, g, n + 1)
    BY <2>2
  <2> HIDE DEF shorter, longer
  <2>5. \A m \in 0 .. n : m <= n + 1 => shorter[m] = longer[m]
    BY <2>1, <2>4, BeginningsAgree
  <2>6. \A m \in 0 .. n : m <= n + 1 => a[n][m] = a[n + 1][m]
    BY <2>5 DEF shorter, longer
  <2>7. a[n][n] = a[n + 1][n]
    BY <2>1, <2>6
  <2> QED BY <2>1, <2>3, <2>7
<1> HIDE DEF f
<1>6. Recurs(f, S, first, g)
  BY <1>3, <1>4, <1>5 DEF Recurs
<1> QED
  BY <1>6

(***************************************************************************)
(* Powers, and what the groups of a varint count.                          *)
(***************************************************************************)
(* The function that a recursion over powers has is one on numbers.        *)
IsPowers(b, f) == f = [k \in Nat |-> IF k = 0 THEN 1 ELSE b * f[k - 1]]

LEMMA PowersExist ==
  ASSUME NEW b \in Nat
  PROVE  \E f : IsPowers(b, f)
<1> DEFINE S == Nat
           first == 1
           g == [p \in Nat \X S |-> b * p[2]]
<1>1. g \in [Nat \X S -> S] /\ first \in S
  OBVIOUS
<1> HIDE DEF S, first, g
<1>2. PICK f : Recurs(f, S, first, g)
  BY <1>1, PrimitiveRecursion
<1>3. f \in [Nat -> Nat] /\ f[0] = 1 /\ \A n \in Nat : f[n + 1] = b * f[n]
  BY <1>2 DEF S, first, g, Recurs
<1>4. ASSUME NEW k \in Nat PROVE f[k] = IF k = 0 THEN 1 ELSE b * f[k - 1]
  <2>1. CASE k = 0
    BY <1>3, <2>1
  <2>2. CASE k # 0
    <3>1. k - 1 \in Nat /\ (k - 1) + 1 = k
      BY <2>2
    <3>2. QED
      BY <1>3, <2>2, <3>1
  <2>3. QED
    BY <2>1, <2>2
<1>5. f = [k \in Nat |-> IF k = 0 THEN 1 ELSE b * f[k - 1]]
  BY <1>3, <1>4
<1>6. QED
  BY <1>5 DEF IsPowers

LEMMA PowersAre ==
  ASSUME NEW b \in Nat, NEW f, IsPowers(b, f)
  PROVE  f \in [Nat -> Nat] /\ f[0] = 1 /\ \A n \in Nat : f[n + 1] = b * f[n]
<1>1. f = [k \in Nat |-> IF k = 0 THEN 1 ELSE b * f[k - 1]]
  BY DEF IsPowers
<1>2. f[0] = 1 /\ \A n \in Nat : f[n + 1] = b * f[n]
  BY <1>1
<1> DEFINE Bad == {n \in Nat : f[n] \notin Nat}
<1>3. 0 \notin Bad
  BY <1>2
<1>4. ASSUME NEW n \in Nat, n + 1 \in Bad PROVE n \in Bad
  BY <1>2, <1>4
<1>5. Bad \in SUBSET Nat
  OBVIOUS
<1>6. Bad = {}
  <2> HIDE DEF Bad
  <2>1. QED
    BY <1>3, <1>4, <1>5, NoSmallest
<1>7. \A n \in Nat : f[n] \in Nat
  BY <1>6
<1>8. f \in [Nat -> Nat]
  BY <1>1, <1>7
<1>9. QED
  BY <1>2, <1>8

LEMMA Weights ==
  /\ Weight \in [Nat -> Nat]
  /\ Weight[0] = 1
  /\ \A n \in Nat : Weight[n + 1] = High * Weight[n]
<1>1. High \in Nat
  BY WidthsAssumption
<1>2. Weight = CHOOSE f : IsPowers(High, f)
  BY DEF Weight, IsPowers
<1>3. IsPowers(High, Weight)
  BY <1>1, <1>2, PowersExist
<1>4. QED
  BY <1>1, <1>3, PowersAre

LEMMA WeightNat == ASSUME NEW n \in Nat PROVE Weight[n] \in Nat
BY Weights

(* More groups count more, and enough of them more than any number.        *)
LEMMA WeightGrows ==
  ASSUME NEW n \in Nat
  PROVE  n < Weight[n]
<1> DEFINE Bad == {m \in Nat : ~(m < Weight[m])}
<1>1. 0 \notin Bad
  BY Weights
<1>2. ASSUME NEW m \in Nat, m + 1 \in Bad PROVE m \in Bad
  <2>1. Weight[m] \in Nat /\ Weight[m + 1] = High * Weight[m] /\ High \in Nat /\ High >= 8
    BY Weights, WidthsAssumption
  <2>2. ASSUME m < Weight[m] PROVE m + 1 < High * Weight[m]
    BY <2>1, <2>2
  <2> QED BY <1>2, <2>1, <2>2
<1>3. Bad \in SUBSET Nat
  OBVIOUS
<1> HIDE DEF Bad
<1>4. Bad = {}
  BY <1>1, <1>2, <1>3, NoSmallest
<1> QED
  BY <1>4 DEF Bad

LEMMA WeightMonotonic ==
  ASSUME NEW m \in Nat, NEW n \in Nat, m <= n
  PROVE  Weight[m] <= Weight[n]
<1> DEFINE Bad == {d \in Nat : ~(Weight[m] <= Weight[m + d])}
<1>1. 0 \notin Bad
  BY Weights
<1>2. ASSUME NEW d \in Nat, d + 1 \in Bad PROVE d \in Bad
  <2>1. /\ m + d \in Nat /\ (m + d) + 1 = m + (d + 1)
        /\ Weight[m] \in Nat /\ Weight[m + d] \in Nat /\ High \in Nat /\ High >= 8
    BY Weights, WidthsAssumption
  <2>2. Weight[(m + d) + 1] = High * Weight[m + d]
    BY <2>1, Weights
  <2>3. Weight[m + d] <= High * Weight[m + d]
    BY <2>1
  <2> QED BY <1>2, <2>1, <2>2, <2>3
<1>3. Bad \in SUBSET Nat
  OBVIOUS
<1> HIDE DEF Bad
<1>4. Bad = {}
  BY <1>1, <1>2, <1>3, NoSmallest
<1>5. n - m \in Nat /\ m + (n - m) = n
  OBVIOUS
<1> QED
  BY <1>4, <1>5 DEF Bad

(***************************************************************************)
(* Varints.                                                                *)
(***************************************************************************)
LEMMA Digit ==
  ASSUME NEW s \in Seq(Byte), NEW p \in 1 .. Len(s)
  PROVE  s[p] \in Byte /\ s[p] \in Nat /\ s[p] % High \in 0 .. High - 1 /\ s[p] % High \in Nat
<1>1. s[p] \in Byte
  OBVIOUS
<1>2. High \in Nat /\ High > 0
  BY WidthsAssumption
<1>3. s[p] \in Int
  BY <1>1 DEF Byte
<1> QED
  BY <1>1, <1>2, <1>3 DEF Byte

LEMMA SumsOf ==
  ASSUME NEW s \in Seq(Byte), NEW i \in 0 .. Len(s)
  PROVE  /\ Sums(s, i) \in [0 .. Len(s) - i -> Nat]
         /\ Sums(s, i)[0] = 0
         /\ \A n \in 0 .. Len(s) - i - 1 :
              Sums(s, i)[n + 1] = Sums(s, i)[n] + (s[i + n + 1] % High) * Weight[n]
<1> DEFINE L == Len(s) - i
           digit == [n \in Nat |-> IF n < L THEN s[i + n + 1] % High ELSE 0]
           S == Nat
           first == 0
           g == [p \in Nat \X S |-> p[2] + digit[p[1]] * Weight[p[1]]]
<1>1. L \in Nat
  OBVIOUS
<1>2. digit \in [Nat -> Nat]
  <2>1. ASSUME NEW n \in Nat, n < L PROVE s[i + n + 1] % High \in Nat
    <3>1. i + n + 1 \in 1 .. Len(s)
      BY <1>1, <2>1
    <3> QED BY <3>1, Digit
  <2> QED BY <2>1
<1>3. g \in [Nat \X S -> S] /\ first \in S
  <2> HIDE DEF digit
  <2>1. \A p \in Nat \X Nat : p[2] \in Nat /\ digit[p[1]] \in Nat /\ Weight[p[1]] \in Nat
    BY <1>2, Weights
  <2>2. \A a, b, c \in Nat : a + b * c \in Nat
    OBVIOUS
  <2> QED BY <2>1, <2>2
<1> HIDE DEF S, first, g, digit
<1>4. PICK f : Recurs(f, S, first, g)
  BY <1>3, PrimitiveRecursion
<1>5. f \in [Nat -> Nat] /\ f[0] = 0 /\ \A n \in Nat : f[n + 1] = f[n] + digit[n] * Weight[n]
  BY <1>4 DEF S, first, g, Recurs
<1>6. \A n \in 0 .. L - 1 : f[n + 1] = f[n] + (s[i + n + 1] % High) * Weight[n]
  BY <1>5 DEF digit
<1> DEFINE h == [n \in 0 .. L |-> f[n]]
<1>7. /\ h \in [0 .. L -> Nat] /\ h[0] = 0
      /\ \A n \in 0 .. L - 1 : h[n + 1] = h[n] + (s[i + n + 1] % High) * Weight[n]
  <2> HIDE DEF L
  <2>3. \A n \in 0 .. L : n \in Nat
    BY <1>1
  <2>4. \A n \in 0 .. L : h[n] = f[n]
    OBVIOUS
  <2>1. \A n \in 0 .. L : h[n] = f[n] /\ f[n] \in Nat
    <3> HIDE DEF h
    <3> QED BY <1>5, <2>3, <2>4
  <2>2. h \in [0 .. L -> Nat] /\ h[0] = 0
    <3>1. 0 \in 0 .. L
      BY <1>1
    <3> QED BY <1>5, <2>1, <3>1
  <2>5. \A n \in 0 .. L - 1 : n \in 0 .. L /\ n + 1 \in 0 .. L
    BY <1>1
  <2> HIDE DEF h
  <2> QED BY <1>6, <2>1, <2>2, <2>5
<1> HIDE DEF h
<1>8. h = [n \in 0 .. L |->
             IF n = 0 THEN 0 ELSE h[n - 1] + (s[i + n] % High) * Weight[n - 1]]
  <2>1. ASSUME NEW n \in 0 .. L
        PROVE  h[n] = IF n = 0 THEN 0 ELSE h[n - 1] + (s[i + n] % High) * Weight[n - 1]
    <3>1. CASE n = 0
      BY <1>7, <3>1
    <3>2. CASE n # 0
      <4>1. n - 1 \in 0 .. L - 1 /\ (n - 1) + 1 = n /\ i + (n - 1) + 1 = i + n
        BY <1>1, <3>2
      <4>2. h[(n - 1) + 1] = h[n - 1] + (s[i + (n - 1) + 1] % High) * Weight[n - 1]
        BY <1>7, <4>1
      <4> QED BY <3>2, <4>1, <4>2
    <3> QED BY <3>1, <3>2
  <2> QED BY <2>1, <1>7
<1> DEFINE sum == Sums(s, i)
<1>9. sum = [n \in 0 .. L |->
               IF n = 0 THEN 0 ELSE sum[n - 1] + (s[i + n] % High) * Weight[n - 1]]
  BY <1>8, Zenon DEF Sums
<1> HIDE DEF sum
<1>10. sum[0] = 0
  BY <1>1, <1>9
<1>11. \A n \in 0 .. L - 1 : sum[n + 1] = sum[n] + (s[i + n + 1] % High) * Weight[n]
  <2> TAKE n \in 0 .. L - 1
  <2>1. n + 1 \in 0 .. L /\ n + 1 # 0 /\ (n + 1) - 1 = n /\ i + (n + 1) = i + n + 1
    BY <1>1
  <2> QED BY <1>9, <2>1
<1>12. \A n \in 0 .. L : sum[n] = h[n]
  <2> DEFINE Bad == {n \in Nat : n <= L /\ sum[n] # h[n]}
  <2>1. 0 \notin Bad
    BY <1>7, <1>10
  <2>2. ASSUME NEW n \in Nat, n + 1 \in Bad PROVE n \in Bad
    <3>1. n \in 0 .. L - 1
      BY <1>1, <2>2
    <3> QED BY <1>7, <1>11, <2>2, <3>1
  <2>3. Bad \in SUBSET Nat
    OBVIOUS
  <2> HIDE DEF Bad
  <2>4. Bad = {}
    BY <2>1, <2>2, <2>3, NoSmallest
  <2> QED BY <1>1, <2>4 DEF Bad
<1>13. sum \in [0 .. L -> Nat]
  BY <1>7, <1>9, <1>12
<1> QED
  BY <1>10, <1>11, <1>13 DEF sum

LEMMA VarintParts ==
  ASSUME NEW s \in Seq(Byte), NEW i \in Nat, NEW j, IsVarint(s, i, j)
  PROVE  /\ j \in i + 1 .. Len(s) /\ j \in Nat /\ i \in 0 .. Len(s)
         /\ s[j] < High
         /\ \A p \in i + 1 .. j - 1 : ~(s[p] < High)
BY DEF IsVarint

(* Where a varint begins it ends in one place.                             *)
LEMMA VarintUnique ==
  ASSUME NEW s \in Seq(Byte), NEW i \in Nat, NEW j, NEW k, IsVarint(s, i, j), IsVarint(s, i, k)
  PROVE  j = k
<1>1. /\ j \in i + 1 .. Len(s) /\ s[j] < High /\ \A p \in i + 1 .. j - 1 : ~(s[p] < High)
      /\ k \in i + 1 .. Len(s) /\ s[k] < High /\ \A p \in i + 1 .. k - 1 : ~(s[p] < High)
  BY VarintParts
<1>2. ~(j < k) /\ ~(k < j)
  BY <1>1
<1> QED
  BY <1>1, <1>2

LEMMA ValueRange ==
  ASSUME NEW s \in Seq(Byte), NEW i \in Nat, NEW j \in i .. Len(s)
  PROVE  ValueOf(s, i, j) \in 0 .. 2 * Half - 1 /\ ValueOf(s, i, j) \in Nat
<1>1. i \in 0 .. Len(s) /\ j - i \in 0 .. Len(s) - i
  OBVIOUS
<1>2. Sums(s, i)[j - i] \in Nat
  BY <1>1, SumsOf
<1>3. 2 * Half \in Nat /\ 2 * Half > 0
  BY WidthsAssumption
<1> HIDE DEF Sums
<1> QED
  BY <1>2, <1>3 DEF ValueOf

(***************************************************************************)
(* Pieces cut into parts.                                                  *)
(***************************************************************************)
LEMMA SplitsNone ==
  ASSUME NEW i \in Int, NEW ends
  PROVE  Splits(i, i, ends)
<1>1. {i} \in SUBSET (i .. i)
  OBVIOUS
<1> QED
  BY <1>1 DEF Splits

LEMMA SplitsAgree ==
  ASSUME NEW i \in Int, NEW j \in Int, NEW e, NEW f,
         \A a \in i .. j : \A b \in i .. j : b \in e[a] <=> b \in f[a],
         Splits(i, j, e)
  PROVE  Splits(i, j, f)
<1>1. PICK cuts \in SUBSET (i .. j) :
        i \in cuts /\ \A a \in cuts : a = j \/ \E b \in cuts : b \in e[a]
  BY DEF Splits
<1>2. \A a \in cuts : a = j \/ \E b \in cuts : b \in f[a]
  BY <1>1
<1> QED
  BY <1>1, <1>2 DEF Splits

(* The first part, and the rest.                                           *)
LEMMA SplitsFirst ==
  ASSUME NEW i \in Int, NEW j \in Int, NEW ends, i < j,
         \A a \in i .. j : \A b \in ends[a] : b \in Int /\ b > a,
         Splits(i, j, ends)
  PROVE  \E b \in i + 1 .. j : b \in ends[i] /\ Splits(b, j, ends)
<1>1. PICK cuts \in SUBSET (i .. j) :
        i \in cuts /\ \A a \in cuts : a = j \/ \E b \in cuts : b \in ends[a]
  BY DEF Splits
<1>2. PICK b \in cuts : b \in ends[i]
  BY <1>1
<1>3. b \in i + 1 .. j
  BY <1>1, <1>2
<1> DEFINE later == {a \in cuts : a >= b}
<1>4. later \in SUBSET (b .. j) /\ b \in later
  <2>1. \A a \in cuts : a \in i .. j
    BY <1>1
  <2>2. ASSUME NEW a \in later PROVE a \in b .. j
    BY <1>3, <2>1
  <2>3. b \in later
    BY <1>2, <1>3
  <2> QED BY <2>2, <2>3
<1>5. ASSUME NEW a \in later, a # j PROVE \E c \in later : c \in ends[a]
  <2>1. PICK c \in cuts : c \in ends[a]
    BY <1>1, <1>5
  <2>2. c > a /\ a >= b /\ c \in Int /\ a \in Int /\ b \in Int
    BY <1>1, <1>3, <1>5, <2>1
  <2> QED BY <2>1, <2>2
<1>6. Splits(b, j, ends)
  <2> HIDE DEF later
  <2> QED BY <1>4, <1>5 DEF Splits
<1> QED
  BY <1>2, <1>3, <1>6

LEMMA SplitsMore ==
  ASSUME NEW i \in Int, NEW j \in Int, NEW ends, NEW b \in i .. j,
         b \in ends[i], Splits(b, j, ends)
  PROVE  Splits(i, j, ends)
<1>1. PICK cuts \in SUBSET (b .. j) :
        b \in cuts /\ \A a \in cuts : a = j \/ \E c \in cuts : c \in ends[a]
  BY DEF Splits
<1> DEFINE all == cuts \cup {i}
<1>2. all \in SUBSET (i .. j) /\ i \in all
  BY <1>1
<1>3. \A a \in all : a = j \/ \E c \in all : c \in ends[a]
  BY <1>1
<1> HIDE DEF all
<1> QED
  BY <1>2, <1>3 DEF Splits

(***************************************************************************)
(* Items.  The recursion is on the position where an item begins.          *)
(***************************************************************************)
LEMMA ContentAgrees ==
  ASSUME NEW s \in Seq(Byte), NEW k \in Nat, NEW j \in k .. Len(s), NEW wire, NEW e, NEW f,
         \A a \in k .. Len(s) : e[a] = f[a],
         IsContent(wire, s, k, j, e)
  PROVE  IsContent(wire, s, k, j, f)
<1>1. CASE wire = 3 /\ IsGroup(s, k, j, e)
  <2>1. PICK c \in k .. j : IsEndGroup(s, c, j) /\ Splits(k, c, e)
    BY <1>1 DEF IsGroup
  <2>2. \A a \in k .. c : \A b \in k .. c : b \in e[a] <=> b \in f[a]
    BY <2>1
  <2>3. Splits(k, c, f)
    BY <2>1, <2>2, SplitsAgree
  <2>4. IsGroup(s, k, j, f)
    BY <2>1, <2>3 DEF IsGroup
  <2> QED BY <1>1, <2>4 DEF IsContent
<1>2. CASE ~(wire = 3 /\ IsGroup(s, k, j, e))
  BY <1>2 DEF IsContent
<1> QED
  BY <1>1, <1>2

(* The items that begin at i, if ends has those that begin behind it.      *)
ItemsAt(s, i, ends) ==
  {j \in i + 1 .. Len(s) :
    \E k \in i + 1 .. j :
      IsVarint(s, i, k) /\ IsContent(WireType(ValueOf(s, i, k)), s, k, j, ends)}

LEMMA ItemsAtAgree ==
  ASSUME NEW s \in Seq(Byte), NEW i \in Nat, NEW e, NEW f, \A a \in i + 1 .. Len(s) : e[a] = f[a]
  PROVE  ItemsAt(s, i, e) = ItemsAt(s, i, f)
<1>1. ASSUME NEW x, NEW y, \A a \in i + 1 .. Len(s) : x[a] = y[a]
      PROVE  \A j \in ItemsAt(s, i, x) : j \in ItemsAt(s, i, y)
  <2> TAKE j \in ItemsAt(s, i, x)
  <2>1. j \in i + 1 .. Len(s)
    BY <1>1 DEF ItemsAt
  <2>2. PICK k \in i + 1 .. j :
          IsVarint(s, i, k) /\ IsContent(WireType(ValueOf(s, i, k)), s, k, j, x)
    BY <1>1 DEF ItemsAt
  <2>3. k \in Nat /\ j \in k .. Len(s) /\ \A a \in k .. Len(s) : x[a] = y[a]
    BY <1>1, <2>1, <2>2
  <2>4. IsContent(WireType(ValueOf(s, i, k)), s, k, j, y)
    BY <2>2, <2>3, ContentAgrees
  <2> QED BY <2>1, <2>2, <2>4 DEF ItemsAt
<1>2. \A a \in i + 1 .. Len(s) : f[a] = e[a]
  OBVIOUS
<1>3. \A j \in ItemsAt(s, i, e) : j \in ItemsAt(s, i, f)
  BY <1>1
<1>4. \A j \in ItemsAt(s, i, f) : j \in ItemsAt(s, i, e)
  BY <1>1, <1>2
<1> QED
  BY <1>3, <1>4

LEMMA ItemsOf ==
  ASSUME NEW s \in Seq(Byte)
  PROVE  \A i \in 0 .. Len(s) : Items(s)[i] = ItemsAt(s, i, Items(s))
<1> DEFINE N == Len(s)
           S == [0 .. N -> SUBSET (0 .. N)]
           first == [i \in 0 .. N |-> {}]
           g == [p \in Nat \X S |-> [i \in 0 .. N |-> IF i = N - p[1] THEN ItemsAt(s, i, p[2]) ELSE p[2][i]]]
<1>1. N \in Nat
  OBVIOUS
<1>2. \A i \in 0 .. N : \A e : ItemsAt(s, i, e) \in SUBSET (0 .. N)
  BY <1>1 DEF ItemsAt
<1>3. g \in [Nat \X S -> S] /\ first \in S
  BY <1>2
<1>4. \A n \in Nat, e \in S, i \in 0 .. N :
        g[<<n, e>>][i] = IF i = N - n THEN ItemsAt(s, i, e) ELSE e[i]
  OBVIOUS
<1> HIDE DEF S, first, g
<1>5. PICK f : Recurs(f, S, first, g)
  BY <1>3, PrimitiveRecursion
<1>6. f \in [Nat -> S] /\ \A n \in Nat : f[n + 1] = g[<<n, f[n]>>]
  BY <1>5 DEF Recurs
<1>7. ASSUME NEW n \in Nat, NEW i \in 0 .. N
      PROVE  f[n + 1][i] = IF i = N - n THEN ItemsAt(s, i, f[n]) ELSE f[n][i]
  <2>1. f[n] \in S /\ f[n + 1] = g[<<n, f[n]>>]
    BY <1>6
  <2>2. g[<<n, f[n]>>][i] = IF i = N - n THEN ItemsAt(s, i, f[n]) ELSE f[n][i]
    BY <1>4, <2>1, Zenon
  <2> QED BY <2>1, <2>2
<1>8. \A n \in Nat : \A i \in 0 .. N : i > N - n => f[n][i] = ItemsAt(s, i, f[n])
  <2> DEFINE Bad == {n \in Nat : ~\A i \in 0 .. N : i > N - n => f[n][i] = ItemsAt(s, i, f[n])}
  <2>1. 0 \notin Bad
    BY <1>1
  <2>2. ASSUME NEW n \in Nat, n \notin Bad, NEW i \in 0 .. N, i > N - (n + 1)
        PROVE  f[n + 1][i] = ItemsAt(s, i, f[n + 1])
    <3>1. \A a \in i + 1 .. N : f[n][a] = f[n + 1][a]
      <4> TAKE a \in i + 1 .. N
      <4>1. a \in 0 .. N /\ a # N - n
        BY <1>1, <2>2
      <4> QED BY <1>7, <4>1
    <3>2. ItemsAt(s, i, f[n]) = ItemsAt(s, i, f[n + 1])
      <4> DEFINE old == f[n]
                 new == f[n + 1]
      <4>1. i \in Nat /\ \A a \in i + 1 .. Len(s) : old[a] = new[a]
        BY <3>1
      <4> HIDE DEF old, new
      <4>2. ItemsAt(s, i, old) = ItemsAt(s, i, new)
        BY <4>1, ItemsAtAgree
      <4> QED BY <4>2 DEF old, new
    <3>3. f[n + 1][i] = ItemsAt(s, i, f[n])
      <4>1. CASE i = N - n
        BY <1>7, <4>1
      <4>2. CASE i # N - n
        <5>1. i > N - n
          BY <1>1, <2>2, <4>2
        <5> QED BY <1>7, <2>2, <4>2, <5>1
      <4> QED BY <4>1, <4>2
    <3> QED BY <3>2, <3>3
  <2>3. \A n \in Nat : n + 1 \in Bad => n \in Bad
    BY <2>2
  <2>4. Bad \in SUBSET Nat
    OBVIOUS
  <2> HIDE DEF Bad
  <2>5. Bad = {}
    BY <2>1, <2>3, <2>4, NoSmallest
  <2> QED BY <2>5 DEF Bad
<1> DEFINE h == f[N + 1]
<1>9. h \in [0 .. N -> SUBSET (0 .. N)]
  BY <1>1, <1>6 DEF S
<1>10. \A i \in 0 .. N : h[i] = ItemsAt(s, i, h)
  <2>1. \A i \in 0 .. N : i > N - (N + 1)
    BY <1>1
  <2> QED BY <1>1, <1>8, <2>1
<1> HIDE DEF h
<1>11. h = [i \in 0 .. N |-> ItemsAt(s, i, h)]
  BY <1>9, <1>10
<1> DEFINE items == Items(s)
<1>12. items = [i \in 0 .. N |-> ItemsAt(s, i, items)]
  BY <1>11, Zenon DEF Items, ItemsAt
<1> HIDE DEF items
<1>13. \A i \in 0 .. N : items[i] = ItemsAt(s, i, items)
  BY <1>12
<1> QED
  BY <1>13 DEF items

LEMMA ItemRange ==
  ASSUME NEW s \in Seq(Byte), NEW i \in 0 .. Len(s), NEW j \in Items(s)[i]
  PROVE  j \in i + 1 .. Len(s)
<1>1. j \in ItemsAt(s, i, Items(s))
  BY ItemsOf
<1> QED
  BY <1>1, Zenon DEF ItemsAt

(* The tag of an item ends in one place, where the contents begin.         *)
LEMMA ItemOfTag ==
  ASSUME NEW s \in Seq(Byte), NEW i \in 0 .. Len(s), NEW t, IsVarint(s, i, t), NEW j
  PROVE  j \in Items(s)[i] <=>
           j \in t .. Len(s) /\ IsContent(WireType(ValueOf(s, i, t)), s, t, j, Items(s))
<1> DEFINE items == Items(s)
           Content(k) == IsContent(WireType(ValueOf(s, i, k)), s, k, j, items)
<1>1. j \in items[i] <=>
        j \in i + 1 .. Len(s) /\ \E k \in i + 1 .. j : IsVarint(s, i, k) /\ Content(k)
  BY ItemsOf DEF ItemsAt
<1>2. t \in i + 1 .. Len(s) /\ i \in Nat
  BY VarintParts
<1>3. \A k : IsVarint(s, i, k) => k = t
  BY <1>2, VarintUnique
<1> HIDE DEF items, Content
<1>4. j \in t .. Len(s) => j \in i + 1 .. Len(s) /\ t \in i + 1 .. j
  BY <1>2
<1>5. j \in i + 1 .. Len(s) /\ t \in i + 1 .. j => j \in t .. Len(s)
  BY <1>2
<1>6. j \in items[i] <=> j \in t .. Len(s) /\ Content(t)
  BY <1>1, <1>3, <1>4, <1>5, Zenon
<1> QED
  BY <1>6 DEF items, Content

(* The bytes up to the end of the group that is open at i.                 *)
IsBody(s, i, j) == IsGroup(s, i, j, Items(s))

LEMMA BodyRange ==
  ASSUME NEW s \in Seq(Byte), NEW i \in Nat, NEW j, IsBody(s, i, j)
  PROVE  j \in i + 1 .. Len(s) /\ j \in Nat
<1>1. PICK c \in i .. j : IsVarint(s, c, j)
  BY DEF IsBody, IsGroup, IsEndGroup
<1>2. j \in c + 1 .. Len(s)
  BY <1>1 DEF IsVarint
<1>3. c \in Int /\ c >= i
  BY <1>1
<1> QED
  BY <1>2, <1>3

LEMMA BodyOfEnd ==
  ASSUME NEW s \in Seq(Byte), NEW i \in Nat, NEW j, IsEndGroup(s, i, j)
  PROVE  IsBody(s, i, j)
<1>1. j \in i + 1 .. Len(s)
  BY DEF IsEndGroup, IsVarint
<1>2. i \in i .. j
  BY <1>1
<1>3. Splits(i, i, Items(s))
  BY SplitsNone
<1> QED
  BY <1>2, <1>3 DEF IsBody, IsGroup

LEMMA BodyOfItem ==
  ASSUME NEW s \in Seq(Byte), NEW i \in 0 .. Len(s), NEW b \in Items(s)[i], NEW j, IsBody(s, b, j)
  PROVE  IsBody(s, i, j)
<1>1. b \in i + 1 .. Len(s)
  BY ItemRange
<1>2. PICK c \in b .. j : IsEndGroup(s, c, j) /\ Splits(b, c, Items(s))
  BY DEF IsBody, IsGroup
<1>3. j \in b + 1 .. Len(s)
  BY <1>1, BodyRange
<1>4. c \in i .. j /\ c \in Int /\ i \in Int /\ b \in i .. c
  BY <1>1, <1>2, <1>3
<1>5. Splits(i, c, Items(s))
  BY <1>2, <1>4, SplitsMore
<1> QED
  BY <1>2, <1>4, <1>5 DEF IsBody, IsGroup

LEMMA BodyCases ==
  ASSUME NEW s \in Seq(Byte), NEW i \in 0 .. Len(s), NEW j, IsBody(s, i, j)
  PROVE  IsEndGroup(s, i, j) \/ \E b \in Items(s)[i] : IsBody(s, b, j)
<1>1. PICK c \in i .. j : IsEndGroup(s, c, j) /\ Splits(i, c, Items(s))
  BY DEF IsBody, IsGroup
<1>2. j \in i + 1 .. Len(s)
  BY BodyRange
<1>3. c \in Int /\ i \in Int /\ c >= i /\ c < Len(s)
  <2>1. j \in c + 1 .. Len(s)
    BY <1>1 DEF IsEndGroup, IsVarint
  <2> QED BY <1>1, <1>2, <2>1
<1>4. CASE c = i
  BY <1>1, <1>4
<1>5. CASE c # i
  <2>1. \A a \in i .. c : \A b \in Items(s)[a] : b \in Int /\ b > a
    <3> TAKE a \in i .. c
    <3>1. a \in 0 .. Len(s)
      BY <1>3
    <3>2. \A b \in Items(s)[a] : b \in a + 1 .. Len(s)
      BY <3>1, ItemRange
    <3> QED BY <3>1, <3>2
  <2>2. i < c
    BY <1>3, <1>5
  <2>3. PICK b \in i + 1 .. c : b \in Items(s)[i] /\ Splits(b, c, Items(s))
    BY <1>1, <1>3, <2>1, <2>2, SplitsFirst
  <2>4. c \in b .. j
    BY <1>1, <1>2, <2>3
  <2>5. IsBody(s, b, j)
    BY <1>1, <2>3, <2>4 DEF IsBody, IsGroup
  <2> QED BY <2>3, <2>5
<1> QED
  BY <1>4, <1>5

(* From i on, d open groups end one after the other, the last at k.        *)
Chain(c, s, d, i, k) ==
  /\ c \in [0 .. d -> Nat] /\ c[0] = i /\ c[d] = k
  /\ \A m, n \in 0 .. d : m < n => c[m] < c[n]
  /\ \A m \in 0 .. d - 1 : IsBody(s, c[m], c[m + 1])

Closes(s, d, i, k) == \E c : Chain(c, s, d, i, k)

LEMMA ClosesNone ==
  ASSUME NEW s, NEW i \in Nat, NEW k
  PROVE  Closes(s, 0, i, k) <=> k = i
<1>1. ASSUME k = i PROVE Closes(s, 0, i, k)
  <2>1. Chain([m \in 0 .. 0 |-> i], s, 0, i, k)
    BY <1>1 DEF Chain
  <2> QED BY <2>1 DEF Closes
<1>2. ASSUME Closes(s, 0, i, k) PROVE k = i
  BY <1>2 DEF Closes, Chain
<1> QED
  BY <1>1, <1>2

LEMMA ClosesRange ==
  ASSUME NEW s \in Seq(Byte), NEW d \in Nat, NEW i \in Nat, NEW k, Closes(s, d, i, k)
  PROVE  k \in Nat /\ i <= k /\ (d > 0 => i < k /\ k <= Len(s))
<1>1. PICK c : Chain(c, s, d, i, k)
  BY DEF Closes
<1>2. c \in [0 .. d -> Nat] /\ c[0] = i /\ c[d] = k /\ 0 \in 0 .. d /\ d \in 0 .. d
  BY <1>1 DEF Chain
<1>3. CASE d = 0
  BY <1>2, <1>3
<1>4. CASE d > 0
  <2>1. c[0] < c[d]
    BY <1>1, <1>2, <1>4 DEF Chain
  <2>2. d - 1 \in 0 .. d - 1 /\ (d - 1) + 1 = d /\ d - 1 \in 0 .. d
    BY <1>4
  <2>3. IsBody(s, c[d - 1], c[d]) /\ c[d - 1] \in Nat
    BY <1>1, <1>2, <2>2 DEF Chain
  <2>4. c[d] \in c[d - 1] + 1 .. Len(s)
    BY <2>3, BodyRange
  <2>5. k <= Len(s)
    BY <1>2, <2>3, <2>4
  <2> QED BY <1>2, <2>1, <2>5
<1> QED
  BY <1>3, <1>4

(* The innermost group ends first.                                         *)
LEMMA ClosesFirst ==
  ASSUME NEW s \in Seq(Byte), NEW d \in Nat, NEW i \in Nat, NEW k, Closes(s, d + 1, i, k)
  PROVE  \E b \in Nat : IsBody(s, i, b) /\ Closes(s, d, b, k)
<1>1. PICK c : Chain(c, s, d + 1, i, k)
  BY DEF Closes
<1> DEFINE h == [m \in 0 .. d |-> c[m + 1]]
<1>2. /\ c \in [0 .. d + 1 -> Nat] /\ c[0] = i /\ c[d + 1] = k
      /\ \A m, n \in 0 .. d + 1 : m < n => c[m] < c[n]
      /\ \A m \in 0 .. (d + 1) - 1 : IsBody(s, c[m], c[m + 1])
  BY <1>1 DEF Chain
<1>3. \A m \in 0 .. d : m + 1 \in 0 .. d + 1 /\ m \in 0 .. (d + 1) - 1
  OBVIOUS
<1>4. h \in [0 .. d -> Nat]
  BY <1>2, <1>3
<1>5. \A m \in 0 .. d : h[m] = c[m + 1]
  OBVIOUS
<1>6. h[0] = c[1] /\ h[d] = k
  BY <1>2, <1>5
<1> HIDE DEF h
<1>7. \A m, n \in 0 .. d : m < n => h[m] < h[n]
  <2> TAKE m, n \in 0 .. d
  <2>1. m < n => m + 1 < n + 1
    OBVIOUS
  <2> QED BY <1>2, <1>3, <1>5, <2>1
<1>8. \A m \in 0 .. d - 1 : IsBody(s, h[m], h[m + 1])
  <2> TAKE m \in 0 .. d - 1
  <2>1. m \in 0 .. d /\ m + 1 \in 0 .. d /\ m + 1 \in 0 .. (d + 1) - 1
    OBVIOUS
  <2>2. h[m] = c[m + 1] /\ h[m + 1] = c[(m + 1) + 1]
    BY <1>5, <2>1
  <2>3. IsBody(s, c[m + 1], c[(m + 1) + 1])
    BY <1>2, <2>1
  <2> QED BY <2>2, <2>3
<1>9. Chain(h, s, d, c[1], k)
  BY <1>4, <1>6, <1>7, <1>8 DEF Chain
<1>10. IsBody(s, i, c[1]) /\ c[1] \in Nat
  <2>1. 0 \in 0 .. (d + 1) - 1 /\ 0 + 1 = 1 /\ 1 \in 0 .. d + 1
    OBVIOUS
  <2> QED BY <1>2, <2>1
<1> QED
  BY <1>9, <1>10 DEF Closes

LEMMA ClosesMore ==
  ASSUME NEW s \in Seq(Byte), NEW d \in Nat, NEW i \in Nat, NEW b \in Nat, NEW k,
         IsBody(s, i, b), Closes(s, d, b, k)
  PROVE  Closes(s, d + 1, i, k)
<1>1. PICK c : Chain(c, s, d, b, k)
  BY DEF Closes
<1> DEFINE h == [m \in 0 .. d + 1 |-> IF m = 0 THEN i ELSE c[m - 1]]
<1>2. /\ c \in [0 .. d -> Nat] /\ c[0] = b /\ c[d] = k
      /\ \A m, n \in 0 .. d : m < n => c[m] < c[n]
      /\ \A m \in 0 .. d - 1 : IsBody(s, c[m], c[m + 1])
  BY <1>1 DEF Chain
<1>3. i < b
  BY BodyRange
<1>4. \A m \in 1 .. d + 1 : m - 1 \in 0 .. d /\ h[m] = c[m - 1]
  OBVIOUS
<1>5. h[0] = i
  OBVIOUS
<1>6. h \in [0 .. d + 1 -> Nat]
  BY <1>2
<1> HIDE DEF h
<1>7. h[d + 1] = k
  <2>1. d + 1 \in 1 .. d + 1 /\ (d + 1) - 1 = d
    OBVIOUS
  <2> QED BY <1>2, <1>4, <2>1
<1>8. \A n \in 0 .. d : b <= c[n]
  <2> TAKE n \in 0 .. d
  <2>1. CASE n = 0
    BY <1>2, <2>1
  <2>2. CASE n # 0
    <3>1. 0 < n /\ 0 \in 0 .. d
      BY <2>2
    <3>2. c[0] < c[n] /\ c[n] \in Nat
      BY <1>2, <3>1
    <3> QED BY <1>2, <3>2
  <2> QED BY <2>1, <2>2
<1>9. \A m, n \in 0 .. d + 1 : m < n => h[m] < h[n]
  <2> TAKE m, n \in 0 .. d + 1
  <2> HAVE m < n
  <2>1. n \in 1 .. d + 1 /\ n - 1 \in 0 .. d /\ c[n - 1] \in Nat
    BY <1>2
  <2>2. CASE m = 0
    <3>1. b <= c[n - 1] /\ h[n] = c[n - 1] /\ h[m] = i
      BY <1>4, <1>5, <1>8, <2>1, <2>2
    <3> QED BY <1>3, <2>1, <3>1
  <2>3. CASE m # 0
    <3>1. m \in 1 .. d + 1 /\ m - 1 \in 0 .. d /\ m - 1 < n - 1
      BY <2>3
    <3> QED BY <1>2, <1>4, <2>1, <3>1
  <2> QED BY <2>2, <2>3
<1>10. \A m \in 0 .. (d + 1) - 1 : IsBody(s, h[m], h[m + 1])
  <2> TAKE m \in 0 .. (d + 1) - 1
  <2>1. m + 1 \in 1 .. d + 1 /\ (m + 1) - 1 = m
    OBVIOUS
  <2>2. h[m + 1] = c[m]
    BY <1>4, <2>1
  <2>3. CASE m = 0
    BY <1>2, <1>5, <2>2, <2>3
  <2>4. CASE m # 0
    <3>1. m \in 1 .. d + 1 /\ m - 1 \in 0 .. d - 1 /\ (m - 1) + 1 = m
      BY <2>4
    <3>2. h[m] = c[m - 1] /\ IsBody(s, c[m - 1], c[(m - 1) + 1])
      BY <1>2, <1>4, <3>1
    <3> QED BY <2>2, <3>1, <3>2
  <2> QED BY <2>3, <2>4
<1>11. Chain(h, s, d + 1, i, k)
  BY <1>5, <1>6, <1>7, <1>9, <1>10 DEF Chain
<1> QED
  BY <1>11 DEF Closes

(***************************************************************************)
(* What must follow for a skipped field to end at k: an item, or the ends  *)
(* of the groups that are open, which begin with an item or an end.        *)
(***************************************************************************)
Need(s, d, i, k) == IF d = 0 THEN k \in Items(s)[i] ELSE Closes(s, d, i, k)

LEMMA NeedRange ==
  ASSUME NEW s \in Seq(Byte), NEW d \in Nat, NEW i \in 0 .. Len(s), NEW k, Need(s, d, i, k)
  PROVE  k \in i + 1 .. Len(s)
<1>1. CASE d = 0
  BY <1>1, ItemRange DEF Need
<1>2. CASE d # 0
  <2>1. Closes(s, d, i, k) /\ i \in Nat
    BY <1>2 DEF Need
  <2>2. k \in Nat /\ i < k /\ k <= Len(s)
    BY <1>2, <2>1, ClosesRange
  <2> QED BY <2>2
<1> QED
  BY <1>1, <1>2

(* It begins with a tag.                                                   *)
LEMMA NeedTag ==
  ASSUME NEW s \in Seq(Byte), NEW d \in Nat, NEW i \in 0 .. Len(s), NEW k, Need(s, d, i, k)
  PROVE  \E t \in i + 1 .. k : IsVarint(s, i, t)
<1>1. ASSUME NEW b \in Items(s)[i] PROVE \E t \in i + 1 .. b : IsVarint(s, i, t)
  BY ItemsOf DEF ItemsAt
<1>2. CASE d = 0
  BY <1>1, <1>2 DEF Need
<1>3. CASE d # 0
  <2>1. d - 1 \in Nat /\ (d - 1) + 1 = d /\ i \in Nat
    BY <1>3
  <2>2. Closes(s, (d - 1) + 1, i, k)
    BY <1>3, <2>1 DEF Need
  <2>3. PICK b \in Nat : IsBody(s, i, b) /\ Closes(s, d - 1, b, k)
    BY <2>1, <2>2, ClosesFirst
  <2>4. b \in i + 1 .. Len(s) /\ k \in Nat /\ b <= k
    BY <2>1, <2>3, BodyRange, ClosesRange
  <2>5. CASE IsEndGroup(s, i, b)
    BY <2>4, <2>5 DEF IsEndGroup
  <2>6. CASE \E x \in Items(s)[i] : IsBody(s, x, b)
    <3>1. PICK x \in Items(s)[i] : IsBody(s, x, b)
      BY <2>6
    <3>2. PICK t \in i + 1 .. x : IsVarint(s, i, t)
      BY <1>1
    <3>3. x \in i + 1 .. Len(s)
      BY ItemRange
    <3>4. b \in x + 1 .. Len(s)
      BY <3>1, <3>3, BodyRange
    <3>5. t \in i + 1 .. k
      BY <2>4, <3>2, <3>3, <3>4
    <3> QED BY <3>2, <3>5
  <2> QED BY <2>3, <2>5, <2>6, BodyCases
<1> QED
  BY <1>2, <1>3

(* After a tag that is not the end of a group: its contents, and then the  *)
(* ends of the groups that are open.                                       *)
LEMMA NeedContent ==
  ASSUME NEW s \in Seq(Byte), NEW d \in Nat, NEW i \in 0 .. Len(s), NEW t, IsVarint(s, i, t),
         NEW k
  PROVE  LET wire == WireType(ValueOf(s, i, t)) IN
           wire # 4 \/ d = 0 =>
             (Need(s, d, i, k) <=>
                \E b \in t .. Len(s) : IsContent(wire, s, t, b, Items(s)) /\ Closes(s, d, b, k))
<1> DEFINE wire == WireType(ValueOf(s, i, t))
           Content(b) == b \in t .. Len(s) /\ IsContent(wire, s, t, b, Items(s))
<1>1. i \in Nat /\ t \in i + 1 .. Len(s) /\ t \in Nat
  BY VarintParts
<1>2. \A b : b \in Items(s)[i] <=> Content(b)
  BY ItemOfTag
<1>3. \A b : Content(b) => b \in Nat
  BY <1>1
<1> HIDE DEF wire, Content
<1>4. CASE d = 0
  <2>1. Need(s, d, i, k) <=> Content(k)
    BY <1>2, <1>4 DEF Need
  <2>2. \A b : Content(b) => (Closes(s, d, b, k) <=> k = b)
    BY <1>3, <1>4, ClosesNone
  <2>3. Need(s, d, i, k) <=> \E b : Content(b) /\ Closes(s, d, b, k)
    BY <2>1, <2>2
  <2> QED BY <2>3 DEF wire, Content
<1>5. CASE d # 0 /\ wire # 4
  <2>1. d - 1 \in Nat /\ (d - 1) + 1 = d
    BY <1>5
  <2>2. Need(s, d, i, k) <=> Closes(s, (d - 1) + 1, i, k)
    BY <1>5, <2>1 DEF Need
  <2>3. ASSUME Closes(s, (d - 1) + 1, i, k) PROVE \E b : Content(b) /\ Closes(s, d, b, k)
    <3>1. PICK c \in Nat : IsBody(s, i, c) /\ Closes(s, d - 1, c, k)
      BY <1>1, <2>1, <2>3, ClosesFirst
    <3>2. ~IsEndGroup(s, i, c)
      <4>1. IsVarint(s, i, c) => c = t
        BY <1>1, VarintUnique
      <4> QED BY <1>5, <4>1 DEF IsEndGroup, wire
    <3>3. PICK b \in Items(s)[i] : IsBody(s, b, c)
      BY <3>1, <3>2, BodyCases
    <3>4. Content(b) /\ b \in Nat
      BY <1>2, <1>3
    <3>5. Closes(s, (d - 1) + 1, b, k)
      BY <2>1, <3>1, <3>3, <3>4, ClosesMore
    <3> QED BY <2>1, <3>4, <3>5
  <2>4. ASSUME NEW b, Content(b), Closes(s, d, b, k) PROVE Closes(s, (d - 1) + 1, i, k)
    <3>1. b \in Nat /\ b \in Items(s)[i]
      BY <1>2, <1>3, <2>4
    <3>2. PICK c \in Nat : IsBody(s, b, c) /\ Closes(s, d - 1, c, k)
      BY <2>1, <2>4, <3>1, ClosesFirst
    <3>3. IsBody(s, i, c)
      BY <3>1, <3>2, BodyOfItem
    <3> QED BY <1>1, <2>1, <3>2, <3>3, ClosesMore
  <2>5. Need(s, d, i, k) <=> \E b : Content(b) /\ Closes(s, d, b, k)
    BY <2>2, <2>3, <2>4
  <2> QED BY <2>5 DEF wire, Content
<1> QED
  BY <1>4, <1>5 DEF wire

(* After the tag that ends a group.                                        *)
LEMMA NeedEnd ==
  ASSUME NEW s \in Seq(Byte), NEW d \in Nat, d > 0, NEW i \in 0 .. Len(s),
         NEW t, IsVarint(s, i, t), WireType(ValueOf(s, i, t)) = 4, NEW k
  PROVE  Need(s, d, i, k) <=> Closes(s, d - 1, t, k)
<1>1. i \in Nat /\ t \in i + 1 .. Len(s) /\ t \in Nat
  BY VarintParts
<1>2. d - 1 \in Nat /\ (d - 1) + 1 = d
  OBVIOUS
<1>3. Need(s, d, i, k) <=> Closes(s, (d - 1) + 1, i, k)
  BY <1>2 DEF Need
<1>4. ASSUME Closes(s, (d - 1) + 1, i, k) PROVE Closes(s, d - 1, t, k)
  <2>1. PICK c \in Nat : IsBody(s, i, c) /\ Closes(s, d - 1, c, k)
    BY <1>1, <1>2, <1>4, ClosesFirst
  <2>2. Items(s)[i] = {}
    <3>1. ASSUME NEW b \in Items(s)[i] PROVE FALSE
      <4>1. IsContent(WireType(ValueOf(s, i, t)), s, t, b, Items(s))
        BY ItemOfTag
      <4> QED BY <4>1 DEF IsContent
    <3> QED BY <3>1
  <2>3. IsEndGroup(s, i, c)
    BY <2>1, <2>2, BodyCases
  <2>4. c = t
    BY <1>1, <2>3, VarintUnique DEF IsEndGroup
  <2> QED BY <2>1, <2>4
<1>5. ASSUME Closes(s, d - 1, t, k) PROVE Closes(s, (d - 1) + 1, i, k)
  <2>1. IsBody(s, i, t)
    BY <1>1, BodyOfEnd DEF IsEndGroup
  <2> QED BY <1>1, <1>2, <1>5, <2>1, ClosesMore
<1> QED
  BY <1>3, <1>4, <1>5

(* After the tag that begins a group.                                      *)
LEMMA NeedGroup ==
  ASSUME NEW s \in Seq(Byte), NEW d \in Nat, NEW i \in 0 .. Len(s),
         NEW t, IsVarint(s, i, t), WireType(ValueOf(s, i, t)) = 3, NEW k
  PROVE  Need(s, d, i, k) <=> Closes(s, d + 1, t, k)
<1>1. i \in Nat /\ t \in i + 1 .. Len(s) /\ t \in Nat
  BY VarintParts
<1>2. Need(s, d, i, k) <=>
        \E b \in t .. Len(s) : IsContent(3, s, t, b, Items(s)) /\ Closes(s, d, b, k)
  BY NeedContent
<1>3. \A b : IsContent(3, s, t, b, Items(s)) <=> IsBody(s, t, b)
  BY DEF IsContent, IsBody
<1>4. ASSUME Closes(s, d + 1, t, k)
      PROVE  \E b \in t .. Len(s) : IsBody(s, t, b) /\ Closes(s, d, b, k)
  <2>1. PICK b \in Nat : IsBody(s, t, b) /\ Closes(s, d, b, k)
    BY <1>1, <1>4, ClosesFirst
  <2>2. b \in t .. Len(s)
    BY <1>1, <2>1, BodyRange
  <2> QED BY <2>1, <2>2
<1>5. ASSUME NEW b \in t .. Len(s), IsBody(s, t, b), Closes(s, d, b, k)
      PROVE  Closes(s, d + 1, t, k)
  <2>1. b \in Nat
    BY <1>1
  <2> QED BY <1>1, <1>5, <2>1, ClosesMore
<1> QED
  BY <1>2, <1>3, <1>4, <1>5

(***************************************************************************)
(* Fields.                                                                 *)
(***************************************************************************)
HasField(m, n) == StringField(m, n) \/ ParamsField(m, n)

(* The length and the contents of a known field.                           *)
IsKnownContent(m, n, s, t, j) ==
  \E k \in t + 1 .. j : IsBytesAt(s, t, k, j) /\ (ParamsField(m, n) => IsParams(s, k, j))

LEMMA FieldOfTag ==
  ASSUME NEW s \in Seq(Byte), NEW i \in Nat, NEW t, IsVarint(s, i, t), NEW m, NEW j
  PROVE  IsField(m, s, i, j) <=>
           /\ t \in i + 1 .. j
           /\ FieldNumber(ValueOf(s, i, t)) > 0
           /\ IF HasField(m, FieldNumber(ValueOf(s, i, t)))
                THEN /\ WireType(ValueOf(s, i, t)) = 2
                     /\ IsKnownContent(m, FieldNumber(ValueOf(s, i, t)), s, t, j)
                ELSE j \in Items(s)[i]
<1> DEFINE Is(x) ==
      /\ FieldNumber(ValueOf(s, i, x)) > 0
      /\ IF HasField(m, FieldNumber(ValueOf(s, i, x)))
           THEN /\ WireType(ValueOf(s, i, x)) = 2
                /\ IsKnownContent(m, FieldNumber(ValueOf(s, i, x)), s, x, j)
           ELSE j \in Items(s)[i]
<1>1. IsField(m, s, i, j) <=> \E x \in i + 1 .. j : IsVarint(s, i, x) /\ Is(x)
  BY Zenon DEF IsField, HasField, IsKnownContent
<1>2. \A x : IsVarint(s, i, x) => x = t
  BY VarintUnique
<1> HIDE DEF Is
<1>3. IsField(m, s, i, j) <=> t \in i + 1 .. j /\ Is(t)
  BY <1>1, <1>2
<1> QED
  BY <1>3 DEF Is

LEMMA FieldTag ==
  ASSUME NEW s, NEW i, NEW m, NEW j, IsField(m, s, i, j)
  PROVE  \E t \in i + 1 .. j : IsVarint(s, i, t)
BY DEF IsField

LEMMA FieldOfParams ==
  ASSUME NEW s \in Seq(Byte), NEW i \in Nat, NEW j
  PROVE  IsField("Params", s, i, j) <=> IsUnknownField(s, i, j)
<1>1. \A n : ~StringField("Params", n) /\ ~ParamsField("Params", n)
  BY DEF StringField, ParamsField
<1> QED
  BY <1>1 DEF IsField, IsUnknownField

LEMMA ParamsNone ==
  ASSUME NEW s, NEW i \in Int
  PROVE  IsParams(s, i, i)
BY SplitsNone DEF IsParams

LEMMA ParamsFirst ==
  ASSUME NEW s \in Seq(Byte), NEW i \in Nat, NEW j \in Nat, i < j, IsParams(s, i, j)
  PROVE  \E b \in i + 1 .. j : IsField("Params", s, i, b) /\ IsParams(s, b, j)
<1> DEFINE Ends(x) == [a \in x .. j |-> {b \in a + 1 .. j : IsUnknownField(s, a, b)}]
           e == Ends(i)
<1>1. \A a \in i .. j : \A b \in e[a] : b \in Int /\ b > a
  OBVIOUS
<1>2. Splits(i, j, e)
  BY DEF IsParams
<1>3. e[i] = {b \in i + 1 .. j : IsUnknownField(s, i, b)}
  OBVIOUS
<1> HIDE DEF e
<1>4. PICK b \in i + 1 .. j : b \in e[i] /\ Splits(b, j, e)
  BY <1>1, <1>2, SplitsFirst
<1>5. \A a \in b .. j : \A c \in b .. j : c \in e[a] <=> c \in Ends(b)[a]
  <2> TAKE a \in b .. j
  <2>1. a \in i .. j
    OBVIOUS
  <2>2. e[a] = {c \in a + 1 .. j : IsUnknownField(s, a, c)}
    BY <2>1 DEF e
  <2>3. Ends(b)[a] = {c \in a + 1 .. j : IsUnknownField(s, a, c)}
    OBVIOUS
  <2> QED BY <2>2, <2>3
<1>6. Splits(b, j, Ends(b))
  <2> DEFINE f == Ends(b)
  <2>1. \A a \in b .. j : \A c \in b .. j : c \in e[a] <=> c \in f[a]
    BY <1>5
  <2>2. b \in Int /\ j \in Int
    OBVIOUS
  <2> HIDE DEF f
  <2>3. Splits(b, j, f)
    BY <1>4, <2>1, <2>2, SplitsAgree
  <2> QED BY <2>3 DEF f
<1>7. IsField("Params", s, i, b)
  BY <1>3, <1>4, FieldOfParams
<1> QED
  BY <1>6, <1>7 DEF IsParams

LEMMA ParamsMore ==
  ASSUME NEW s \in Seq(Byte), NEW i \in Nat, NEW j \in Nat, NEW b \in i + 1 .. j,
         IsField("Params", s, i, b), IsParams(s, b, j)
  PROVE  IsParams(s, i, j)
<1> DEFINE Ends(x) == [a \in x .. j |-> {c \in a + 1 .. j : IsUnknownField(s, a, c)}]
           e == Ends(b)
           f == Ends(i)
<1>1. Splits(b, j, e)
  BY DEF IsParams
<1>2. \A a \in b .. j : \A c \in b .. j : c \in e[a] <=> c \in f[a]
  <2> TAKE a \in b .. j
  <2>1. a \in i .. j
    OBVIOUS
  <2>2. e[a] = {c \in a + 1 .. j : IsUnknownField(s, a, c)}
    OBVIOUS
  <2>3. f[a] = {c \in a + 1 .. j : IsUnknownField(s, a, c)}
    BY <2>1
  <2> QED BY <2>2, <2>3
<1>3. b \in f[i]
  BY FieldOfParams
<1>4. b \in Int /\ j \in Int /\ i \in Int /\ b \in i .. j
  OBVIOUS
<1> HIDE DEF e, f
<1>5. Splits(b, j, f)
  BY <1>1, <1>2, <1>4, SplitsAgree
<1>6. Splits(i, j, f)
  BY <1>3, <1>4, <1>5, SplitsMore
<1> QED
  BY <1>6 DEF f, IsParams

(***************************************************************************)
(* Part 2.  The decoder stays within its buffer.                           *)
(*                                                                         *)
(* Positions adds to InBounds what an overflow could break: a skip is      *)
(* still behind its beginning and no further ahead than an int reaches, so *)
(* that the sum of two lengths is the true sum or negative, and the        *)
(* outermost slice is the buffer, to which the nested call returns.        *)
(***************************************************************************)

Positions ==
  /\ Len(buf) < Half
  /\ caller = -1 => base = 0 /\ end = Len(buf)
  /\ pc \in SkipReads \cup {"skipLoop", "skipTagRead", "skipLengthRead"} => pre <= index
  /\ pc = "skipEnd" => index - pre < Half

Inv == TypeOK /\ InBounds /\ Positions

Errors == {"none", "overflow", "eof", "tag", "length", "end of group"}

(***************************************************************************)
(* Arithmetic.                                                             *)
(***************************************************************************)
(* A remainder is below its modulus.                                       *)
LEMMA Remainder ==
  ASSUME NEW x \in Int, NEW m \in Nat, m > 0
  PROVE  x % m \in 0 .. m - 1
OBVIOUS

(* The sum of two lengths is right or negative.                            *)
LEMMA SumOrNegative ==
  ASSUME NEW a \in 0 .. Half - 1, NEW b \in 0 .. Half - 1
  PROVE  /\ Plus(a, b) \in Int
         /\ Plus(a, b) = a + b \/ Plus(a, b) < 0
         /\ Plus(a, b) < Half
BY WidthsAssumption DEF Plus

(* The bits of a uint64 as an int64.                                       *)
LEMMA Int64Range ==
  ASSUME NEW x \in 0 .. 2 * Half - 1
  PROVE  Int64(x) \in Int /\ Int64(x) < Half
BY WidthsAssumption DEF Int64

(* A field number is an integer, a wire type below eight.                  *)
LEMMA TagRange ==
  ASSUME NEW x \in Nat
  PROVE  FieldNumber(x) \in Int
<1>1. x \div 8 \in Int /\ 2 * TagHalf \in Nat /\ 2 * TagHalf > 0 /\ TagHalf \in Int
  BY WidthsAssumption
<1>2. (x \div 8) % (2 * TagHalf) \in Int
  BY <1>1, Remainder
<1>3. QED
  BY <1>1, <1>2 DEF FieldNumber

(* One more group of bits.                                                 *)
LEMMA GroupRange ==
  ASSUME NEW b \in Byte, NEW v \in 0 .. 2 * Half - 1, NEW s \in Nat
  PROVE  /\ (v + (b % High) * s) % (2 * Half) \in 0 .. 2 * Half - 1
         /\ s * High \in Nat
<1>1. High \in Nat /\ High > 0 /\ Half \in Nat /\ 2 * Half \in Nat /\ 2 * Half > 0
  BY WidthsAssumption
<1>2. b % High \in 0 .. High - 1
  BY <1>1, Remainder DEF Byte
<1>3. (b % High) * s \in Int
  BY <1>2
<1>4. v + (b % High) * s \in Int
  BY <1>1, <1>3
<1>5. (v + (b % High) * s) % (2 * Half) \in 0 .. 2 * Half - 1
  BY <1>1, <1>4, Remainder
<1>6. s * High \in Nat
  BY <1>1
<1>7. QED
  BY <1>5, <1>6

(***************************************************************************)
(* An error, and the beginning of a varint.                                *)
(***************************************************************************)
LEMMA RejectInv ==
  ASSUME Inv, NEW why \in Errors, Reject(why), pc \notin {"loop", "accepted"}
  PROVE  Inv'
<1>1. TypeOK'
  BY DEF Inv, TypeOK, Reject, input, call, varint, Errors, Pcs
<1>2. InBounds'
  BY DEF Inv, InBounds, Reject, input, call, varint, UnmarshalReads, SkipReads
<1>3. Positions'
  BY DEF Inv, Positions, Reject, input, call, varint, SkipReads
<1>4. QED
  BY <1>1, <1>2, <1>3 DEF Inv

LEMMA ReadInv ==
  ASSUME Inv, NEW reads \in {UnmarshalReads, SkipReads}, ReadVarint(reads)
  PROVE  Inv'
<1>1. CASE Overflow(reads)
  BY <1>1, RejectInv DEF Overflow, Errors, UnmarshalReads, SkipReads
<1>2. CASE OutOfInput(reads)
  BY <1>2, RejectInv DEF OutOfInput, Errors, UnmarshalReads, SkipReads
<1>3. CASE ReadByte(reads)
  <2>1. pc \in {"tag", "length", "skipTag", "skipVarint", "skipLength"} /\ index < end
    BY <1>3 DEF ReadByte, UnmarshalReads, SkipReads, InputLeft
  <2>2. buf[index + 1] \in Byte
    <3>1. index + 1 \in DOMAIN buf
      BY <2>1 DEF Inv, InBounds, InputLeft, UnmarshalReads, SkipReads
    <3>2. buf \in Seq(Byte)
      BY DEF Inv, TypeOK
    <3>3. QED
      BY <3>1, <3>2
  <2>3. value' \in 0 .. 2 * Half - 1 /\ scale' \in Nat
    BY <1>3, <2>2, GroupRange DEF ReadByte, Inv, TypeOK
  <2>4. \/ pc' = pc
        \/ pc = "tag" /\ pc' = "tagRead"
        \/ pc = "length" /\ pc' = "lengthRead"
        \/ pc = "skipTag" /\ pc' = "skipTagRead"
        \/ pc = "skipVarint" /\ pc' = "skipEnd"
        \/ pc = "skipLength" /\ pc' = "skipLengthRead"
    BY <1>3, <2>1 DEF ReadByte, AfterVarint
  <2>5. index' = index + 1 /\ UNCHANGED <<buf, kind, error, base, end, caller, pre, field, depth, authority>>
    BY <1>3 DEF ReadByte, input, call
  <2>6. /\ index \in Int /\ end \in Int /\ base \in Int /\ pre \in Int
        /\ buf \in Seq(Byte) /\ Len(buf) \in Nat
        /\ 0 <= base /\ end <= Len(buf) /\ base <= pre /\ pre <= end /\ base <= index
    <3>1. /\ index \in Int /\ end \in Int /\ base \in Int /\ pre \in Int
          /\ buf \in Seq(Byte)
      BY Zenon DEF Inv, TypeOK
    <3>2. /\ 0 <= base /\ end <= Len(buf) /\ base <= pre /\ pre <= end /\ base <= index
      BY <2>1, Zenon DEF Inv, InBounds
    <3>3. QED
      BY <3>1, <3>2
  <2>7. TypeOK'
    <3>1. pc' \in Pcs
      BY <2>1, <2>4 DEF Pcs, UnmarshalReads, SkipReads
    <3>2. index' \in Int
      BY <2>5, <2>6
    <3>3. QED
      BY <2>3, <2>5, <3>1, <3>2, Zenon DEF Inv, TypeOK
  <2>8. InBounds'
    BY <2>1, <2>4, <2>5, <2>6 DEF InBounds, InputLeft, UnmarshalReads, SkipReads
  <2>9. Positions'
    BY <2>1, <2>4, <2>5, <2>6, WidthsAssumption DEF Inv, Positions, SkipReads
  <2>10. QED
    BY <2>7, <2>8, <2>9 DEF Inv
<1>4. QED
  BY <1>1, <1>2, <1>3 DEF ReadVarint

(***************************************************************************)
(* The other actions.  What each has to show is gathered in Reassemble;    *)
(* Facts is what they know.                                                *)
(***************************************************************************)
LEMMA Facts ==
  ASSUME Inv
  PROVE  /\ index \in Int /\ end \in Int /\ base \in Int /\ pre \in Int /\ caller \in Int
         /\ buf \in Seq(Byte) /\ Len(buf) \in Nat /\ Len(buf) < Half /\ Half \in Nat
         /\ 0 <= base /\ base <= end /\ end <= Len(buf)
         /\ scale \in Nat /\ value \in 0 .. 2 * Half - 1 /\ value \in Nat
         /\ field \in Int /\ depth \in Nat /\ authority \in Seq(Byte)
         /\ error \in Errors
<1>1. /\ index \in Int /\ end \in Int /\ base \in Int /\ pre \in Int /\ caller \in Int
      /\ buf \in Seq(Byte) /\ scale \in Nat /\ value \in 0 .. 2 * Half - 1
      /\ field \in Int /\ depth \in Nat /\ authority \in Seq(Byte)
      /\ error \in Errors
  BY Zenon DEF Inv, TypeOK, Errors
<1>2. 0 <= base /\ base <= end /\ end <= Len(buf) /\ Len(buf) < Half
  BY Zenon DEF Inv, InBounds, Positions
<1>3. Half \in Nat
  BY WidthsAssumption
<1>4. Len(buf) \in Nat /\ value \in Nat
  BY <1>1, <1>3
<1>5. QED
  BY <1>1, <1>2, <1>3, <1>4, Zenon

(* A position before the end is a place in the sequence.                   *)
LEMMA PlaceInSequence ==
  ASSUME NEW s \in Seq(Byte), NEW i \in Int, NEW b \in Int, NEW e \in Int,
         0 <= b, b <= i, i < e, e <= Len(s)
  PROVE  i + 1 \in DOMAIN s
<1>1. Len(s) \in Nat /\ DOMAIN s = 1 .. Len(s)
  OBVIOUS
<1>2. i + 1 \in 1 .. Len(s)
  BY <1>1
<1>3. QED
  BY <1>1, <1>2

LEMMA Reassemble ==
  ASSUME Inv, buf' = buf, kind' = kind,
         pc' \in Pcs, error' \in Errors,
         base' \in Int, end' \in Int, caller' \in Int, index' \in Int, pre' \in Int,
         scale' \in Nat, value' \in 0 .. 2 * Half - 1,
         field' \in Int, depth' \in Nat, authority' \in Seq(Byte),
         0 <= base', base' <= end', end' <= Len(buf),
         caller' = -1 => base' = 0 /\ end' = Len(buf),
         pc' \notin {"loop", "accepted"} => base' <= pre' /\ pre' <= end',
         pc' \notin {"skipEnd", "skipLoop", "rejected"} => base' <= index' /\ index' <= end',
         pc' \in SkipReads \cup {"skipLoop", "skipTagRead", "skipLengthRead"} => pre' <= index',
         pc' = "skipEnd" => index' - pre' < Half,
         pc' = "accepted" => index' = Len(buf)
  PROVE  Inv'
<1>1. TypeOK'
  BY Zenon DEF Inv, TypeOK, Errors
<1>2. pc' \in UnmarshalReads \cup SkipReads /\ InputLeft' => (index + 1)' \in DOMAIN buf
  <2>1. SUFFICES ASSUME pc' \in UnmarshalReads \cup SkipReads, index' < end'
                 PROVE  index' + 1 \in DOMAIN buf
    BY DEF InputLeft
  <2>2. base' <= index'
    BY <2>1 DEF UnmarshalReads, SkipReads
  <2>3. buf \in Seq(Byte)
    BY Facts, Zenon
  <2>4. QED
    BY <2>1, <2>2, <2>3, PlaceInSequence, Zenon
<1>3. InBounds'
  BY <1>2, Zenon DEF InBounds
<1>4. Positions'
  BY Facts, Zenon DEF Positions
<1>5. QED
  BY <1>1, <1>3, <1>4 DEF Inv

(* Steps that move on within the call they are in.                         *)
LEMMA MoveInv ==
  ASSUME Inv, UNCHANGED <<buf, kind, error, base, end, caller>>,
         pc' \in Pcs, index' \in Int, pre' \in Int,
         scale' \in Nat, value' \in 0 .. 2 * Half - 1,
         field' \in Int, depth' \in Nat, authority' \in Seq(Byte),
         pc' \notin {"loop", "accepted"} => base <= pre' /\ pre' <= end,
         pc' \notin {"skipEnd", "skipLoop", "rejected"} => base <= index' /\ index' <= end,
         pc' \in SkipReads \cup {"skipLoop", "skipTagRead", "skipLengthRead"} => pre' <= index',
         pc' = "skipEnd" => index' - pre' < Half,
         pc' = "accepted" => index' = Len(buf)
  PROVE  Inv'
<1>1. caller = -1 => base = 0 /\ end = Len(buf)
  BY DEF Inv, Positions
<1>2. QED
  BY <1>1, Facts, Reassemble, Zenon

(* A varint, a field and a skip begin.                                     *)
LEMMA BeginFieldInv == ASSUME Inv, BeginField PROVE Inv'
<1>1. /\ pc = "loop" /\ pc' = "tag" /\ scale' = 1 /\ value' = 0 /\ pre' = index /\ index' = index
      /\ UNCHANGED <<buf, kind, error, base, end, caller, field, depth, authority>>
  BY Zenon DEF BeginField, StartVarint, input, call
<1>2. base <= index /\ index <= end
  BY <1>1 DEF Inv, InBounds
<1>3. 1 \in Nat /\ 0 \in 0 .. 2 * Half - 1 /\ index <= index /\ "tag" \in Pcs
  BY Facts DEF Pcs, UnmarshalReads
<1>4. QED
  BY <1>1, <1>2, <1>3, Facts, MoveInv DEF SkipReads

LEMMA KnownFieldInv == ASSUME Inv, KnownField PROVE Inv'
<1>1. /\ pc = "tagRead" /\ pc' = "length" /\ scale' = 1 /\ value' = 0 /\ pre' = pre /\ index' = index
      /\ field' = FieldNumber(value)
      /\ UNCHANGED <<buf, kind, error, base, end, caller, depth, authority>>
  BY Zenon DEF KnownField, StartVarint, input, call
<1>2. base <= index /\ index <= end /\ base <= pre /\ pre <= end
  BY <1>1 DEF Inv, InBounds
<1>3. 1 \in Nat /\ 0 \in 0 .. 2 * Half - 1 /\ "length" \in Pcs
  BY Facts DEF Pcs, UnmarshalReads
<1>4. field' \in Int
  BY <1>1, Facts, TagRange
<1>5. QED
  BY <1>1, <1>2, <1>3, <1>4, Facts, MoveInv DEF SkipReads

LEMMA UnknownFieldInv == ASSUME Inv, UnknownField PROVE Inv'
<1>1. /\ pc = "tagRead" /\ pc' = "skipLoop" /\ pre' = pre /\ index' = pre /\ depth' = 0
      /\ UNCHANGED <<buf, kind, error, base, end, caller, scale, value, field, authority>>
  BY Zenon DEF UnknownField, varint, input, call
<1>2. base <= pre /\ pre <= end
  BY <1>1 DEF Inv, InBounds
<1>3. 0 \in Nat /\ pre <= pre /\ "skipLoop" \in Pcs
  BY Facts DEF Pcs
<1>4. QED
  BY <1>1, <1>2, <1>3, Facts, MoveInv DEF SkipReads

LEMMA SkipBeginInv == ASSUME Inv, SkipBegin PROVE Inv'
<1>1. /\ pc = "skipLoop" /\ pc' = "skipTag" /\ scale' = 1 /\ value' = 0 /\ pre' = pre /\ index' = index
      /\ index < end
      /\ UNCHANGED <<buf, kind, error, base, end, caller, field, depth, authority>>
  BY Zenon DEF SkipBegin, StartVarint, input, call
<1>2. base <= pre /\ pre <= end /\ pre <= index
  BY <1>1 DEF Inv, InBounds, Positions
<1>3. 1 \in Nat /\ 0 \in 0 .. 2 * Half - 1 /\ "skipTag" \in Pcs
  BY Facts DEF Pcs, SkipReads
<1>4. base <= index /\ index <= end
  BY <1>1, <1>2, Facts
<1>5. QED
  BY <1>1, <1>2, <1>3, <1>4, Facts, MoveInv DEF SkipReads

LEMMA SkipValueInv == ASSUME Inv, SkipValue PROVE Inv'
<1>1. /\ pc = "skipTagRead" /\ pc' \in {"skipVarint", "skipLength"}
      /\ scale' = 1 /\ value' = 0 /\ pre' = pre /\ index' = index
      /\ UNCHANGED <<buf, kind, error, base, end, caller, field, depth, authority>>
  BY DEF SkipValue, StartVarint, input, call
<1>2. base <= pre /\ pre <= end /\ pre <= index /\ base <= index /\ index <= end
  BY <1>1 DEF Inv, InBounds, Positions
<1>3. 1 \in Nat /\ 0 \in 0 .. 2 * Half - 1 /\ "skipVarint" \in Pcs /\ "skipLength" \in Pcs
  BY Facts DEF Pcs, SkipReads
<1>4. QED
  BY <1>1, <1>2, <1>3, Facts, MoveInv DEF SkipReads

LEMMA SkipGroupInv == ASSUME Inv, SkipGroup PROVE Inv'
<1>1. /\ pc = "skipTagRead" /\ pc' = "skipEnd" /\ pre' = pre /\ index' = index
      /\ UNCHANGED <<buf, kind, error, base, end, caller, scale, value, field, authority>>
  BY Zenon DEF SkipGroup, varint, input, call
<1>2. base <= pre /\ pre <= end /\ pre <= index /\ base <= index /\ index <= end
  BY <1>1 DEF Inv, InBounds, Positions
<1>3. depth' \in Nat
  <2>1. depth' = depth + 1 \/ (depth > 0 /\ depth' = depth - 1)
    BY Zenon DEF SkipGroup
  <2>2. depth \in Nat
    BY Facts
  <2>3. QED
    BY <2>1, <2>2
<1>4. "skipEnd" \in Pcs /\ index - pre < Half
  BY <1>2, Facts DEF Pcs
<1>5. QED
  BY <1>1, <1>2, <1>3, <1>4, Facts, MoveInv DEF SkipReads

LEMMA SkipFurtherInv == ASSUME Inv, SkipFurther PROVE Inv'
<1>1. /\ pc = "skipEnd" /\ pc' = "skipLoop" /\ pre' = pre /\ index' = index /\ index >= pre
      /\ UNCHANGED <<buf, kind, error, base, end, caller, scale, value, field, depth, authority>>
  BY Zenon DEF SkipFurther, varint, input, call
<1>2. base <= pre /\ pre <= end
  BY <1>1 DEF Inv, InBounds
<1>3. "skipLoop" \in Pcs /\ pre <= index
  BY <1>1, Facts DEF Pcs
<1>4. QED
  BY <1>1, <1>2, <1>3, Facts, MoveInv DEF SkipReads

(***************************************************************************)
(* Lengths.                                                                *)
(***************************************************************************)
(* An advance within a skip may overflow, and then goes back.              *)
LEMMA AdvanceRange ==
  ASSUME Inv, pc \in {"skipTagRead", "skipLengthRead"}, NEW n \in 0 .. Half - 1
  PROVE  /\ Advance(n) \in Int /\ Advance(n) - pre < Half
         /\ base <= pre /\ pre <= end
<1>1. base <= pre /\ pre <= end /\ pre <= index /\ base <= index /\ index <= end
  BY DEF Inv, InBounds, Positions
<1>2. index - pre \in 0 .. Half - 1 /\ pre \in Int
  BY <1>1, Facts
<1>3. Plus(index - pre, n) \in Int /\ Plus(index - pre, n) < Half
  BY <1>2, SumOrNegative
<1>4. Advance(n) = pre + Plus(index - pre, n)
  BY Zenon DEF Advance
<1>5. Advance(n) \in Int /\ Advance(n) - pre < Half
  <2>1. Half \in Nat /\ pre \in Int
    BY Facts
  <2>2. QED
    BY <1>3, <1>4, <2>1
<1>6. QED
  BY <1>1, <1>5

LEMMA SkipFixedInv == ASSUME Inv, SkipFixed PROVE Inv'
<1>1. /\ pc = "skipTagRead" /\ pc' = "skipEnd" /\ pre' = pre
      /\ index' = Advance(IF WireType(value) = 1 THEN Wide ELSE Narrow)
      /\ UNCHANGED <<buf, kind, error, base, end, caller, scale, value, field, depth, authority>>
  BY Zenon DEF SkipFixed, varint, input, call
<1>2. (IF WireType(value) = 1 THEN Wide ELSE Narrow) \in 0 .. Half - 1
  BY WidthsAssumption
<1>3. index' \in Int /\ index' - pre < Half /\ base <= pre /\ pre <= end
  BY <1>1, <1>2, AdvanceRange
<1>4. "skipEnd" \in Pcs
  BY DEF Pcs
<1>5. QED
  BY <1>1, <1>3, <1>4, Facts, MoveInv DEF SkipReads

LEMMA SkipBytesInv == ASSUME Inv, SkipBytes PROVE Inv'
<1>1. /\ pc = "skipLengthRead" /\ pc' = "skipEnd" /\ pre' = pre
      /\ index' = Advance(Int64(value)) /\ Int64(value) >= 0
      /\ UNCHANGED <<buf, kind, error, base, end, caller, scale, value, field, depth, authority>>
  BY Zenon DEF SkipBytes, varint, input, call
<1>2. Int64(value) \in 0 .. Half - 1
  BY <1>1, Facts, Int64Range
<1>3. index' \in Int /\ index' - pre < Half /\ base <= pre /\ pre <= end
  BY <1>1, <1>2, AdvanceRange
<1>4. "skipEnd" \in Pcs
  BY DEF Pcs
<1>5. QED
  BY <1>1, <1>3, <1>4, Facts, MoveInv DEF SkipReads

(* A skip that the caller does not refuse ends where it says: neither of   *)
(* the two sums has overflowed.                                            *)
LEMMA SkippedIsTrue ==
  ASSUME Inv, pc = "skipEnd", SkipFits
  PROVE  base + Skipped = index /\ base <= index /\ index <= end
<1>1. base <= pre /\ pre <= end /\ pre <= index /\ index - pre < Half
  BY Facts DEF Inv, InBounds, Positions, SkipFits
<1>2. pre - base \in 0 .. Half - 1 /\ index - pre \in 0 .. Half - 1
  <2>1. /\ pre \in Int /\ base \in Int /\ index \in Int /\ end \in Int /\ Half \in Nat
        /\ 0 <= base /\ end < Half
    BY Facts
  <2>2. QED
    BY <1>1, <2>1
<1>3. Skipped \in Int /\ (Skipped = (pre - base) + (index - pre) \/ Skipped < 0)
  BY <1>2, SumOrNegative DEF Skipped
<1>4. Skipped >= 0 /\ base + Skipped <= end
  BY DEF SkipFits
<1>5. pre \in Int /\ base \in Int /\ index \in Int /\ end \in Int
  BY Facts
<1>6. QED
  BY <1>1, <1>3, <1>4, <1>5

LEMMA SkipReturnInv == ASSUME Inv, SkipReturn PROVE Inv'
<1>1. /\ pc = "skipEnd" /\ SkipFits /\ pc' = "loop" /\ pre' = pre /\ index' = base + Skipped
      /\ UNCHANGED <<buf, kind, error, base, end, caller, scale, value, field, depth, authority>>
  BY Zenon DEF SkipReturn, varint, input, call
<1>2. index' = index /\ base <= index /\ index <= end
  BY <1>1, SkippedIsTrue
<1>3. "loop" \in Pcs
  BY DEF Pcs
<1>4. QED
  BY <1>1, <1>2, <1>3, Facts, MoveInv DEF SkipReads

(* A length that fits ends within the slice, after its beginning.          *)
LEMMA PostIndexRange ==
  ASSUME Inv, pc = "lengthRead", LengthFits
  PROVE  /\ base + PostIndex \in Int
         /\ base <= index /\ index <= base + PostIndex /\ base + PostIndex <= end
<1>1. base <= index /\ index <= end
  BY DEF Inv, InBounds
<1>2. Int64(value) \in 0 .. Half - 1
  BY Facts, Int64Range DEF LengthFits
<1>3. index - base \in 0 .. Half - 1
  BY <1>1, Facts
<1>4. /\ PostIndex \in Int
      /\ PostIndex = (index - base) + Int64(value) \/ PostIndex < 0
  BY <1>2, <1>3, SumOrNegative DEF PostIndex
<1>5. PostIndex >= 0 /\ base + PostIndex <= end
  BY DEF LengthFits
<1>6. base \in Int /\ index \in Int /\ end \in Int
  BY Facts
<1>7. QED
  BY <1>1, <1>2, <1>4, <1>5, <1>6

LEMMA TakeStringInv == ASSUME Inv, TakeString PROVE Inv'
<1>1. /\ pc = "lengthRead" /\ LengthFits /\ pc' = "loop" /\ pre' = pre /\ index' = base + PostIndex
      /\ authority' = SubSeq(buf, index + 1, base + PostIndex)
      /\ UNCHANGED <<buf, kind, error, base, end, caller, scale, value, field, depth>>
  BY Zenon DEF TakeString, varint, input, call
<1>2. /\ index' \in Int
      /\ base <= index /\ index <= index' /\ base <= index' /\ index' <= end
  <2>1. /\ base + PostIndex \in Int
        /\ base <= index /\ index <= base + PostIndex /\ base + PostIndex <= end
    BY <1>1, PostIndexRange
  <2>2. base \in Int /\ index \in Int
    BY Facts
  <2>3. base <= base + PostIndex
    BY <2>1, <2>2
  <2>4. QED
    BY <1>1, <2>1, <2>3
<1>3. authority' \in Seq(Byte)
  <2>1. index + 1 >= 1 /\ index' <= Len(buf)
    BY <1>2, Facts
  <2>2. buf \in Seq(Byte) /\ index + 1 \in Int /\ index' \in Int
    BY <1>2, Facts
  <2>3. \A i \in index + 1 .. index' : buf[i] \in Byte
    BY <2>1, <2>2
  <2>4. SubSeq(buf, index + 1, index') \in Seq(Byte)
    BY <2>1, <2>2, <2>3
  <2>5. QED
    BY <1>1, <2>4
<1>4. "loop" \in Pcs
  BY DEF Pcs
<1>5. QED
  BY <1>1, <1>2, <1>3, <1>4, Facts, MoveInv DEF SkipReads

(***************************************************************************)
(* The nested call, and the end.                                           *)
(***************************************************************************)
LEMMA EnterParamsInv == ASSUME Inv, EnterParams PROVE Inv'
<1>1. /\ pc = "lengthRead" /\ LengthFits /\ pc' = "loop"
      /\ caller' = pre /\ base' = index /\ end' = base + PostIndex
      /\ UNCHANGED <<buf, kind, error, index, pre, scale, value, field, depth, authority>>
  BY Zenon DEF EnterParams, varint, input
<1>2. base + PostIndex \in Int /\ base <= index /\ index <= base + PostIndex /\ base + PostIndex <= end
  BY <1>1, PostIndexRange
<1>3. base <= pre
  BY <1>1 DEF Inv, InBounds
<1>4. /\ 0 <= base' /\ base' <= end' /\ end' <= Len(buf)
      /\ caller' # -1 /\ base' <= index' /\ index' <= end' /\ end' \in Int
  BY <1>1, <1>2, <1>3, Facts
<1>5. "loop" \in Pcs
  BY DEF Pcs
<1>6. QED
  BY <1>1, <1>4, <1>5, Facts, Reassemble DEF SkipReads

LEMMA LeaveParamsInv == ASSUME Inv, LeaveParams PROVE Inv'
<1>1. /\ pc = "loop" /\ pc' = "loop"
      /\ index' = end /\ pre' = caller /\ base' = 0 /\ end' = Len(buf) /\ caller' = -1
      /\ UNCHANGED <<buf, kind, error, scale, value, field, depth, authority>>
  BY Zenon DEF LeaveParams, varint, input
<1>2. 0 \in Int /\ -1 \in Int /\ "loop" \in Pcs
  BY DEF Pcs
<1>3. 0 <= index' /\ index' <= Len(buf)
  BY <1>1, Facts
<1>4. QED
  BY <1>1, <1>2, <1>3, Facts, Reassemble DEF SkipReads

LEMMA AcceptInv == ASSUME Inv, Accept PROVE Inv'
<1>1. /\ pc = "loop" /\ pc' = "accepted" /\ index >= end /\ caller = -1
      /\ UNCHANGED <<buf, kind, error, base, end, caller, index, pre, scale, value, field, depth,
                     authority>>
  BY Zenon DEF Accept, varint, input, call
<1>2. base <= index /\ index <= end /\ end = Len(buf)
  BY <1>1 DEF Inv, InBounds, Positions
<1>3. index = Len(buf) /\ "accepted" \in Pcs
  BY <1>1, <1>2, Facts DEF Pcs
<1>4. QED
  BY <1>1, <1>2, <1>3, Facts, MoveInv DEF SkipReads

(***************************************************************************)
(* Together.                                                               *)
(***************************************************************************)
LEMMA InitInv == ASSUME Init PROVE Inv
<1>1. PICK given \in Inputs : Unmarshalling(given.message, given.bytes, "loop")
  BY DEF Init
<1>2. given.message \in Messages /\ given.bytes \in Seq(Byte) /\ Len(given.bytes) < Half
  BY InputsAssumption
<1>3. /\ buf \in Seq(Byte) /\ kind \in Messages /\ Len(buf) < Half /\ Len(buf) \in Nat
      /\ pc = "loop" /\ error = "none" /\ base = 0 /\ end = Len(buf) /\ caller = -1
      /\ index = 0 /\ pre = 0 /\ scale = 1 /\ value = 0 /\ field = 0 /\ depth = 0
      /\ authority = <<>>
  BY <1>1, <1>2 DEF Unmarshalling
<1>4. TypeOK
  <2>1. authority \in Seq(Byte)
    BY <1>3, EmptySeq
  <2>2. value \in 0 .. 2 * Half - 1
    BY <1>3, WidthsAssumption
  <2>3. QED
    BY <1>3, <2>1, <2>2 DEF TypeOK, Pcs
<1>5. InBounds
  BY <1>3 DEF InBounds, UnmarshalReads, SkipReads
<1>6. Positions
  BY <1>3, WidthsAssumption DEF Positions, SkipReads
<1>7. QED
  BY <1>4, <1>5, <1>6 DEF Inv

LEMMA UnmarshalInv == ASSUME Inv, UnmarshalStep PROVE Inv'
<1>1. CASE BeginField
  BY <1>1, BeginFieldInv
<1>2. CASE ReadVarint(UnmarshalReads)
  BY <1>2, ReadInv
<1>3. CASE RejectTag
  BY <1>3, RejectInv DEF RejectTag, Errors
<1>4. CASE KnownField
  BY <1>4, KnownFieldInv
<1>5. CASE UnknownField
  BY <1>5, UnknownFieldInv
<1>6. CASE RejectLength
  BY <1>6, RejectInv DEF RejectLength, Errors
<1>7. CASE TakeString
  BY <1>7, TakeStringInv
<1>8. CASE EnterParams
  BY <1>8, EnterParamsInv
<1>9. CASE LeaveParams
  BY <1>9, LeaveParamsInv
<1>10. CASE Accept
  BY <1>10, AcceptInv
<1>11. QED
  BY <1>1, <1>2, <1>3, <1>4, <1>5, <1>6, <1>7, <1>8, <1>9, <1>10 DEF UnmarshalStep

LEMMA SkipInv == ASSUME Inv, SkipStep PROVE Inv'
<1>1. CASE SkipBegin
  BY <1>1, SkipBeginInv
<1>2. CASE SkipOutOfInput
  BY <1>2, RejectInv DEF SkipOutOfInput, Errors
<1>3. CASE ReadVarint(SkipReads)
  BY <1>3, ReadInv
<1>4. CASE RejectSkip
  BY <1>4, RejectInv DEF RejectSkip, Errors
<1>5. CASE SkipValue
  BY <1>5, SkipValueInv
<1>6. CASE SkipFixed
  BY <1>6, SkipFixedInv
<1>7. CASE SkipBytes
  BY <1>7, SkipBytesInv
<1>8. CASE SkipGroup
  BY <1>8, SkipGroupInv
<1>9. CASE SkipFurther
  BY <1>9, SkipFurtherInv
<1>10. CASE SkipReturn
  BY <1>10, SkipReturnInv
<1>11. CASE RejectSkipped
  BY <1>11, RejectInv DEF RejectSkipped, Errors
<1>12. QED
  BY <1>1, <1>2, <1>3, <1>4, <1>5, <1>6, <1>7, <1>8, <1>9, <1>10, <1>11 DEF SkipStep

LEMMA NextInv == ASSUME Inv, Next PROVE Inv'
<1>1. UnmarshalStep \/ SkipStep
  BY Zenon DEF Next, Unmarshal, Skip, UnmarshalMsgUpdateParams, UnmarshalMsgUpdateParamsResponse,
     UnmarshalQueryParamsRequest, UnmarshalQueryParamsResponse, UnmarshalGenesisState,
     UnmarshalModule, UnmarshalParams, skipTx, skipQuery, skipGenesis, skipModule, skipParams
<1>2. QED
  BY <1>1, UnmarshalInv, SkipInv

LEMMA StutterInv == ASSUME Inv, UNCHANGED decoder PROVE Inv'
<1>1. TypeOK'
  BY DEF Inv, TypeOK, decoder, Pcs
<1>2. InBounds'
  BY DEF Inv, InBounds, InputLeft, decoder
<1>3. Positions'
  BY DEF Inv, Positions, decoder
<1>4. QED
  BY <1>1, <1>2, <1>3 DEF Inv

(* The invariant holds for inputs and widths of any size.                  *)
THEOREM DecoderInvariant == Spec => []Inv
<1>1. Init => Inv
  BY InitInv
<1>2. Inv /\ [Next]_decoder => Inv'
  BY NextInv, StutterInv
<1>3. QED
  BY <1>1, <1>2, PTL DEF Spec

(* Every variable keeps its type.                                          *)
THEOREM DecoderTypes == Spec => []TypeOK
<1>1. Inv => TypeOK
  BY DEF Inv
<1>2. QED
  BY <1>1, DecoderInvariant, PTL

(* No Unmarshal function reads outside the buffer it was given, whatever   *)
(* the bytes, the lengths they claim and the unknown fields they hold.     *)
THEOREM DecoderInBounds == Spec => []InBounds
<1>1. Inv => InBounds
  BY DEF Inv
<1>2. QED
  BY <1>1, DecoderInvariant, PTL

(***************************************************************************)
(* Every call returns.  The steps a call may still take are a number that  *)
(* each step makes smaller: a field that is complete moves its start       *)
(* ahead; within a field the tag and the length are read once, and then    *)
(* once more if the field is skipped.                                      *)
(***************************************************************************)
Returned == {"accepted", "rejected"}

(* Where the field that is being read begins.                              *)
Start(place, first, i) == IF place = "loop" THEN i ELSE first

(* What is left of the buffer behind a skip; nothing once it has passed    *)
(* the end or the sum of two lengths became negative.                      *)
Behind(n, first, i) == IF i \in first .. n THEN n - i ELSE 0

SkipRank ==
  [skipTag |-> 0, skipLoop |-> 1, skipEnd |-> 2, skipVarint |-> 2, skipLength |-> 2,
   skipLengthRead |-> 3, skipTagRead |-> 3]

(* At most so many steps before the field is complete or the call returns. *)
Within(place, n, first, i, waiting) ==
  IF place = "loop" THEN 6 * n + (IF waiting = -1 THEN 7 ELSE 8)
  ELSE IF place \in UnmarshalReads THEN 4 * n + 5 + 2 * (n - i)
  ELSE IF place \in {"tagRead", "lengthRead"} THEN 4 * n + 6 + 2 * (n - i)
  ELSE 1 + 4 * Behind(n, first, i) + SkipRank[place]

Steps(place, n, first, i, waiting) ==
  IF place \in Returned THEN 0
  ELSE (n - Start(place, first, i)) * (6 * n + 9) + Within(place, n, first, i, waiting)

StepsLeft == Steps(pc, Len(buf), pre, index, caller)

(* A field has at least the byte of its tag behind it when it is complete. *)
Consumed ==
  /\ pc = "tag" => pre <= index
  /\ pc \in {"tagRead", "length", "lengthRead", "skipTagRead", "skipVarint", "skipLength",
             "skipLengthRead"} => pre < index
  /\ pc = "skipEnd" => index # pre

LEMMA StartRange ==
  ASSUME Inv, pc \notin Returned
  PROVE  Start(pc, pre, index) \in 0 .. Len(buf)
<1>1. CASE pc = "loop"
  <2>1. base <= index /\ index <= end
    BY <1>1 DEF Inv, InBounds
  <2>2. QED
    BY <1>1, <2>1, Facts DEF Start
<1>2. CASE pc # "loop"
  <2>1. base <= pre /\ pre <= end
    BY <1>2 DEF Inv, InBounds, Returned
  <2>2. QED
    BY <1>2, <2>1, Facts DEF Start
<1>3. QED
  BY <1>1, <1>2

LEMMA WithinRange ==
  ASSUME Inv, pc \notin Returned
  PROVE  Within(pc, Len(buf), pre, index, caller) \in 1 .. 6 * Len(buf) + 8
<1> DEFINE n == Len(buf)
<1>1. n \in Nat /\ pre \in Int /\ index \in Int /\ n = Len(buf)
  BY Facts
<1> HIDE DEF n
<1>2. CASE pc = "loop"
  BY <1>1, <1>2 DEF Within
<1>3. CASE pc \in {"tag", "length", "tagRead", "lengthRead"}
  <2>1. base <= index /\ index <= end
    BY <1>3 DEF Inv, InBounds
  <2>2. 0 <= index /\ index <= n
    BY <1>1, <2>1, Facts
  <2>3. QED
    BY <1>1, <1>3, <2>2 DEF Within, UnmarshalReads
<1>4. CASE pc \in {"skipTag", "skipLoop", "skipEnd", "skipVarint", "skipLength",
                   "skipLengthRead", "skipTagRead"}
  <2>1. 0 <= pre
    <3>1. base <= pre
      BY <1>4 DEF Inv, InBounds
    <3>2. QED
      BY <3>1, Facts
  <2>2. Behind(n, pre, index) \in 0 .. n
    BY <1>1, <2>1 DEF Behind
  <2>3. SkipRank[pc] \in 0 .. 3
    BY <1>4 DEF SkipRank
  <2>4. Within(pc, n, pre, index, caller) = 1 + 4 * Behind(n, pre, index) + SkipRank[pc]
    BY <1>4 DEF Within, UnmarshalReads
  <2>5. QED
    BY <1>1, <2>2, <2>3, <2>4
<1>5. pc \in Pcs
  BY DEF Inv, TypeOK
<1>6. QED
  BY <1>2, <1>3, <1>4, <1>5 DEF Pcs, UnmarshalReads, SkipReads, Returned

(* Two parts of the measure: how much of the buffer lies behind the start  *)
(* of the field counts more than anything within a field.                  *)
LEMMA StepsParts ==
  ASSUME Inv, pc \notin Returned
  PROVE  /\ StepsLeft = (Len(buf) - Start(pc, pre, index)) * (6 * Len(buf) + 9)
                          + Within(pc, Len(buf), pre, index, caller)
         /\ StepsLeft \in Nat \ {0}
<1>1. /\ Len(buf) \in Nat
      /\ Start(pc, pre, index) \in 0 .. Len(buf)
      /\ Within(pc, Len(buf), pre, index, caller) \in 1 .. 6 * Len(buf) + 8
  BY Facts, StartRange, WithinRange
<1>2. StepsLeft = (Len(buf) - Start(pc, pre, index)) * (6 * Len(buf) + 9)
                    + Within(pc, Len(buf), pre, index, caller)
  BY DEF StepsLeft, Steps
<1>3. Len(buf) - Start(pc, pre, index) \in Nat /\ 6 * Len(buf) + 9 \in Nat
  BY <1>1
<1>4. (Len(buf) - Start(pc, pre, index)) * (6 * Len(buf) + 9) \in Nat
  BY <1>3
<1>5. QED
  BY <1>1, <1>2, <1>4

LEMMA Lexicographic ==
  ASSUME NEW a \in Nat, NEW b \in Nat, b < a, NEW w \in Nat,
         NEW x \in Nat, NEW y \in Nat, y < w
  PROVE  b * w + y < a * w + x
<1>1. b * w + w = (b + 1) * w /\ b * w \in Nat /\ a * w \in Nat
  OBVIOUS
<1>2. PICK k \in Nat : a = b + 1 + k
  <2>1. a - (b + 1) \in Nat
    OBVIOUS
  <2>2. QED
    BY <2>1
<1>3. a * w = (b + 1) * w + k * w /\ k * w \in Nat
  BY <1>2
<1>4. QED
  BY <1>1, <1>3

(* The values a step finds and leaves, as Facts and the lemmas above.      *)
LEMMA NextFieldStarts ==
  ASSUME Inv, pc \notin Returned, pc' = "loop",
         buf' = buf, index' \in Int, pre < index', index' <= Len(buf), pc # "loop"
  PROVE  StepsLeft' < StepsLeft
<1> DEFINE n == Len(buf)
           x == Within(pc, n, pre, index, caller)
           y == Within(pc', n, pre', index', caller')
<1>1. n \in Nat /\ pre \in 0 .. n /\ x \in Nat
  BY Facts, StartRange, WithinRange DEF Start
<1>2. y \in 6 * n + 7 .. 6 * n + 8
  BY <1>1 DEF Within
<1>3. StepsLeft = (n - pre) * (6 * n + 9) + x
  BY StepsParts DEF Start
<1>4. StepsLeft' = (n - index') * (6 * n + 9) + y
  BY DEF StepsLeft, Steps, Returned, Start
<1> HIDE DEF n, x, y
<1>5. n - pre \in Nat /\ n - index' \in Nat /\ n - index' < n - pre /\ n = Len(buf)
  BY <1>1 DEF n
<1>6. 6 * n + 9 \in Nat /\ y \in Nat /\ y < 6 * n + 9
  BY <1>1, <1>2
<1>7. QED
  BY <1>1, <1>3, <1>4, <1>5, <1>6, Lexicographic

LEMMA FieldGoesOn ==
  ASSUME Inv, pc \notin Returned, pc' \notin Returned, buf' = buf,
         Start(pc', pre', index') = Start(pc, pre, index),
         Within(pc', Len(buf), pre', index', caller') \in Int,
         Within(pc', Len(buf), pre', index', caller')
           < Within(pc, Len(buf), pre, index, caller)
  PROVE  StepsLeft' < StepsLeft
<1> DEFINE s == (Len(buf) - Start(pc, pre, index)) * (6 * Len(buf) + 9)
           x == Within(pc, Len(buf), pre, index, caller)
           y == Within(pc', Len(buf), pre', index', caller')
<1>1. StepsLeft = s + x
  BY StepsParts
<1>2. StepsLeft' = s + y
  BY DEF StepsLeft, Steps
<1>3. s \in Int
  <2>1. Len(buf) \in Nat /\ Start(pc, pre, index) \in Int
    BY Facts, StartRange
  <2>2. Len(buf) - Start(pc, pre, index) \in Int /\ 6 * Len(buf) + 9 \in Int
    BY <2>1
  <2>3. QED
    BY <2>2
<1>4. x \in Int
  BY Facts, WithinRange
<1> HIDE DEF s, x, y
<1>5. y \in Int /\ y < x
  BY DEF x, y
<1>6. QED
  BY <1>1, <1>2, <1>3, <1>4, <1>5

LEMMA CallReturns ==
  ASSUME Inv, pc \notin Returned, pc' \in Returned
  PROVE  StepsLeft' < StepsLeft
<1>1. StepsLeft' = 0
  BY DEF StepsLeft, Steps
<1>2. StepsLeft \in Nat \ {0}
  BY StepsParts
<1>3. QED
  BY <1>1, <1>2

(***************************************************************************)
(* Every step is one of the three.                                         *)
(***************************************************************************)
LEMMA RejectLess ==
  ASSUME Inv, NEW why \in Errors, Reject(why), pc \notin Returned
  PROVE  Consumed' /\ StepsLeft' < StepsLeft
<1>1. pc' = "rejected"
  BY DEF Reject
<1>2. Consumed'
  BY <1>1 DEF Consumed
<1>3. QED
  BY <1>1, <1>2, CallReturns DEF Returned

LEMMA ReadLess ==
  ASSUME Inv, Consumed, NEW reads \in {UnmarshalReads, SkipReads}, ReadVarint(reads)
  PROVE  Consumed' /\ StepsLeft' < StepsLeft
<1>1. pc \in {"tag", "length", "skipTag", "skipVarint", "skipLength"} /\ pc \notin Returned
  BY DEF ReadVarint, Overflow, OutOfInput, ReadByte, UnmarshalReads, SkipReads, Returned
<1>2. CASE Overflow(reads)
  BY <1>1, <1>2, RejectLess DEF Overflow, Errors
<1>3. CASE OutOfInput(reads)
  BY <1>1, <1>3, RejectLess DEF OutOfInput, Errors
<1>4. CASE ReadByte(reads)
  <2>1. /\ pc' = pc \/ pc' = AfterVarint[pc]
        /\ index < end /\ index' = index + 1 /\ pre' = pre /\ buf' = buf
    BY <1>4 DEF ReadByte, InputLeft, input
  <2>2. pre <= index
    <3>1. CASE pc \in SkipReads
      BY <3>1, Zenon DEF Inv, Positions
    <3>2. CASE pc \in {"tag", "length"}
      <4>1. pre <= index \/ pre < index
        BY <3>2 DEF Consumed
      <4>2. QED
        BY <4>1, Facts
    <3>3. QED
      BY <1>1, <3>1, <3>2 DEF SkipReads
  <2>3. base <= pre
    BY <1>1 DEF Inv, InBounds
  <2>4. /\ Len(buf) \in Nat /\ pre \in Int /\ index \in Int
        /\ 0 <= pre /\ index + 1 <= Len(buf)
    BY <2>1, <2>3, Facts
  <2>5. Consumed'
    BY <1>1, <2>1, <2>2, <2>4 DEF Consumed, AfterVarint
  <2>6. pc' \notin Returned /\ pc' # "loop" /\ pc # "loop"
    BY <1>1, <2>1 DEF AfterVarint, Returned
  <2>7. Start(pc', pre', index') = Start(pc, pre, index)
    BY <2>1, <2>6 DEF Start
  <2>8. CASE pc \in {"tag", "length"}
    <3>1. Within(pc, Len(buf), pre, index, caller) = 4 * Len(buf) + 5 + 2 * (Len(buf) - index)
      BY <2>8 DEF Within, UnmarshalReads
    <3>2. Within(pc', Len(buf), pre', index', caller')
            \in {4 * Len(buf) + 5 + 2 * (Len(buf) - (index + 1)),
                 4 * Len(buf) + 6 + 2 * (Len(buf) - (index + 1))}
      BY <2>1, <2>8 DEF Within, UnmarshalReads, AfterVarint
    <3>3. QED
      BY <1>1, <2>1, <2>4, <2>5, <2>6, <2>7, <3>1, <3>2, FieldGoesOn
  <2>9. CASE pc \in {"skipTag", "skipVarint", "skipLength"}
    <3>1. /\ Behind(Len(buf), pre, index) = Len(buf) - index
          /\ Behind(Len(buf), pre', index') = Len(buf) - (index + 1)
      BY <2>1, <2>2, <2>4 DEF Behind
    <3>2. Within(pc, Len(buf), pre, index, caller) = 1 + 4 * (Len(buf) - index) + SkipRank[pc]
      BY <2>9, <3>1 DEF Within, UnmarshalReads
    <3>3. Within(pc', Len(buf), pre', index', caller')
            = 1 + 4 * (Len(buf) - (index + 1)) + SkipRank[pc']
      BY <2>1, <2>9, <3>1 DEF Within, UnmarshalReads, AfterVarint
    <3>4. SkipRank[pc] \in 0 .. 3 /\ SkipRank[pc'] \in 0 .. 3 /\ SkipRank[pc'] <= SkipRank[pc] + 3
      BY <2>1, <2>9 DEF SkipRank, AfterVarint
    <3>5. QED
      BY <1>1, <2>1, <2>4, <2>5, <2>6, <2>7, <3>2, <3>3, <3>4, FieldGoesOn
  <2>10. QED
    BY <1>1, <2>8, <2>9
<1>5. QED
  BY <1>2, <1>3, <1>4 DEF ReadVarint

LEMMA BeginFieldLess == ASSUME Inv, BeginField PROVE Consumed' /\ StepsLeft' < StepsLeft
<1>1. pc = "loop" /\ pc' = "tag" /\ pre' = index /\ index' = index /\ buf' = buf
  BY DEF BeginField, StartVarint, input
<1>2. base <= index /\ index <= end
  BY <1>1 DEF Inv, InBounds
<1>3. Len(buf) \in Nat /\ index \in 0 .. Len(buf)
  BY <1>2, Facts
<1>4. Consumed'
  BY <1>1, <1>3 DEF Consumed
<1>5. Start(pc', pre', index') = Start(pc, pre, index) /\ pc \notin Returned /\ pc' \notin Returned
  BY <1>1 DEF Start, Returned
<1>6. /\ Within(pc, Len(buf), pre, index, caller) >= 6 * Len(buf) + 7
      /\ Within(pc', Len(buf), pre', index', caller')
           = 4 * Len(buf) + 5 + 2 * (Len(buf) - index)
  BY <1>1, <1>3 DEF Within, UnmarshalReads
<1>7. Within(pc, Len(buf), pre, index, caller) \in Int
  BY <1>5, <1>3, WithinRange
<1>8. QED
  BY <1>1, <1>3, <1>4, <1>5, <1>6, <1>7, FieldGoesOn

LEMMA KnownFieldLess == ASSUME Inv, Consumed, KnownField PROVE Consumed' /\ StepsLeft' < StepsLeft
<1>1. pc = "tagRead" /\ pc' = "length" /\ pre' = pre /\ index' = index /\ buf' = buf
  BY DEF KnownField, StartVarint, input
<1>2. Len(buf) \in Nat /\ index \in Int /\ pre < index
  BY <1>1, Facts DEF Consumed
<1>3. Consumed'
  BY <1>1, <1>2 DEF Consumed
<1>4. Start(pc', pre', index') = Start(pc, pre, index) /\ pc \notin Returned /\ pc' \notin Returned
  BY <1>1 DEF Start, Returned
<1>5. /\ Within(pc, Len(buf), pre, index, caller) = 4 * Len(buf) + 6 + 2 * (Len(buf) - index)
      /\ Within(pc', Len(buf), pre', index', caller')
           = 4 * Len(buf) + 5 + 2 * (Len(buf) - index)
  BY <1>1 DEF Within, UnmarshalReads
<1>6. QED
  BY <1>1, <1>2, <1>3, <1>4, <1>5, FieldGoesOn

LEMMA UnknownFieldLess ==
  ASSUME Inv, Consumed, UnknownField
  PROVE  Consumed' /\ StepsLeft' < StepsLeft
<1>1. pc = "tagRead" /\ pc' = "skipLoop" /\ pre' = pre /\ index' = pre /\ buf' = buf
  BY DEF UnknownField, input
<1>2. base <= pre /\ pre <= end /\ index <= end
  BY <1>1 DEF Inv, InBounds
<1>3. Len(buf) \in Nat /\ index \in Int /\ pre \in 0 .. Len(buf) /\ index <= Len(buf)
  BY <1>2, Facts
<1>4. Consumed'
  BY <1>1 DEF Consumed
<1>5. Start(pc', pre', index') = Start(pc, pre, index) /\ pc \notin Returned /\ pc' \notin Returned
  BY <1>1 DEF Start, Returned
<1>6. /\ Within(pc, Len(buf), pre, index, caller) = 4 * Len(buf) + 6 + 2 * (Len(buf) - index)
      /\ Within(pc', Len(buf), pre', index', caller') = 1 + 4 * (Len(buf) - pre) + 1
  BY <1>1, <1>3 DEF Within, UnmarshalReads, Behind, SkipRank
<1>7. QED
  BY <1>1, <1>3, <1>4, <1>5, <1>6, FieldGoesOn

(* The value of a field ends behind its length.                            *)
LEMMA TakeStringLess ==
  ASSUME Inv, Consumed, TakeString
  PROVE  Consumed' /\ StepsLeft' < StepsLeft
<1>1. pc = "lengthRead" /\ LengthFits /\ pc' = "loop" /\ index' = base + PostIndex /\ buf' = buf
  BY DEF TakeString, input
<1>2. base + PostIndex \in Int /\ index <= base + PostIndex /\ base + PostIndex <= end
  BY <1>1, PostIndexRange
<1>3. pre < index' /\ index' <= Len(buf) /\ index' \in Int
  BY <1>1, <1>2, Facts DEF Consumed
<1>4. Consumed'
  BY <1>1 DEF Consumed
<1>5. QED
  BY <1>1, <1>3, <1>4, NextFieldStarts DEF Returned

LEMMA EnterParamsLess ==
  ASSUME Inv, Consumed, EnterParams
  PROVE  Consumed' /\ StepsLeft' < StepsLeft
<1>1. pc = "lengthRead" /\ pc' = "loop" /\ index' = index /\ buf' = buf
  BY DEF EnterParams, input
<1>2. pre < index /\ index <= end
  BY <1>1 DEF Consumed, Inv, InBounds
<1>3. pre < index' /\ index' <= Len(buf) /\ index' \in Int
  BY <1>1, <1>2, Facts
<1>4. Consumed'
  BY <1>1 DEF Consumed
<1>5. QED
  BY <1>1, <1>3, <1>4, NextFieldStarts DEF Returned

LEMMA LeaveParamsLess == ASSUME Inv, LeaveParams PROVE Consumed' /\ StepsLeft' < StepsLeft
<1>1. /\ pc = "loop" /\ pc' = "loop" /\ index >= end /\ index' = end /\ buf' = buf
      /\ caller # -1 /\ caller' = -1
  BY DEF LeaveParams, input
<1>2. index <= end
  BY <1>1 DEF Inv, InBounds
<1>3. index' = index /\ Len(buf) \in Nat
  BY <1>1, <1>2, Facts
<1>4. Consumed'
  BY <1>1 DEF Consumed
<1>5. Start(pc', pre', index') = Start(pc, pre, index) /\ pc \notin Returned /\ pc' \notin Returned
  BY <1>1, <1>3 DEF Start, Returned
<1>6. /\ Within(pc, Len(buf), pre, index, caller) = 6 * Len(buf) + 8
      /\ Within(pc', Len(buf), pre', index', caller') = 6 * Len(buf) + 7
  BY <1>1 DEF Within
<1>7. QED
  BY <1>1, <1>3, <1>4, <1>5, <1>6, FieldGoesOn

LEMMA AcceptLess == ASSUME Inv, Accept PROVE Consumed' /\ StepsLeft' < StepsLeft
<1>1. pc = "loop" /\ pc' = "accepted"
  BY DEF Accept
<1>2. Consumed'
  BY <1>1 DEF Consumed
<1>3. QED
  BY <1>1, <1>2, CallReturns DEF Returned

(* A step of a skip that comes to a smaller rank and has not gone back.    *)
LEMMA SkipGoesOn ==
  ASSUME Inv, pc \in DOMAIN SkipRank, pc' \in DOMAIN SkipRank, SkipRank[pc'] < SkipRank[pc],
         buf' = buf, pre' = pre, index' \in Int, index <= index' \/ index' < pre, pre <= index
  PROVE  StepsLeft' < StepsLeft
<1>1. /\ pc \in {"skipTag", "skipLoop", "skipEnd", "skipVarint", "skipLength", "skipLengthRead",
                 "skipTagRead"}
      /\ pc' \in {"skipTag", "skipLoop", "skipEnd", "skipVarint", "skipLength", "skipLengthRead",
                  "skipTagRead"}
  BY DEF SkipRank
<1>2. Start(pc', pre', index') = Start(pc, pre, index) /\ pc \notin Returned /\ pc' \notin Returned
  BY <1>1 DEF Start, Returned
<1>3. Len(buf) \in Nat /\ pre \in Int /\ index \in Int
  BY Facts
<1>4. /\ Behind(Len(buf), pre, index) \in Nat /\ Behind(Len(buf), pre, index') \in Nat
      /\ Behind(Len(buf), pre, index') <= Behind(Len(buf), pre, index)
  BY <1>3 DEF Behind
<1>5. /\ Within(pc, Len(buf), pre, index, caller)
           = 1 + 4 * Behind(Len(buf), pre, index) + SkipRank[pc]
      /\ Within(pc', Len(buf), pre', index', caller')
           = 1 + 4 * Behind(Len(buf), pre, index') + SkipRank[pc']
  BY <1>1 DEF Within, UnmarshalReads
<1>6. SkipRank[pc] \in Int /\ SkipRank[pc'] \in Int
  BY <1>1 DEF SkipRank
<1>7. QED
  BY <1>2, <1>4, <1>5, <1>6, FieldGoesOn

LEMMA SkipBeginLess == ASSUME Inv, SkipBegin PROVE Consumed' /\ StepsLeft' < StepsLeft
<1>1. pc = "skipLoop" /\ pc' = "skipTag" /\ pre' = pre /\ index' = index /\ buf' = buf
  BY DEF SkipBegin, StartVarint, input
<1>2. pre <= index /\ index \in Int
  BY <1>1, Facts DEF Inv, Positions
<1>3. Consumed'
  BY <1>1 DEF Consumed
<1>4. /\ pc \in DOMAIN SkipRank /\ pc' \in DOMAIN SkipRank
      /\ SkipRank[pc'] < SkipRank[pc]
  BY <1>1 DEF SkipRank
<1>5. QED
  BY <1>1, <1>2, <1>3, <1>4, SkipGoesOn

LEMMA SkipValueLess == ASSUME Inv, Consumed, SkipValue PROVE Consumed' /\ StepsLeft' < StepsLeft
<1>1. /\ pc = "skipTagRead" /\ pc' \in {"skipVarint", "skipLength"}
      /\ pre' = pre /\ index' = index /\ buf' = buf
  BY DEF SkipValue, StartVarint, input
<1>2. pre < index /\ pre \in Int /\ index \in Int
  BY <1>1, Facts DEF Consumed
<1>3. Consumed'
  BY <1>1, <1>2 DEF Consumed
<1>4. pc \in DOMAIN SkipRank /\ pc' \in DOMAIN SkipRank /\ SkipRank[pc'] < SkipRank[pc]
  BY <1>1 DEF SkipRank
<1>5. QED
  BY <1>1, <1>2, <1>3, <1>4, SkipGoesOn

(* An advance goes ahead, or back behind the beginning of the skip.        *)
LEMMA AdvanceAhead ==
  ASSUME Inv, Consumed, pc \in {"skipTagRead", "skipLengthRead"}, NEW n \in 0 .. Half - 1
  PROVE  /\ Advance(n) \in Int /\ pre < index /\ Advance(n) # pre
         /\ index <= Advance(n) \/ Advance(n) < pre
<1>1. base <= pre /\ pre < index /\ index <= end
  BY DEF Inv, InBounds, Consumed
<1>2. pre \in Int /\ index \in Int /\ index - pre \in 0 .. Half - 1 /\ n \in Nat
  BY <1>1, Facts
<1>3. /\ Plus(index - pre, n) \in Int
      /\ Plus(index - pre, n) = (index - pre) + n \/ Plus(index - pre, n) < 0
  BY <1>2, SumOrNegative
<1>4. Advance(n) = pre + Plus(index - pre, n)
  BY Zenon DEF Advance
<1>5. QED
  BY <1>1, <1>2, <1>3, <1>4

LEMMA SkipFixedLess == ASSUME Inv, Consumed, SkipFixed PROVE Consumed' /\ StepsLeft' < StepsLeft
<1>1. /\ pc = "skipTagRead" /\ pc' = "skipEnd" /\ pre' = pre /\ buf' = buf
      /\ index' = Advance(IF WireType(value) = 1 THEN Wide ELSE Narrow)
  BY Zenon DEF SkipFixed, input
<1>2. (IF WireType(value) = 1 THEN Wide ELSE Narrow) \in 0 .. Half - 1
  BY WidthsAssumption
<1>3. index' \in Int /\ pre < index /\ index' # pre /\ (index <= index' \/ index' < pre)
  BY <1>1, <1>2, AdvanceAhead
<1>4. Consumed'
  BY <1>1, <1>3 DEF Consumed
<1>5. pc \in DOMAIN SkipRank /\ pc' \in DOMAIN SkipRank /\ SkipRank[pc'] < SkipRank[pc]
  BY <1>1 DEF SkipRank
<1>6. pre <= index
  BY <1>3, Facts
<1>7. QED
  BY <1>1, <1>3, <1>4, <1>5, <1>6, SkipGoesOn

LEMMA SkipBytesLess == ASSUME Inv, Consumed, SkipBytes PROVE Consumed' /\ StepsLeft' < StepsLeft
<1>1. /\ pc = "skipLengthRead" /\ pc' = "skipEnd" /\ pre' = pre /\ buf' = buf
      /\ index' = Advance(Int64(value)) /\ Int64(value) >= 0
  BY Zenon DEF SkipBytes, input
<1>2. Int64(value) \in 0 .. Half - 1
  BY <1>1, Facts, Int64Range
<1>3. index' \in Int /\ pre < index /\ index' # pre /\ (index <= index' \/ index' < pre)
  BY <1>1, <1>2, AdvanceAhead
<1>4. Consumed'
  BY <1>1, <1>3 DEF Consumed
<1>5. pc \in DOMAIN SkipRank /\ pc' \in DOMAIN SkipRank /\ SkipRank[pc'] < SkipRank[pc]
  BY <1>1 DEF SkipRank
<1>6. pre <= index
  BY <1>3, Facts
<1>7. QED
  BY <1>1, <1>3, <1>4, <1>5, <1>6, SkipGoesOn

LEMMA SkipGroupLess == ASSUME Inv, Consumed, SkipGroup PROVE Consumed' /\ StepsLeft' < StepsLeft
<1>1. pc = "skipTagRead" /\ pc' = "skipEnd" /\ pre' = pre /\ index' = index /\ buf' = buf
  BY DEF SkipGroup, input
<1>2. pre < index /\ pre \in Int /\ index \in Int
  BY <1>1, Facts DEF Consumed
<1>3. Consumed'
  BY <1>1, <1>2 DEF Consumed
<1>4. pc \in DOMAIN SkipRank /\ pc' \in DOMAIN SkipRank /\ SkipRank[pc'] < SkipRank[pc]
  BY <1>1 DEF SkipRank
<1>5. QED
  BY <1>1, <1>2, <1>3, <1>4, SkipGoesOn

LEMMA SkipFurtherLess == ASSUME Inv, SkipFurther PROVE Consumed' /\ StepsLeft' < StepsLeft
<1>1. /\ pc = "skipEnd" /\ pc' = "skipLoop" /\ pre' = pre /\ index' = index /\ buf' = buf
      /\ index >= pre
  BY DEF SkipFurther, input
<1>2. pre <= index /\ index \in Int
  BY <1>1, Facts
<1>3. Consumed'
  BY <1>1 DEF Consumed
<1>4. pc \in DOMAIN SkipRank /\ pc' \in DOMAIN SkipRank /\ SkipRank[pc'] < SkipRank[pc]
  BY <1>1 DEF SkipRank
<1>5. QED
  BY <1>1, <1>2, <1>3, <1>4, SkipGoesOn

LEMMA SkipReturnLess == ASSUME Inv, Consumed, SkipReturn PROVE Consumed' /\ StepsLeft' < StepsLeft
<1>1. pc = "skipEnd" /\ SkipFits /\ pc' = "loop" /\ index' = base + Skipped /\ buf' = buf
  BY DEF SkipReturn, input
<1>2. index' = index /\ index <= end
  BY <1>1, SkippedIsTrue
<1>3. index # pre /\ index >= pre
  BY <1>1 DEF Consumed, SkipFits
<1>4. pre < index' /\ index' <= Len(buf) /\ index' \in Int
  BY <1>2, <1>3, Facts
<1>5. Consumed'
  BY <1>1 DEF Consumed
<1>6. QED
  BY <1>1, <1>4, <1>5, NextFieldStarts DEF Returned

LEMMA UnmarshalLess ==
  ASSUME Inv, Consumed, UnmarshalStep
  PROVE  Consumed' /\ StepsLeft' < StepsLeft
<1>1. CASE BeginField
  BY <1>1, BeginFieldLess
<1>2. CASE ReadVarint(UnmarshalReads)
  BY <1>2, ReadLess
<1>3. CASE RejectTag
  BY <1>3, RejectLess DEF RejectTag, Errors, Returned
<1>4. CASE KnownField
  BY <1>4, KnownFieldLess
<1>5. CASE UnknownField
  BY <1>5, UnknownFieldLess
<1>6. CASE RejectLength
  BY <1>6, RejectLess DEF RejectLength, Errors, Returned
<1>7. CASE TakeString
  BY <1>7, TakeStringLess
<1>8. CASE EnterParams
  BY <1>8, EnterParamsLess
<1>9. CASE LeaveParams
  BY <1>9, LeaveParamsLess
<1>10. CASE Accept
  BY <1>10, AcceptLess
<1>11. QED
  BY <1>1, <1>2, <1>3, <1>4, <1>5, <1>6, <1>7, <1>8, <1>9, <1>10 DEF UnmarshalStep

LEMMA SkipLess ==
  ASSUME Inv, Consumed, SkipStep
  PROVE  Consumed' /\ StepsLeft' < StepsLeft
<1>1. CASE SkipBegin
  BY <1>1, SkipBeginLess
<1>2. CASE SkipOutOfInput
  BY <1>2, RejectLess DEF SkipOutOfInput, Errors, Returned
<1>3. CASE ReadVarint(SkipReads)
  BY <1>3, ReadLess
<1>4. CASE RejectSkip
  BY <1>4, RejectLess DEF RejectSkip, Errors, Returned
<1>5. CASE SkipValue
  BY <1>5, SkipValueLess
<1>6. CASE SkipFixed
  BY <1>6, SkipFixedLess
<1>7. CASE SkipBytes
  BY <1>7, SkipBytesLess
<1>8. CASE SkipGroup
  BY <1>8, SkipGroupLess
<1>9. CASE SkipFurther
  BY <1>9, SkipFurtherLess
<1>10. CASE SkipReturn
  BY <1>10, SkipReturnLess
<1>11. CASE RejectSkipped
  BY <1>11, RejectLess DEF RejectSkipped, Errors, Returned
<1>12. QED
  BY <1>1, <1>2, <1>3, <1>4, <1>5, <1>6, <1>7, <1>8, <1>9, <1>10, <1>11 DEF SkipStep

LEMMA NextLess ==
  ASSUME Inv, Consumed, Next
  PROVE  Consumed' /\ StepsLeft' < StepsLeft
<1>1. UnmarshalStep \/ SkipStep
  BY Zenon DEF Next, Unmarshal, Skip, UnmarshalMsgUpdateParams, UnmarshalMsgUpdateParamsResponse,
     UnmarshalQueryParamsRequest, UnmarshalQueryParamsResponse, UnmarshalGenesisState,
     UnmarshalModule, UnmarshalParams, skipTx, skipQuery, skipGenesis, skipModule, skipParams
<1>2. QED
  BY <1>1, UnmarshalLess, SkipLess

(* A natural number, and zero where the call has returned.                 *)
LEMMA StepsLeftNat ==
  ASSUME Inv
  PROVE  StepsLeft \in Nat
<1>1. CASE pc \in Returned
  BY <1>1 DEF StepsLeft, Steps
<1>2. CASE pc \notin Returned
  BY <1>2, StepsParts
<1>3. QED
  BY <1>1, <1>2

(* At most 6 n * n + 15 n + 7 steps for a buffer of n bytes.               *)
LEMMA FirstSteps ==
  ASSUME Init
  PROVE  StepsLeft = Len(buf) * (6 * Len(buf) + 9) + 6 * Len(buf) + 7
<1>1. pc = "loop" /\ index = 0 /\ caller = -1
  BY DEF Init, Unmarshalling
<1>2. Len(buf) \in Nat
  BY InitInv, Facts
<1>3. QED
  BY <1>1, <1>2 DEF StepsLeft, Steps, Returned, Start, Within

(* However lengths and positions overflow, and whatever groups are nested, *)
(* no call reads a field or a group again for ever: each step makes a      *)
(* natural number smaller, that begins quadratic in the size of the buffer.*)
(* What is left of Terminates is that the call does take its next step.    *)
THEOREM DecoderReturns ==
  Spec => /\ [](StepsLeft \in Nat)
          /\ [][StepsLeft' < StepsLeft]_decoder
<1>1. Init => Inv /\ Consumed
  BY InitInv DEF Init, Unmarshalling, Consumed
<1>2. Inv /\ Consumed /\ [Next]_decoder => (Inv /\ Consumed)'
  <2>1. ASSUME Inv, Consumed, UNCHANGED decoder
        PROVE  (Inv /\ Consumed)'
    BY <2>1, StutterInv DEF Consumed, decoder
  <2>2. QED
    BY <2>1, NextInv, NextLess
<1>3. Inv /\ Consumed /\ [Next]_decoder => [StepsLeft' < StepsLeft]_decoder
  BY NextLess
<1>4. Inv => StepsLeft \in Nat
  BY StepsLeftNat
<1>5. QED
  BY <1>1, <1>2, <1>3, <1>4, PTL DEF Spec

(***************************************************************************)
(* Part 3.  The decoder and the grammar.                                   *)
(***************************************************************************)

(***************************************************************************)
(* Where the decoder is in the grammar.                                    *)
(***************************************************************************)
(* A varint that begins at t is being read, or has been.                   *)
Reading(t) ==
  /\ t \in 0 .. index /\ \A p \in t + 1 .. index : ~(buf[p] < High)
  /\ scale = Weight[index - t] /\ value = ValueOf(buf, t, index)
HasRead(t) == IsVarint(buf, t, index) /\ value = ValueOf(buf, t, index)

(* The tag of the field, and what its end depends on from here on.         *)
KnownTag(t) ==
  /\ IsVarint(buf, pre, t)
  /\ WireType(ValueOf(buf, pre, t)) = 2 /\ FieldNumber(ValueOf(buf, pre, t)) = field
  /\ field > 0 /\ HasField(Current, field)
UnknownTag == \E t : IsVarint(buf, pre, t) /\ ~HasField(Current, FieldNumber(ValueOf(buf, pre, t)))

SkipsFrom(i) ==
  \A k \in pre + 1 .. end : IsField(Current, buf, pre, k) <=> Need(buf, depth, i, k)
SkipsValue(wire, t) ==
  \A k \in pre + 1 .. end :
    IsField(Current, buf, pre, k) <=>
      \E b \in t .. Len(buf) : IsContent(wire, buf, t, b, Items(buf)) /\ Closes(buf, depth, b, k)
SkipsTo(i) ==
  \A k \in pre + 1 .. end :
    IsField(Current, buf, pre, k) <=> i >= pre /\ Closes(buf, depth, i, k)

Skipping == SkipReads \cup {"skipLoop", "skipTagRead", "skipLengthRead", "skipEnd"}

Progress ==
  /\ pc \notin {"loop", "accepted", "rejected"} => pre < end
  /\ pc = "accepted" => caller = -1
  /\ pc = "tag" => Reading(pre)
  /\ pc = "tagRead" => HasRead(pre)
  /\ pc = "length" => \E t : KnownTag(t) /\ Reading(t)
  /\ pc = "lengthRead" => \E t : KnownTag(t) /\ HasRead(t)
  /\ pc \in Skipping => UnknownTag
  /\ pc = "skipLoop" => SkipsFrom(index) /\ (depth = 0 => index = pre)
  /\ pc = "skipTag" => \E t : Reading(t) /\ SkipsFrom(t)
  /\ pc = "skipTagRead" => \E t : HasRead(t) /\ t \in Nat /\ SkipsFrom(t)
  /\ pc = "skipVarint" => \E t : Reading(t) /\ SkipsValue(0, t)
  /\ pc = "skipLength" => \E t : Reading(t) /\ SkipsValue(2, t)
  /\ pc = "skipLengthRead" => \E t : HasRead(t) /\ t \in Nat /\ SkipsValue(2, t)
  /\ pc = "skipEnd" => SkipsTo(index)

(* Of a field of Params, which end the message around it has.              *)
ParamsFrom(i) ==
  \A k \in caller + 1 .. Len(buf) :
    IsField(kind, buf, caller, k) <=> k = end /\ IsParams(buf, i, end)

Nested ==
  /\ caller \in Nat /\ caller < base
  /\ \E t : IsVarint(buf, caller, t) /\ ~StringField(kind, FieldNumber(ValueOf(buf, caller, t)))
  /\ ParamsFrom(IF pc = "loop" THEN index ELSE pre)

(* The authority is no longer than the buffer and leaves its tag and its   *)
(* length.                                                                 *)
Fits == authority = <<>> \/ (StringField(kind, 1) /\ Len(authority) + 2 <= Len(buf))

DInv == Inv /\ Consumed /\ Progress /\ (caller # -1 /\ pc # "rejected" => Nested) /\ Fits

(***************************************************************************)
(* The varint loop.                                                        *)
(***************************************************************************)
(* A number is in one way a multiple and a remainder.                      *)
LEMMA QuotientUnique ==
  ASSUME NEW M \in Nat, M > 0, NEW a \in Int, NEW b \in Int, NEW r \in 0 .. M - 1, NEW s \in 0 .. M - 1,
         a * M + r = b * M + s
  PROVE  a = b /\ r = s
<1> DEFINE d == a - b
<1>1. d \in Int /\ d * M = s - r
  OBVIOUS
<1>2. d >= 1 => d * M >= M
  BY <1>1
<1>3. d <= -1 => d * M <= -M
  BY <1>1
<1>4. d = 0
  BY <1>1, <1>2, <1>3
<1>5. QED
  BY <1>4

LEMMA RemainderIs ==
  ASSUME NEW M \in Nat, M > 0, NEW n \in Int, NEW v \in 0 .. M - 1
  PROVE  (n * M + v) % M = v /\ (n * M + v) \div M = n
<1> DEFINE z == n * M + v
           q == z \div M
           r == z % M
<1>1. z \in Int
  OBVIOUS
<1>2. q \in Int /\ r \in 0 .. M - 1 /\ z = q * M + r
  BY <1>1
<1>3. n * M + v = q * M + r
  BY <1>2
<1>4. QED
  BY <1>2, <1>3, QuotientUnique

LEMMA AddRemainder ==
  ASSUME NEW M \in Nat, M > 0, NEW x \in Nat, NEW y \in Nat
  PROVE  ((x % M) + y) % M = (x + y) % M
<1> DEFINE q == x \div M
           r == x % M
           u == (r + y) \div M
           v == (r + y) % M
<1>1. q \in Int /\ r \in 0 .. M - 1 /\ x = q * M + r
  OBVIOUS
<1>2. u \in Int /\ v \in 0 .. M - 1 /\ r + y = u * M + v
  BY <1>1
<1>3. x + y = (q + u) * M + v /\ q + u \in Int
  BY <1>1, <1>2
<1>4. ((q + u) * M + v) % M = v
  BY <1>2, <1>3, RemainderIs
<1>5. QED
  BY <1>3, <1>4

(* One more byte.                                                          *)
LEMMA OneMore ==
  ASSUME NEW s \in Seq(Byte), NEW t \in Nat, NEW i \in Nat, t <= i, i < Len(s)
  PROVE  ValueOf(s, t, i + 1) = (ValueOf(s, t, i) + (s[i + 1] % High) * Weight[i - t]) % (2 * Half)
<1> DEFINE n == i - t
<1>1. Len(s) \in Nat /\ t \in 0 .. Len(s) /\ n \in 0 .. Len(s) - t - 1 /\ n \in Nat /\ t + n + 1 = i + 1
  OBVIOUS
<1>2. Sums(s, t)[n + 1] = Sums(s, t)[n] + (s[t + n + 1] % High) * Weight[n]
  BY <1>1, SumsOf
<1>3. (i + 1) - t = n + 1
  BY <1>1
<1> DEFINE x == Sums(s, t)[n]
           y == (s[i + 1] % High) * Weight[n]
           M == 2 * Half
<1>4. x \in Nat
  <2>1. n \in 0 .. Len(s) - t /\ Sums(s, t) \in [0 .. Len(s) - t -> Nat]
    BY <1>1, SumsOf
  <2>2. QED
    BY <2>1
<1>5. y \in Nat
  BY <1>1, Digit, WeightNat
<1>6. M \in Nat /\ M > 0
  BY WidthsAssumption
<1>7. ((x % M) + y) % M = (x + y) % M
  <2> HIDE DEF x, y, M
  <2>1. QED
    BY <1>4, <1>5, <1>6, AddRemainder
<1>8. ValueOf(s, t, i) = x % M
  BY DEF ValueOf
<1>9. ValueOf(s, t, i + 1) = (x + y) % M
  BY <1>1, <1>2, <1>3 DEF ValueOf
<1>10. QED
  BY <1>7, <1>8, <1>9

LEMMA ValueOfNone ==
  ASSUME NEW s \in Seq(Byte), NEW t \in 0 .. Len(s)
  PROVE  ValueOf(s, t, t) = 0
<1>1. Sums(s, t)[0] = 0 /\ t - t = 0
  BY SumsOf
<1>2. 0 % (2 * Half) = 0
  BY WidthsAssumption
<1>3. QED
  BY <1>1, <1>2 DEF ValueOf

LEMMA BeginReading ==
  ASSUME buf \in Seq(Byte), index \in 0 .. Len(buf), scale = 1, value = 0
  PROVE  Reading(index)
<1>1. index \in 0 .. index /\ index - index = 0
  OBVIOUS
<1>2. QED
  BY <1>1, Weights, ValueOfNone DEF Reading

LEMMA ReadMore ==
  ASSUME buf \in Seq(Byte), index \in Nat, index < Len(buf), NEW t, Reading(t),
         NEW reads, ReadByte(reads)
  PROVE  /\ buf[index + 1] < High => HasRead(t)'
         /\ ~(buf[index + 1] < High) => Reading(t)'
<1>1. /\ t \in Nat /\ t <= index /\ \A p \in t + 1 .. index : ~(buf[p] < High)
      /\ scale = Weight[index - t] /\ value = ValueOf(buf, t, index)
  BY DEF Reading
<1>2. /\ scale < 2 * Half /\ index' = index + 1 /\ scale' = scale * High /\ buf' = buf
      /\ value' = (value + (buf[index + 1] % High) * scale) % (2 * Half)
  BY DEF ReadByte, input
<1>3. value' = ValueOf(buf, t, index + 1)
  BY <1>1, <1>2, OneMore
<1>4. CASE buf[index + 1] < High
  <2>1. \A p \in t + 1 .. index + 1 : buf[p] < High <=> p = index + 1
    <3>1. TAKE p \in t + 1 .. index + 1
    <3>2. CASE p = index + 1
      BY <1>4, <3>2
    <3>3. CASE p # index + 1
      BY <1>1, <3>3
    <3>4. QED
      BY <3>2, <3>3
  <2>2. index + 1 \in t + 1 .. Len(buf) /\ (index + 1) - t - 1 = index - t
    BY <1>1
  <2>3. IsVarint(buf, t, index + 1)
    BY <1>1, <1>2, <2>1, <2>2 DEF IsVarint
  <2>4. HasRead(t)'
    BY <1>2, <1>3, <2>3 DEF HasRead
  <2>5. QED
    BY <1>4, <2>4
<1>5. CASE ~(buf[index + 1] < High)
  <2>1. \A p \in t + 1 .. index + 1 : ~(buf[p] < High)
    BY <1>1, <1>5
  <2>2. t \in 0 .. index + 1 /\ (index + 1) - t = (index - t) + 1 /\ index - t \in Nat
    BY <1>1
  <2>3. Weight[(index + 1) - t] = High * Weight[index - t]
    BY <2>2, Weights
  <2>4. High * Weight[index - t] = Weight[index - t] * High
    BY <2>2, WeightNat, WidthsAssumption
  <2>5. Reading(t)'
    BY <1>1, <1>2, <1>3, <2>1, <2>2, <2>3, <2>4 DEF Reading
  <2>6. QED
    BY <1>5, <2>5
<1>6. QED
  BY <1>4, <1>5

(* Where the loop gives up there is no varint.                             *)
LEMMA NoVarint ==
  ASSUME buf \in Seq(Byte), index \in Nat, end \in Nat, NEW t, Reading(t),
         scale >= 2 * Half \/ index >= end,
         NEW j, j <= end, IsVarint(buf, t, j)
  PROVE  FALSE
<1>1. /\ t \in Nat /\ t <= index /\ \A p \in t + 1 .. index : ~(buf[p] < High)
      /\ scale = Weight[index - t]
  BY DEF Reading
<1>2. /\ j \in t + 1 .. Len(buf) /\ buf[j] < High /\ j \in Nat
  BY <1>1, VarintParts
<1>3. Weight[j - t - 1] < 2 * Half
  BY DEF IsVarint
<1>4. j > index
  BY <1>1, <1>2
<1>5. index < end
  BY <1>2, <1>4
<1>6. index - t \in Nat /\ j - t - 1 \in Nat /\ index - t <= j - t - 1
  BY <1>1, <1>2, <1>4
<1>7. Weight[index - t] <= Weight[j - t - 1]
  BY <1>6, WeightMonotonic
<1>8. Weight[index - t] \in Nat /\ Weight[j - t - 1] \in Nat /\ Half \in Nat
  BY <1>6, WeightNat, WidthsAssumption
<1>9. QED
  BY <1>1, <1>3, <1>5, <1>7, <1>8

(***************************************************************************)
(* What a step is to a reader of fields.                                   *)
(***************************************************************************)
Same == StartOfField' = StartOfField /\ authority' = authority

Takes ==
  /\ StartOfField' \in StartOfField + 1 .. Len(buf)
  /\ IsField(kind, buf, StartOfField, StartOfField')
  /\ authority' = Holds(kind, authority, buf, StartOfField, StartOfField')

Refuses ==
  /\ Same /\ StartOfField < Len(buf)
  /\ \A j \in StartOfField + 1 .. Len(buf) : ~IsField(kind, buf, StartOfField, j)

Around == Progress /\ (caller # -1 /\ pc # "rejected" => Nested) /\ Fits

NoField == \A k \in pre + 1 .. end : ~IsField(Current, buf, pre, k)

InField == pc \notin {"loop", "accepted", "rejected"}

LEMMA FieldFacts ==
  ASSUME DInv, InField
  PROVE  /\ pre \in Nat /\ pre < end /\ end \in Nat /\ end <= Len(buf)
         /\ pre \in 0 .. Len(buf)
         /\ buf \in Seq(Byte)
         /\ pc \notin {"skipEnd", "skipLoop"} => index \in 0 .. Len(buf) /\ index <= end
<1>1. Inv /\ pre < end
  BY DEF DInv, Progress, InField
<1>2. base <= pre /\ (pc \notin {"skipEnd", "skipLoop"} => base <= index /\ index <= end)
  BY <1>1 DEF Inv, InBounds, InField
<1>3. QED
  BY <1>1, <1>2, Facts

(* An error where there is no field.                                       *)
LEMMA RejectRefuses ==
  ASSUME DInv, InField, NoField, NEW why, Reject(why)
  PROVE  Around' /\ pc' = "rejected" /\ Refuses
<1>1. pc' = "rejected" /\ UNCHANGED <<buf, kind, base, end, caller, index, pre, depth, authority, field>>
  BY DEF Reject, input, call
<1>2. Around'
  <2>1. Progress'
    BY <1>1 DEF Progress, Skipping, SkipReads
  <2>2. Fits'
    BY <1>1 DEF DInv, Fits
  <2>3. QED
    BY <1>1, <2>1, <2>2 DEF Around
<1>3. StartOfField = (IF caller # -1 THEN caller ELSE pre) /\ Same
  BY <1>1 DEF StartOfField, Same, InField
<1>4. CASE caller = -1
  <2>1. end = Len(buf) /\ Current = kind /\ StartOfField = pre
    BY <1>3, <1>4 DEF DInv, Inv, Positions, Current
  <2>2. QED
    BY <1>1, <1>2, <1>3, <2>1, FieldFacts DEF Refuses, NoField
<1>5. CASE caller # -1
  <2>1. /\ caller \in Nat /\ caller < base /\ Current = "Params" /\ StartOfField = caller
        /\ ParamsFrom(pre)
    BY <1>3, <1>5 DEF DInv, Nested, InField, Current
  <2>2. ~IsParams(buf, pre, end)
    BY <2>1, FieldFacts, ParamsFirst DEF NoField
  <2>3. \A j \in caller + 1 .. Len(buf) : ~IsField(kind, buf, caller, j)
    BY <2>1, <2>2 DEF ParamsFrom
  <2>4. caller < Len(buf)
    BY <2>1, FieldFacts, Facts DEF DInv
  <2>5. QED
    BY <1>1, <1>2, <1>3, <2>1, <2>3, <2>4 DEF Refuses
<1>6. QED
  BY <1>4, <1>5

(* A step within a field.                                                  *)
LEMMA StepWithin ==
  ASSUME DInv, InField, InField', UNCHANGED <<buf, kind, base, end, caller, pre, authority>>
  PROVE  /\ Same /\ Fits' /\ (caller # -1 => Nested)' /\ pre' < end'
         /\ Current' = Current
<1>1. Same
  BY DEF StartOfField, Same, InField
<1>2. Fits'
  BY DEF DInv, Fits
<1>3. (caller # -1 => Nested)'
  BY DEF DInv, Nested, InField, ParamsFrom
<1>4. pre' < end'
  BY FieldFacts
<1>5. Current' = Current
  BY DEF Current
<1>6. QED
  BY <1>1, <1>2, <1>3, <1>4, <1>5

(* Where the length of a known field is to be found.                       *)
LEMMA KnownEnds ==
  ASSUME DInv, InField, NEW t, KnownTag(t), NEW k
  PROVE  IsField(Current, buf, pre, k) <=> t \in pre + 1 .. k /\ IsKnownContent(Current, field, buf, t, k)
<1>1. buf \in Seq(Byte) /\ pre \in Nat
  BY FieldFacts
<1>2. /\ IsVarint(buf, pre, t)
      /\ WireType(ValueOf(buf, pre, t)) = 2 /\ FieldNumber(ValueOf(buf, pre, t)) = field
      /\ field > 0 /\ HasField(Current, field)
  BY DEF KnownTag
<1>3. QED
  BY <1>1, <1>2, FieldOfTag

LEMMA NoVarintNoField ==
  ASSUME DInv, pc \in UnmarshalReads \cup SkipReads, scale >= 2 * Half \/ index >= end
  PROVE  NoField
<1>1. InField /\ pc \in {"tag", "length", "skipTag", "skipVarint", "skipLength"}
  BY DEF InField, UnmarshalReads, SkipReads
<1>2. /\ buf \in Seq(Byte) /\ pre \in Nat /\ pre \in 0 .. Len(buf) /\ end \in Nat /\ end <= Len(buf)
      /\ index \in Nat /\ index <= Len(buf) /\ depth \in Nat
  BY <1>1, FieldFacts, Facts DEF DInv
<1>3. \A t, j : Reading(t) /\ j <= end => ~IsVarint(buf, t, j)
  BY <1>2, NoVarint
<1>4. \A t : Reading(t) => t \in Nat /\ t <= Len(buf) /\ t \in 0 .. Len(buf)
  BY <1>2 DEF Reading
<1>5. SUFFICES ASSUME NEW k \in pre + 1 .. end, IsField(Current, buf, pre, k)
               PROVE  FALSE
  BY DEF NoField
<1>6. k \in Nat /\ k <= end
  BY <1>2
<1>7. CASE pc = "tag"
  <2>1. Reading(pre)
    BY <1>7 DEF DInv, Progress
  <2>2. PICK t \in pre + 1 .. k : IsVarint(buf, pre, t)
    BY <1>5, FieldTag
  <2>3. t <= end
    BY <1>2, <1>6
  <2>4. QED
    BY <1>3, <2>1, <2>2, <2>3
<1>8. CASE pc = "length"
  <2>1. PICK t : KnownTag(t) /\ Reading(t)
    BY <1>8 DEF DInv, Progress
  <2>2. IsKnownContent(Current, field, buf, t, k)
    BY <1>1, <1>5, <2>1, KnownEnds
  <2>3. PICK j \in t + 1 .. k : IsVarint(buf, t, j)
    BY <2>2 DEF IsKnownContent, IsBytesAt
  <2>4. j <= end
    BY <1>4, <1>6, <1>2, <2>1
  <2>5. QED
    BY <1>3, <2>1, <2>3, <2>4
<1>9. CASE pc = "skipTag"
  <2>1. PICK t : Reading(t) /\ SkipsFrom(t)
    BY <1>9 DEF DInv, Progress
  <2>2. Need(buf, depth, t, k)
    BY <1>5, <2>1 DEF SkipsFrom
  <2>3. PICK j \in t + 1 .. k : IsVarint(buf, t, j)
    BY <1>2, <1>4, <2>1, <2>2, NeedTag
  <2>4. j <= end
    BY <1>2, <1>4, <1>6, <2>1
  <2>5. QED
    BY <1>3, <2>1, <2>3, <2>4
<1>10. CASE pc = "skipVarint"
  <2>1. PICK t : Reading(t) /\ SkipsValue(0, t)
    BY <1>10 DEF DInv, Progress
  <2>2. PICK b \in t .. Len(buf) : IsContent(0, buf, t, b, Items(buf)) /\ Closes(buf, depth, b, k)
    BY <1>5, <2>1 DEF SkipsValue
  <2>3. IsVarint(buf, t, b)
    BY <2>2 DEF IsContent
  <2>4. b \in Nat
    BY <1>4, <2>1
  <2>5. b <= k
    BY <1>2, <2>2, <2>4, ClosesRange
  <2>6. b <= end
    BY <1>2, <1>6, <2>4, <2>5
  <2>7. QED
    BY <1>3, <2>1, <2>3, <2>6
<1>11. CASE pc = "skipLength"
  <2>1. PICK t : Reading(t) /\ SkipsValue(2, t)
    BY <1>11 DEF DInv, Progress
  <2>2. PICK b \in t .. Len(buf) : IsContent(2, buf, t, b, Items(buf)) /\ Closes(buf, depth, b, k)
    BY <1>5, <2>1 DEF SkipsValue
  <2>3. PICK j \in t + 1 .. b : IsVarint(buf, t, j)
    BY <2>2 DEF IsContent, IsBytes, IsBytesAt
  <2>4. b \in Nat /\ j \in Nat /\ j <= b
    BY <1>4, <2>1
  <2>5. b <= k
    BY <1>2, <2>2, <2>4, ClosesRange
  <2>6. j <= end
    BY <1>2, <1>6, <2>4, <2>5
  <2>7. QED
    BY <1>3, <2>1, <2>3, <2>6
<1>12. QED
  BY <1>1, <1>7, <1>8, <1>9, <1>10, <1>11

(***************************************************************************)
(* The steps within a field.                                               *)
(***************************************************************************)
Goes == Around' /\ pc' \notin {"accepted", "rejected"} /\ Same

LEMMA ReadByteGoes ==
  ASSUME DInv, NEW reads \in {UnmarshalReads, SkipReads}, ReadByte(reads)
  PROVE  Goes
<1>1. pc \in {"tag", "length", "skipTag", "skipVarint", "skipLength"} /\ index < end
  BY DEF ReadByte, UnmarshalReads, SkipReads, InputLeft
<1>2. InField
  BY <1>1 DEF InField
<1>3. /\ buf \in Seq(Byte) /\ index \in Nat /\ index < Len(buf) /\ pre \in Nat /\ end <= Len(buf)
      /\ end \in Nat /\ depth \in Nat
  BY <1>1, <1>2, FieldFacts, Facts DEF DInv
<1>4. /\ index' = index + 1
      /\ UNCHANGED <<buf, kind, error, base, end, caller, pre, field, depth, authority>>
      /\ pc' = IF buf[index + 1] < High THEN AfterVarint[pc] ELSE pc
  BY DEF ReadByte, input, call
<1>5. ASSUME NEW t, Reading(t)
      PROVE  /\ t \in Nat
             /\ \/ pc' = pc /\ Reading(t)'
                \/ pc' = AfterVarint[pc] /\ HasRead(t)'
  <2>1. t \in Nat
    BY <1>5 DEF Reading
  <2>2. CASE buf[index + 1] < High
    <3>1. HasRead(t)'
      BY <1>3, <1>5, <2>2, ReadMore
    <3>2. QED
      BY <1>4, <2>1, <2>2, <3>1
  <2>3. CASE ~(buf[index + 1] < High)
    <3>1. Reading(t)'
      BY <1>3, <1>5, <2>3, ReadMore
    <3>2. QED
      BY <1>4, <2>1, <2>3, <3>1
  <2>4. QED
    BY <2>2, <2>3
<1>6. \/ ~(buf[index + 1] < High) /\ pc' = pc
      \/ /\ buf[index + 1] < High
         /\ \/ pc = "tag" /\ pc' = "tagRead"
            \/ pc = "length" /\ pc' = "lengthRead"
            \/ pc = "skipTag" /\ pc' = "skipTagRead"
            \/ pc = "skipVarint" /\ pc' = "skipEnd"
            \/ pc = "skipLength" /\ pc' = "skipLengthRead"
  BY <1>1, <1>4 DEF AfterVarint
<1>7. InField' /\ pc' \notin {"accepted", "rejected", "loop", "skipLoop"}
  BY <1>1, <1>6 DEF InField
<1>8. Same /\ Fits' /\ (caller # -1 => Nested)' /\ pre' < end' /\ Current' = Current
  BY <1>2, <1>4, <1>7, StepWithin
<1>9. ASSUME NEW t, NEW wire
      PROVE  /\ KnownTag(t) => KnownTag(t)'
             /\ SkipsFrom(t) => SkipsFrom(t)'
             /\ SkipsValue(wire, t) => SkipsValue(wire, t)'
  BY <1>4, <1>8 DEF KnownTag, SkipsFrom, SkipsValue
<1>10. pc \in Skipping => pc' \in Skipping /\ UnknownTag'
  BY <1>4, <1>6, <1>8 DEF DInv, Progress, Skipping, SkipReads, UnknownTag
<1>11. pc' \in Skipping => pc \in Skipping
  BY <1>1, <1>6 DEF Skipping, SkipReads
<1>12. CASE pc = "tag"
  <2>1. Reading(pre)
    BY <1>12 DEF DInv, Progress
  <2>2. (pc' = "tag" /\ Reading(pre)') \/ (pc' = "tagRead" /\ HasRead(pre)')
    <3>1. PICK t : t = pre
      OBVIOUS
    <3>2. (pc' = "tag" /\ Reading(t)') \/ (pc' = "tagRead" /\ HasRead(t)')
      BY <1>5, <1>12, <2>1, <3>1 DEF AfterVarint
    <3>3. pre' = t
      BY <1>4, <3>1
    <3>4. QED
      BY <3>2, <3>3 DEF Reading, HasRead
  <2>3. Progress'
    BY <1>8, <2>2 DEF Progress, Skipping, SkipReads
  <2>4. QED
    BY <1>7, <1>8, <2>3 DEF Goes, Around
<1>13. CASE pc = "length"
  <2>1. PICK t : KnownTag(t) /\ Reading(t)
    BY <1>13 DEF DInv, Progress
  <2>2. KnownTag(t)' /\ ((pc' = "length" /\ Reading(t)') \/ (pc' = "lengthRead" /\ HasRead(t)'))
    BY <1>5, <1>9, <1>13, <2>1 DEF AfterVarint
  <2>3. Progress'
    BY <1>8, <2>2 DEF Progress, Skipping, SkipReads
  <2>4. QED
    BY <1>7, <1>8, <2>3 DEF Goes, Around
<1>14. CASE pc = "skipTag"
  <2>1. PICK t : Reading(t) /\ SkipsFrom(t)
    BY <1>14 DEF DInv, Progress
  <2>2. /\ t \in Nat /\ SkipsFrom(t)'
        /\ ((pc' = "skipTag" /\ Reading(t)') \/ (pc' = "skipTagRead" /\ HasRead(t)'))
    BY <1>5, <1>9, <1>14, <2>1 DEF AfterVarint
  <2>3. Progress'
    BY <1>8, <1>10, <1>14, <2>2 DEF Progress, Skipping, SkipReads
  <2>4. QED
    BY <1>7, <1>8, <2>3 DEF Goes, Around
<1>15. CASE pc = "skipVarint"
  <2>1. PICK t : Reading(t) /\ SkipsValue(0, t)
    BY <1>15 DEF DInv, Progress
  <2>2. /\ t \in Nat /\ SkipsValue(0, t)'
        /\ ((pc' = "skipVarint" /\ Reading(t)') \/ (pc' = "skipEnd" /\ HasRead(t)'))
    BY <1>5, <1>9, <1>15, <2>1 DEF AfterVarint
  <2>3. ASSUME pc' = "skipEnd", HasRead(t)'
        PROVE  SkipsTo(index)'
    <3>1. IsVarint(buf, t, index + 1) /\ index + 1 \in t .. Len(buf)
      BY <1>3, <1>4, <2>2, <2>3, VarintParts DEF HasRead
    <3>2. index + 1 >= pre
      BY <1>3, <1>15 DEF DInv, Inv, Positions, SkipReads
    <3>3. ASSUME NEW k
          PROVE  (\E b \in t .. Len(buf) : IsContent(0, buf, t, b, Items(buf)) /\ Closes(buf, depth, b, k))
                   <=> Closes(buf, depth, index + 1, k)
      <4>1. \A b : IsContent(0, buf, t, b, Items(buf)) <=> IsVarint(buf, t, b)
        BY DEF IsContent
      <4>2. \A b : IsVarint(buf, t, b) => b = index + 1
        BY <1>3, <2>2, <3>1, VarintUnique
      <4>3. QED
        BY <3>1, <4>1, <4>2
    <3>4. SkipsValue(0, t)
      BY <2>1
    <3>5. \A k \in pre + 1 .. end :
            IsField(Current, buf, pre, k) <=> index + 1 >= pre /\ Closes(buf, depth, index + 1, k)
      BY <3>2, <3>3, <3>4 DEF SkipsValue
    <3>6. QED
      BY <1>4, <1>8, <3>5 DEF SkipsTo
  <2>4. Progress'
    BY <1>8, <1>10, <1>15, <2>2, <2>3 DEF Progress, Skipping, SkipReads
  <2>5. QED
    BY <1>7, <1>8, <2>4 DEF Goes, Around
<1>16. CASE pc = "skipLength"
  <2>1. PICK t : Reading(t) /\ SkipsValue(2, t)
    BY <1>16 DEF DInv, Progress
  <2>2. /\ t \in Nat /\ SkipsValue(2, t)'
        /\ ((pc' = "skipLength" /\ Reading(t)') \/ (pc' = "skipLengthRead" /\ HasRead(t)'))
    BY <1>5, <1>9, <1>16, <2>1 DEF AfterVarint
  <2>3. Progress'
    BY <1>8, <1>10, <1>16, <2>2 DEF Progress, Skipping, SkipReads
  <2>4. QED
    BY <1>7, <1>8, <2>3 DEF Goes, Around
<1>17. QED
  BY <1>1, <1>12, <1>13, <1>14, <1>15, <1>16

LEMMA BeginFieldGoes ==
  ASSUME DInv, BeginField
  PROVE  Goes
<1>1. /\ pc = "loop" /\ pc' = "tag" /\ pre' = index /\ scale' = 1 /\ value' = 0 /\ index < end
      /\ UNCHANGED <<buf, kind, error, base, end, caller, index, field, depth, authority>>
  BY DEF BeginField, StartVarint, input, call
<1>2. /\ buf \in Seq(Byte) /\ index \in 0 .. Len(buf)
  <2>1. base <= index
    BY <1>1 DEF DInv, Inv, InBounds
  <2>2. QED
    BY <1>1, <2>1, Facts DEF DInv
<1>3. Same
  BY <1>1 DEF Same, StartOfField
<1>4. Fits'
  BY <1>1 DEF DInv, Fits
<1>5. (caller # -1 => Nested)'
  BY <1>1 DEF DInv, Nested, ParamsFrom
<1>6. Reading(pre)'
  <2>1. index \in 0 .. index /\ index - index = 0
    BY <1>2
  <2>2. QED
    BY <1>1, <1>2, <2>1, Weights, ValueOfNone DEF Reading
<1>7. Progress'
  BY <1>1, <1>6 DEF Progress, Skipping, SkipReads
<1>8. QED
  BY <1>1, <1>3, <1>4, <1>5, <1>7 DEF Goes, Around

LEMMA RejectTagRefuses ==
  ASSUME DInv, RejectTag
  PROVE  Around' /\ pc' = "rejected" /\ Refuses
<1>1. /\ pc = "tagRead" /\ Reject("tag")
      /\ IllegalTag \/ (HasField(Current, FieldNumber(value)) /\ WireType(value) # 2)
  BY DEF RejectTag, Known, HasField
<1>2. InField
  BY <1>1 DEF InField
<1>3. IsVarint(buf, pre, index) /\ value = ValueOf(buf, pre, index)
  BY <1>1 DEF DInv, Progress, HasRead
<1>4. buf \in Seq(Byte) /\ pre \in Nat /\ pre \in 0 .. Len(buf)
  BY <1>2, FieldFacts
<1>5. ASSUME NEW k \in pre + 1 .. end, IsField(Current, buf, pre, k)
      PROVE  FALSE
  <2>1. /\ FieldNumber(value) > 0
        /\ IF HasField(Current, FieldNumber(value)) THEN WireType(value) = 2 ELSE k \in Items(buf)[pre]
    BY <1>3, <1>4, <1>5, FieldOfTag
  <2>2. FieldNumber(value) \in Int
    BY Facts, TagRange DEF DInv
  <2>3. WireType(value) = 4
    BY <1>1, <2>1, <2>2 DEF IllegalTag
  <2>4. k \in Items(buf)[pre]
    BY <2>1, <2>3
  <2>5. IsContent(4, buf, index, k, Items(buf))
    BY <1>3, <1>4, <2>3, <2>4, ItemOfTag
  <2>6. QED
    BY <2>5 DEF IsContent
<1>6. NoField
  BY <1>5 DEF NoField
<1>7. QED
  BY <1>1, <1>2, <1>6, RejectRefuses

LEMMA KnownFieldGoes ==
  ASSUME DInv, KnownField
  PROVE  Goes
<1>1. /\ pc = "tagRead" /\ ~IllegalTag /\ HasField(Current, FieldNumber(value)) /\ WireType(value) = 2
      /\ field' = FieldNumber(value) /\ pc' = "length" /\ scale' = 1 /\ value' = 0
      /\ UNCHANGED <<buf, kind, error, base, end, caller, index, pre, depth, authority>>
  BY DEF KnownField, Known, HasField, StartVarint, input, call
<1>2. InField /\ InField'
  BY <1>1 DEF InField
<1>3. IsVarint(buf, pre, index) /\ value = ValueOf(buf, pre, index)
  BY <1>1 DEF DInv, Progress, HasRead
<1>4. Same /\ Fits' /\ (caller # -1 => Nested)' /\ pre' < end' /\ Current' = Current
  BY <1>1, <1>2, StepWithin
<1>5. FieldNumber(value) > 0
  <2>1. FieldNumber(value) \in Int
    BY Facts, TagRange DEF DInv
  <2>2. QED
    BY <1>1, <2>1 DEF IllegalTag
<1>6. PICK t : t = index
  OBVIOUS
<1>7. KnownTag(t)'
  BY <1>1, <1>3, <1>4, <1>5, <1>6 DEF KnownTag
<1>8. Reading(t)'
  <2>1. buf \in Seq(Byte) /\ index \in 0 .. Len(buf) /\ index \in 0 .. index /\ index - index = 0
    BY <1>1, <1>2, FieldFacts
  <2>2. QED
    BY <1>1, <1>6, <2>1, Weights, ValueOfNone DEF Reading
<1>9. Progress'
  BY <1>1, <1>4, <1>7, <1>8 DEF Progress, Skipping, SkipReads
<1>10. QED
  BY <1>1, <1>4, <1>9 DEF Goes, Around

LEMMA UnknownFieldGoes ==
  ASSUME DInv, UnknownField
  PROVE  Goes
<1>1. /\ pc = "tagRead" /\ ~IllegalTag /\ ~HasField(Current, FieldNumber(value))
      /\ pc' = "skipLoop" /\ index' = pre /\ depth' = 0
      /\ UNCHANGED <<buf, kind, error, base, end, caller, pre, scale, value, field, authority>>
  BY DEF UnknownField, Known, HasField, varint, input, call
<1>2. InField /\ InField'
  BY <1>1 DEF InField
<1>3. IsVarint(buf, pre, index) /\ value = ValueOf(buf, pre, index)
  BY <1>1 DEF DInv, Progress, HasRead
<1>4. Same /\ Fits' /\ (caller # -1 => Nested)' /\ pre' < end' /\ Current' = Current
  BY <1>1, <1>2, StepWithin
<1>5. FieldNumber(value) > 0
  <2>1. FieldNumber(value) \in Int
    BY Facts, TagRange DEF DInv
  <2>2. QED
    BY <1>1, <2>1 DEF IllegalTag
<1>6. buf \in Seq(Byte) /\ pre \in Nat /\ pre \in 0 .. Len(buf) /\ index \in Nat
  BY <1>1, <1>2, FieldFacts
<1>7. \A k \in pre + 1 .. end : IsField(Current, buf, pre, k) <=> k \in Items(buf)[pre]
  <2>1. TAKE k \in pre + 1 .. end
  <2>2. IsField(Current, buf, pre, k) <=> index \in pre + 1 .. k /\ k \in Items(buf)[pre]
    BY <1>1, <1>3, <1>5, <1>6, FieldOfTag
  <2>3. k \in Items(buf)[pre] => index \in pre + 1 .. k
    BY <1>3, <1>6, ItemOfTag, VarintParts
  <2>4. QED
    BY <2>2, <2>3
<1>8. SkipsFrom(index)'
  BY <1>1, <1>4, <1>7 DEF SkipsFrom, Need
<1>9. UnknownTag'
  BY <1>1, <1>3, <1>4 DEF UnknownTag
<1>10. Progress'
  BY <1>1, <1>4, <1>8, <1>9 DEF Progress, Skipping, SkipReads
<1>11. QED
  BY <1>1, <1>4, <1>10 DEF Goes, Around

(***************************************************************************)
(* Known fields.                                                           *)
(***************************************************************************)
(* Behind its length a known field can end in one place only.              *)
LEMMA KnownFieldEnd ==
  ASSUME DInv, pc = "lengthRead", NEW t, KnownTag(t), HasRead(t), NEW k \in Nat
  PROVE  IsField(Current, buf, pre, k) <=>
           /\ k = index + Int64(value) /\ 0 <= Int64(value)
           /\ ParamsField(Current, field) => IsParams(buf, index, k)
<1>1. InField
  BY DEF InField
<1>2. /\ buf \in Seq(Byte) /\ pre \in Nat /\ index \in Nat /\ Int64(value) \in Int
  BY <1>1, FieldFacts, Facts, Int64Range DEF DInv
<1>3. IsVarint(buf, t, index) /\ value = ValueOf(buf, t, index) /\ IsVarint(buf, pre, t)
  BY DEF HasRead, KnownTag
<1>4. t \in pre + 1 .. Len(buf) /\ t \in Nat /\ index \in t + 1 .. Len(buf)
  BY <1>2, <1>3, VarintParts
<1>5. \A j : IsVarint(buf, t, j) => j = index
  BY <1>2, <1>3, <1>4, VarintUnique
<1>6. IsField(Current, buf, pre, k) <=> t \in pre + 1 .. k /\ IsKnownContent(Current, field, buf, t, k)
  BY <1>1, KnownEnds
<1>7. ASSUME t \in pre + 1 .. k, IsKnownContent(Current, field, buf, t, k)
      PROVE  /\ k = index + Int64(value) /\ 0 <= Int64(value)
             /\ ParamsField(Current, field) => IsParams(buf, index, k)
  <2>1. PICK j \in t + 1 .. k : IsBytesAt(buf, t, j, k) /\ (ParamsField(Current, field) => IsParams(buf, j, k))
    BY <1>7 DEF IsKnownContent
  <2>2. j = index /\ Int64(value) = k - j
    BY <1>3, <1>5, <2>1 DEF IsBytesAt
  <2>3. k \in Int /\ index <= k
    BY <1>2, <1>4, <1>7, <2>1, <2>2
  <2>4. k = index + Int64(value) /\ 0 <= Int64(value)
    BY <1>2, <2>2, <2>3
  <2>5. QED
    BY <2>1, <2>2, <2>4
<1>8. ASSUME k = index + Int64(value), 0 <= Int64(value), ParamsField(Current, field) => IsParams(buf, index, k)
      PROVE  t \in pre + 1 .. k /\ IsKnownContent(Current, field, buf, t, k)
  <2>1. k \in Int /\ index <= k /\ Int64(value) = k - index
    BY <1>2, <1>8
  <2>2. IsBytesAt(buf, t, index, k)
    BY <1>3, <2>1 DEF IsBytesAt
  <2>3. index \in t + 1 .. k /\ t \in pre + 1 .. k
    BY <1>4, <2>1
  <2>4. QED
    BY <1>8, <2>2, <2>3 DEF IsKnownContent
<1>9. QED
  BY <1>6, <1>7, <1>8

LEMMA RejectLengthRefuses ==
  ASSUME DInv, RejectLength
  PROVE  Around' /\ pc' = "rejected" /\ Refuses
<1>1. pc = "lengthRead" /\ ~LengthFits /\ \E why : Reject(why)
  BY DEF RejectLength
<1>2. InField
  BY <1>1 DEF InField
<1>3. PICK t : KnownTag(t) /\ HasRead(t)
  BY <1>1 DEF DInv, Progress
<1>4. /\ base \in Nat /\ end \in Nat /\ index \in Nat /\ base <= index /\ index <= end /\ end < Half
      /\ Int64(value) \in Int /\ Int64(value) < Half /\ Half \in Nat
  <2>1. base <= index
    BY <1>1 DEF DInv, Inv, InBounds
  <2>2. QED
    BY <1>1, <1>2, <2>1, FieldFacts, Facts, Int64Range DEF DInv
<1>5. ASSUME NEW k \in pre + 1 .. end, IsField(Current, buf, pre, k)
      PROVE  FALSE
  <2>1. k = index + Int64(value) /\ 0 <= Int64(value) /\ k <= end
    <3>1. k \in Nat /\ k <= end
      BY <1>2, <1>4, FieldFacts
    <3>2. QED
      BY <1>1, <1>3, <1>5, <3>1, KnownFieldEnd
  <2>2. (index - base) + Int64(value) < Half
    BY <1>4, <2>1
  <2>3. PostIndex = (index - base) + Int64(value)
    BY <2>2 DEF PostIndex, Plus
  <2>4. LengthFits
    BY <1>4, <2>1, <2>3 DEF LengthFits
  <2>5. QED
    BY <1>1, <2>4
<1>6. NoField
  BY <1>5 DEF NoField
<1>7. QED
  BY <1>1, <1>2, <1>6, RejectRefuses

(* A length that fits is where the field ends.                             *)
LEMMA LengthFitsEnd ==
  ASSUME DInv, pc = "lengthRead", LengthFits
  PROVE  /\ base + PostIndex = index + Int64(value) /\ 0 <= Int64(value)
         /\ base + PostIndex \in index .. end /\ index \in Nat /\ pre < index
<1>1. InField
  BY DEF InField
<1>2. base \in Nat /\ end \in Nat /\ index \in Nat /\ base <= index /\ index <= end /\ end < Half /\ pre \in Nat
  <2>1. base <= index
    BY DEF DInv, Inv, InBounds
  <2>2. QED
    BY <1>1, <2>1, FieldFacts, Facts DEF DInv
<1>3. base + PostIndex \in index .. end
  BY <1>2, PostIndexRange DEF DInv
<1>4. Int64(value) \in 0 .. Half - 1
  BY Facts, Int64Range DEF LengthFits, DInv
<1>5. PostIndex \in Int /\ (PostIndex = (index - base) + Int64(value) \/ PostIndex < 0)
  <2>1. index - base \in 0 .. Half - 1
    BY <1>2, WidthsAssumption
  <2>2. QED
    BY <1>4, <2>1, SumOrNegative DEF PostIndex
<1>6. PostIndex >= 0
  BY DEF LengthFits
<1>7. base + PostIndex = index + Int64(value)
  BY <1>2, <1>4, <1>5, <1>6
<1>8. pre < index
  <2>1. PICK t : KnownTag(t) /\ HasRead(t)
    BY DEF DInv, Progress
  <2>2. t \in pre + 1 .. Len(buf)
    BY <1>1, <2>1, FieldFacts, VarintParts DEF KnownTag
  <2>3. index \in t + 1 .. Len(buf) /\ t \in Nat
    BY <1>1, <1>2, <2>1, <2>2, FieldFacts, VarintParts DEF HasRead
  <2>4. QED
    BY <1>2, <2>2, <2>3
<1>9. QED
  BY <1>2, <1>3, <1>4, <1>7, <1>8

(* What a field holds, given where its tag and its length end.             *)
LEMMA HoldsOf ==
  ASSUME NEW s \in Seq(Byte), NEW i \in Nat, NEW j, NEW t \in i + 1 .. j, IsVarint(s, i, t),
         NEW m, NEW old
  PROVE  /\ ~StringField(m, FieldNumber(ValueOf(s, i, t))) => Holds(m, old, s, i, j) = old
         /\ \A k \in t + 1 .. j :
              IsVarint(s, t, k) /\ StringField(m, FieldNumber(ValueOf(s, i, t))) =>
                Holds(m, old, s, i, j) = SubSeq(s, k + 1, j)
<1> DEFINE T == CHOOSE x \in i + 1 .. j : IsVarint(s, i, x)
           K == CHOOSE x \in T + 1 .. j : IsVarint(s, T, x)
<1>1. t \in Nat
  BY VarintParts
<1>2. T = t
  <2>1. T \in i + 1 .. j /\ IsVarint(s, i, T)
    OBVIOUS
  <2>2. QED
    BY <2>1, VarintUnique
<1>3. Holds(m, old, s, i, j)
        = IF StringField(m, FieldNumber(ValueOf(s, i, T))) THEN SubSeq(s, K + 1, j) ELSE old
  BY DEF Holds
<1>4. ASSUME NEW k \in t + 1 .. j, IsVarint(s, t, k)
      PROVE  K = k
  <2>1. K \in T + 1 .. j /\ IsVarint(s, T, K)
    BY <1>2, <1>4
  <2>2. QED
    BY <1>1, <1>2, <1>4, <2>1, VarintUnique
<1>5. QED
  BY <1>2, <1>3, <1>4

Moves == Around' /\ pc' \notin {"accepted", "rejected"} /\ Takes

LEMMA TakeStringMoves ==
  ASSUME DInv, TakeString
  PROVE  Moves
<1>1. /\ pc = "lengthRead" /\ LengthFits /\ StringField(Current, field)
      /\ authority' = SubSeq(buf, index + 1, base + PostIndex)
      /\ index' = base + PostIndex /\ pc' = "loop"
      /\ UNCHANGED <<buf, kind, error, base, end, caller, pre, scale, value, field, depth>>
  BY DEF TakeString, input, call, varint
<1>2. InField
  BY <1>1 DEF InField
<1>3. Current # "Params" /\ ~ParamsField(Current, field)
  BY <1>1 DEF StringField, ParamsField
<1>4. caller = -1 /\ Current = kind /\ end = Len(buf)
  BY <1>3 DEF Current, DInv, Inv, Positions
<1>5. PICK t : KnownTag(t) /\ HasRead(t)
  BY <1>1 DEF DInv, Progress
<1>6. /\ index' = index + Int64(value) /\ 0 <= Int64(value)
      /\ index' \in index .. end /\ index \in Nat /\ pre < index
  BY <1>1, LengthFitsEnd
<1>7. /\ buf \in Seq(Byte) /\ pre \in Nat /\ Len(buf) \in Nat
  BY <1>2, FieldFacts
<1>8. IsField(kind, buf, pre, index')
  <2>1. index' \in Nat
    BY <1>6
  <2>2. QED
    BY <1>1, <1>3, <1>4, <1>5, <1>6, <2>1, KnownFieldEnd
<1>9. /\ IsVarint(buf, pre, t) /\ IsVarint(buf, t, index) /\ t \in pre + 1 .. index'
      /\ index \in t + 1 .. index' /\ FieldNumber(ValueOf(buf, pre, t)) = field /\ t \in Nat
  <2>1. IsVarint(buf, pre, t) /\ IsVarint(buf, t, index) /\ FieldNumber(ValueOf(buf, pre, t)) = field
    BY <1>5 DEF KnownTag, HasRead
  <2>2. t \in pre + 1 .. Len(buf) /\ t \in Nat
    BY <1>7, <2>1, VarintParts
  <2>3. index \in t + 1 .. Len(buf)
    BY <1>7, <2>1, <2>2, VarintParts
  <2>4. QED
    BY <1>6, <2>1, <2>2, <2>3
<1>10. Holds(kind, authority, buf, pre, index') = authority'
  BY <1>1, <1>4, <1>7, <1>9, HoldsOf
<1>11. Fits'
  <2>1. index + 1 >= 1 /\ index' <= Len(buf) /\ index' \in Nat
    BY <1>4, <1>6
  <2>2. Len(SubSeq(buf, index + 1, index')) = index' - index
    BY <1>6, <1>7, <2>1
  <2>3. 2 <= index
    BY <1>6, <1>7, <1>9
  <2>4. Len(authority') + 2 <= Len(buf)
    BY <1>1, <1>6, <2>1, <2>2, <2>3
  <2>5. StringField(kind, 1)
    BY <1>1, <1>4 DEF StringField
  <2>6. QED
    BY <1>1, <2>4, <2>5 DEF Fits
<1>12. Progress'
  BY <1>1 DEF Progress, Skipping, SkipReads
<1>13. StartOfField = pre /\ StartOfField' = index'
  BY <1>1, <1>4 DEF StartOfField
<1>14. index' \in pre + 1 .. Len(buf)
  BY <1>4, <1>6, <1>7
<1>15. QED
  BY <1>1, <1>4, <1>8, <1>10, <1>11, <1>12, <1>13, <1>14 DEF Moves, Around, Takes

LEMMA EnterParamsGoes ==
  ASSUME DInv, EnterParams
  PROVE  Goes
<1>1. /\ pc = "lengthRead" /\ LengthFits /\ ParamsField(Current, field)
      /\ caller' = pre /\ base' = index /\ end' = base + PostIndex /\ pc' = "loop"
      /\ UNCHANGED <<buf, kind, error, index, pre, scale, value, field, depth, authority>>
  BY DEF EnterParams, input, varint
<1>2. InField
  BY <1>1 DEF InField
<1>3. Current # "Params" /\ ~StringField(Current, field)
  BY <1>1 DEF StringField, ParamsField
<1>4. caller = -1 /\ Current = kind /\ end = Len(buf)
  BY <1>3 DEF Current, DInv, Inv, Positions
<1>5. PICK t : KnownTag(t) /\ HasRead(t)
  BY <1>1 DEF DInv, Progress
<1>6. /\ end' = index + Int64(value) /\ 0 <= Int64(value)
      /\ end' \in index .. end /\ index \in Nat /\ pre < index
  BY <1>1, LengthFitsEnd
<1>7. /\ buf \in Seq(Byte) /\ pre \in Nat /\ Len(buf) \in Nat
  BY <1>2, FieldFacts
<1>8. IsVarint(buf, pre, t) /\ ~StringField(kind, FieldNumber(ValueOf(buf, pre, t)))
  BY <1>3, <1>4, <1>5 DEF KnownTag
<1>9. \A k \in pre + 1 .. Len(buf) :
        IsField(kind, buf, pre, k) <=> k = end' /\ IsParams(buf, index, end')
  <2>1. TAKE k \in pre + 1 .. Len(buf)
  <2>2. k \in Nat
    BY <1>7
  <2>3. IsField(kind, buf, pre, k) <=>
           /\ k = index + Int64(value) /\ 0 <= Int64(value)
           /\ ParamsField(Current, field) => IsParams(buf, index, k)
    BY <1>1, <1>4, <1>5, <2>2, KnownFieldEnd
  <2>4. QED
    BY <1>1, <1>6, <2>3
<1>10. ParamsFrom(index)'
  BY <1>1, <1>9 DEF ParamsFrom
<1>11. (caller # -1 => Nested)'
  <2>1. caller' \in Nat /\ caller' < base'
    BY <1>1, <1>6, <1>7
  <2>2. (\E x : IsVarint(buf, caller, x) /\ ~StringField(kind, FieldNumber(ValueOf(buf, caller, x))))'
    BY <1>1, <1>8
  <2>3. QED
    BY <1>1, <1>10, <2>1, <2>2 DEF Nested
<1>12. Fits'
  BY <1>1 DEF DInv, Fits
<1>13. Progress'
  BY <1>1 DEF Progress, Skipping, SkipReads
<1>14. Same
  BY <1>1, <1>4, <1>7 DEF Same, StartOfField
<1>15. QED
  BY <1>1, <1>11, <1>12, <1>13, <1>14 DEF Goes, Around

LEMMA LeaveParamsMoves ==
  ASSUME DInv, LeaveParams
  PROVE  Moves
<1>1. /\ pc = "loop" /\ index >= end /\ caller # -1 /\ pc' = "loop"
      /\ index' = end /\ pre' = caller /\ base' = 0 /\ end' = Len(buf) /\ caller' = -1
      /\ UNCHANGED <<buf, kind, error, scale, value, field, depth, authority>>
  BY DEF LeaveParams, input, varint
<1>2. /\ buf \in Seq(Byte) /\ Len(buf) \in Nat /\ base \in Int /\ end \in Nat /\ index = end
      /\ base <= end /\ end <= Len(buf)
  <2>1. index <= end
    BY <1>1 DEF DInv, Inv, InBounds
  <2>2. QED
    BY <1>1, <2>1, Facts DEF DInv
<1>3. /\ caller \in Nat /\ caller < base /\ ParamsFrom(index)
  BY <1>1 DEF DInv, Nested
<1>4. PICK t : IsVarint(buf, caller, t) /\ ~StringField(kind, FieldNumber(ValueOf(buf, caller, t)))
  BY <1>1 DEF DInv, Nested
<1>5. end \in caller + 1 .. Len(buf)
  BY <1>2, <1>3
<1>6. IsField(kind, buf, caller, end)
  BY <1>2, <1>3, <1>5, ParamsNone DEF ParamsFrom
<1>7. Holds(kind, authority, buf, caller, end) = authority
  <2>1. t \in caller + 1 .. end
    <3>1. PICK x \in caller + 1 .. end : IsVarint(buf, caller, x)
      BY <1>6, FieldTag
    <3>2. QED
      BY <1>2, <1>3, <1>4, <3>1, VarintUnique
  <2>2. QED
    BY <1>2, <1>3, <1>4, <2>1, HoldsOf
<1>8. Around'
  BY <1>1 DEF DInv, Around, Fits, Progress, Skipping, SkipReads
<1>9. StartOfField = caller /\ StartOfField' = end
  BY <1>1 DEF StartOfField
<1>10. QED
  BY <1>1, <1>5, <1>6, <1>7, <1>8, <1>9 DEF Moves, Takes

LEMMA AcceptEnds ==
  ASSUME DInv, Accept
  PROVE  Around' /\ pc' = "accepted" /\ Same /\ StartOfField = Len(buf)
<1>1. /\ pc = "loop" /\ index >= end /\ caller = -1 /\ pc' = "accepted"
      /\ UNCHANGED <<buf, kind, base, end, caller, index, pre, depth, authority>>
  BY DEF Accept, input, call
<1>2. index = Len(buf)
  <2>1. index <= end /\ end = Len(buf)
    BY <1>1 DEF DInv, Inv, InBounds, Positions
  <2>2. QED
    BY <1>1, <2>1, Facts DEF DInv
<1>3. Around'
  BY <1>1 DEF DInv, Around, Fits, Progress, Skipping, SkipReads
<1>4. QED
  BY <1>1, <1>2, <1>3 DEF Same, StartOfField

(***************************************************************************)
(* Unknown fields.                                                         *)
(***************************************************************************)
LEMMA SkipFacts ==
  ASSUME DInv, pc \in Skipping
  PROVE  /\ InField /\ buf \in Seq(Byte) /\ Len(buf) \in Nat /\ Len(buf) < Half /\ Half \in Nat
         /\ pre \in Nat /\ pre < end /\ end \in Nat /\ end <= Len(buf)
         /\ index \in Int /\ depth \in Nat /\ value \in 0 .. 2 * Half - 1
         /\ pc # "skipEnd" => index \in Nat /\ pre <= index
         /\ pc \notin {"skipEnd", "skipLoop"} => index <= Len(buf) /\ index \in 0 .. Len(buf)
<1>1. InField
  BY DEF InField, Skipping, SkipReads
<1>2. pc # "skipEnd" => pre <= index
  BY DEF DInv, Inv, Positions, Skipping, SkipReads
<1>3. QED
  BY <1>1, <1>2, FieldFacts, Facts DEF DInv

LEMMA SkipBeginGoes ==
  ASSUME DInv, SkipBegin
  PROVE  Goes
<1>1. /\ pc = "skipLoop" /\ index < end /\ pc' = "skipTag" /\ scale' = 1 /\ value' = 0
      /\ UNCHANGED <<buf, kind, error, base, end, caller, index, pre, field, depth, authority>>
  BY DEF SkipBegin, StartVarint, input, call
<1>2. pc \in Skipping /\ InField /\ InField'
  BY <1>1 DEF InField, Skipping
<1>3. Same /\ Fits' /\ (caller # -1 => Nested)' /\ pre' < end' /\ Current' = Current
  BY <1>1, <1>2, StepWithin
<1>4. buf \in Seq(Byte) /\ index \in 0 .. Len(buf) /\ index \in 0 .. index /\ index - index = 0
  BY <1>1, <1>2, SkipFacts
<1>5. PICK t : t = index
  OBVIOUS
<1>6. Reading(t)'
  BY <1>1, <1>4, <1>5, Weights, ValueOfNone DEF Reading
<1>7. SkipsFrom(t)'
  BY <1>1, <1>3, <1>5 DEF DInv, Progress, SkipsFrom
<1>8. UnknownTag'
  BY <1>1, <1>2, <1>3 DEF DInv, Progress, UnknownTag
<1>9. Progress'
  BY <1>1, <1>3, <1>6, <1>7, <1>8 DEF Progress, Skipping, SkipReads
<1>10. QED
  BY <1>1, <1>3, <1>9 DEF Goes, Around

LEMMA SkipOutOfInputRefuses ==
  ASSUME DInv, SkipOutOfInput
  PROVE  Around' /\ pc' = "rejected" /\ Refuses
<1>1. pc = "skipLoop" /\ index >= end /\ Reject("eof")
  BY DEF SkipOutOfInput
<1>2. pc \in Skipping
  BY <1>1 DEF Skipping
<1>3. /\ InField /\ pre < end /\ pre \in Nat /\ end \in Nat /\ index \in Nat /\ depth \in Nat
      /\ buf \in Seq(Byte)
  BY <1>1, <1>2, SkipFacts
<1>4. depth # 0 /\ SkipsFrom(index)
  BY <1>1, <1>3 DEF DInv, Progress
<1>5. ASSUME NEW k \in pre + 1 .. end, IsField(Current, buf, pre, k)
      PROVE  FALSE
  <2>1. Closes(buf, depth, index, k)
    BY <1>4, <1>5 DEF SkipsFrom, Need
  <2>2. index < k
    BY <1>3, <1>4, <2>1, ClosesRange
  <2>3. QED
    BY <1>1, <1>3, <2>2
<1>6. NoField
  BY <1>5 DEF NoField
<1>7. QED
  BY <1>1, <1>3, <1>6, RejectRefuses

(* Behind its tag an item goes on as its wire type says.                   *)
LEMMA SkipContent ==
  ASSUME DInv, pc = "skipTagRead", WireType(value) # 4 \/ depth = 0
  PROVE  SkipsValue(WireType(value), index)
<1>1. PICK t : HasRead(t) /\ t \in Nat /\ SkipsFrom(t)
  BY DEF DInv, Progress
<1>2. buf \in Seq(Byte) /\ depth \in Nat
  BY SkipFacts DEF Skipping
<1>3. IsVarint(buf, t, index) /\ value = ValueOf(buf, t, index)
  BY <1>1 DEF HasRead
<1>4. t \in 0 .. Len(buf)
  BY <1>1, <1>2, <1>3, VarintParts
<1>5. ASSUME NEW k \in pre + 1 .. end
      PROVE  IsField(Current, buf, pre, k) <=>
               \E b \in index .. Len(buf) :
                 IsContent(WireType(value), buf, index, b, Items(buf)) /\ Closes(buf, depth, b, k)
  <2>1. Need(buf, depth, t, k) <=>
               \E b \in index .. Len(buf) :
                 IsContent(WireType(value), buf, index, b, Items(buf)) /\ Closes(buf, depth, b, k)
    BY <1>2, <1>3, <1>4, NeedContent
  <2>2. QED
    BY <1>1, <2>1 DEF SkipsFrom
<1>6. QED
  BY <1>5 DEF SkipsValue

LEMMA RejectSkipRefuses ==
  ASSUME DInv, RejectSkip
  PROVE  Around' /\ pc' = "rejected" /\ Refuses
<1>1. /\ pc \in {"skipTagRead", "skipLengthRead"} /\ \E why : Reject(why)
      /\ \/ pc = "skipTagRead" /\ WireType(value) \in {6, 7}
         \/ pc = "skipTagRead" /\ WireType(value) = 4 /\ depth = 0
         \/ pc = "skipLengthRead" /\ Int64(value) < 0
  BY DEF RejectSkip
<1>2. pc \in Skipping
  BY <1>1 DEF Skipping
<1>3. InField /\ buf \in Seq(Byte) /\ Len(buf) \in Nat /\ index \in Nat
  BY <1>1, <1>2, SkipFacts
<1>4. CASE pc = "skipTagRead"
  <2>1. SkipsValue(WireType(value), index)
    BY <1>1, <1>4, SkipContent
  <2>2. \A b : ~IsContent(WireType(value), buf, index, b, Items(buf))
    BY <1>1, <1>4 DEF IsContent
  <2>3. NoField
    BY <2>1, <2>2 DEF SkipsValue, NoField
  <2>4. QED
    BY <1>1, <1>3, <2>3, RejectRefuses
<1>5. CASE pc = "skipLengthRead"
  <2>1. PICK t : HasRead(t) /\ t \in Nat /\ SkipsValue(2, t)
    BY <1>5 DEF DInv, Progress
  <2>2. IsVarint(buf, t, index) /\ value = ValueOf(buf, t, index)
    BY <2>1 DEF HasRead
  <2>3. ASSUME NEW b \in t .. Len(buf), IsContent(2, buf, t, b, Items(buf))
        PROVE  FALSE
    <3>1. PICK j \in t + 1 .. b : IsBytesAt(buf, t, j, b)
      BY <2>3 DEF IsContent, IsBytes
    <3>2. j = index
      BY <1>3, <2>1, <2>2, <3>1, VarintUnique DEF IsBytesAt
    <3>3. Int64(value) = b - j /\ j <= b /\ b \in Int /\ j \in Int
      BY <2>1, <2>2, <3>1, <3>2 DEF IsBytesAt
    <3>4. QED
      BY <1>1, <1>5, <3>3
  <2>4. NoField
    BY <2>1, <2>3 DEF SkipsValue, NoField
  <2>5. QED
    BY <1>1, <1>3, <2>4, RejectRefuses
<1>6. QED
  BY <1>1, <1>4, <1>5

LEMMA SkipValueGoes ==
  ASSUME DInv, SkipValue
  PROVE  Goes
<1>1. /\ pc = "skipTagRead" /\ WireType(value) \in {0, 2} /\ scale' = 1 /\ value' = 0
      /\ pc' = IF WireType(value) = 0 THEN "skipVarint" ELSE "skipLength"
      /\ UNCHANGED <<buf, kind, error, base, end, caller, index, pre, field, depth, authority>>
  BY DEF SkipValue, StartVarint, input, call
<1>2. pc \in Skipping /\ InField /\ InField'
  BY <1>1 DEF InField, Skipping
<1>3. Same /\ Fits' /\ (caller # -1 => Nested)' /\ pre' < end' /\ Current' = Current
  BY <1>1, <1>2, StepWithin
<1>4. buf \in Seq(Byte) /\ index \in 0 .. Len(buf) /\ index \in 0 .. index /\ index - index = 0
  BY <1>1, <1>2, SkipFacts
<1>5. PICK t : t = index
  OBVIOUS
<1>6. Reading(t)'
  BY <1>1, <1>4, <1>5, Weights, ValueOfNone DEF Reading
<1>7. SkipsValue(WireType(value), index)
  BY <1>1, SkipContent
<1>8. \/ pc' = "skipVarint" /\ SkipsValue(0, index)
      \/ pc' = "skipLength" /\ SkipsValue(2, index)
  <2>1. CASE WireType(value) = 0
    BY <1>1, <1>7, <2>1
  <2>2. CASE WireType(value) = 2
    BY <1>1, <1>7, <2>2
  <2>3. QED
    BY <1>1, <2>1, <2>2
<1>9. \/ pc' = "skipVarint" /\ SkipsValue(0, t)'
      \/ pc' = "skipLength" /\ SkipsValue(2, t)'
  BY <1>1, <1>3, <1>5, <1>8 DEF SkipsValue
<1>10. UnknownTag'
  BY <1>1, <1>2, <1>3 DEF DInv, Progress, UnknownTag
<1>11. Progress'
  BY <1>3, <1>6, <1>9, <1>10 DEF Progress, Skipping, SkipReads
<1>12. QED
  BY <1>3, <1>9, <1>11 DEF Goes, Around

(* Where an advance ends the contents end, if they are within the buffer.  *)
LEMMA AdvanceEnds ==
  ASSUME DInv, pc \in {"skipTagRead", "skipLengthRead"}, NEW n \in 0 .. Half - 1,
         NEW wire, NEW t \in Nat, t <= index, SkipsValue(wire, t),
         \A b \in t .. Len(buf) : IsContent(wire, buf, t, b, Items(buf)) <=> b = index + n
  PROVE  SkipsTo(Advance(n))
<1>1. pc \in Skipping
  BY DEF Skipping
<1>2. /\ buf \in Seq(Byte) /\ Len(buf) \in Nat /\ Len(buf) < Half /\ Half \in Nat
      /\ pre \in Nat /\ end \in Nat /\ end <= Len(buf) /\ index \in Nat /\ pre <= index
      /\ index <= Len(buf) /\ depth \in Nat /\ n \in Nat /\ n < Half
  BY <1>1, SkipFacts
<1>3. CASE (index - pre) + n < Half
  <2>1. Advance(n) = index + n /\ index + n >= pre /\ index + n \in Nat
    BY <1>2, <1>3 DEF Advance, Plus
  <2>2. ASSUME NEW k \in pre + 1 .. end
        PROVE  (\E b \in t .. Len(buf) :
                  IsContent(wire, buf, t, b, Items(buf)) /\ Closes(buf, depth, b, k))
                 <=> Closes(buf, depth, index + n, k)
    <3>1. ASSUME Closes(buf, depth, index + n, k)
          PROVE  index + n \in t .. Len(buf)
      <4>1. index + n <= k
        BY <1>2, <2>1, <3>1, ClosesRange
      <4>2. QED
        BY <1>2, <2>1, <4>1
    <3>2. QED
      BY <3>1
  <2>3. QED
    BY <2>1, <2>2 DEF SkipsValue, SkipsTo
<1>4. CASE ~((index - pre) + n < Half)
  <2>1. ~(Advance(n) >= pre)
    BY <1>2, <1>4 DEF Advance, Plus
  <2>2. \A b \in t .. Len(buf) : ~IsContent(wire, buf, t, b, Items(buf))
    BY <1>2, <1>4
  <2>3. QED
    BY <2>1, <2>2 DEF SkipsValue, SkipsTo
<1>5. QED
  BY <1>3, <1>4

(* A skip that comes to the end of an item.                                *)
LEMMA SkipEndGoes ==
  ASSUME DInv, pc \in {"skipTagRead", "skipLengthRead"}, pc' = "skipEnd",
         UNCHANGED <<buf, kind, base, end, caller, pre, authority>>,
         SkipsTo(index)'
  PROVE  Goes
<1>1. pc \in Skipping /\ InField /\ InField'
  BY DEF InField, Skipping
<1>2. Same /\ Fits' /\ (caller # -1 => Nested)' /\ pre' < end' /\ Current' = Current
  BY <1>1, StepWithin
<1>3. UnknownTag'
  BY <1>1, <1>2 DEF DInv, Progress, UnknownTag
<1>4. Progress'
  BY <1>2, <1>3 DEF Progress, Skipping, SkipReads
<1>5. QED
  BY <1>2, <1>4 DEF Goes, Around

LEMMA SkipFixedGoes ==
  ASSUME DInv, SkipFixed
  PROVE  Goes
<1> DEFINE n == IF WireType(value) = 1 THEN Wide ELSE Narrow
<1>1. /\ pc = "skipTagRead" /\ WireType(value) \in {1, 5} /\ index' = Advance(n) /\ pc' = "skipEnd"
      /\ UNCHANGED <<buf, kind, error, base, end, caller, pre, scale, value, field, depth, authority>>
  BY DEF SkipFixed, varint, input, call
<1>2. n \in 0 .. Half - 1 /\ n \in Nat
  BY WidthsAssumption
<1>3. SkipsValue(WireType(value), index)
  BY <1>1, SkipContent
<1>4. \A b : IsContent(WireType(value), buf, index, b, Items(buf)) <=> b = index + n
  BY <1>1 DEF IsContent
<1>5. index \in Nat /\ index <= index
  BY <1>1, SkipFacts DEF Skipping
<1>6. SkipsTo(Advance(n))
  <2> HIDE DEF n
  <2>1. QED
    BY <1>1, <1>2, <1>3, <1>4, <1>5, AdvanceEnds
<1>7. Current' = Current
  BY <1>1 DEF Current
<1>8. SkipsTo(index)'
  BY <1>1, <1>6, <1>7 DEF SkipsTo
<1>9. QED
  BY <1>1, <1>8, SkipEndGoes

LEMMA SkipBytesGoes ==
  ASSUME DInv, SkipBytes
  PROVE  Goes
<1> DEFINE n == Int64(value)
<1>1. /\ pc = "skipLengthRead" /\ n >= 0 /\ index' = Advance(n) /\ pc' = "skipEnd"
      /\ UNCHANGED <<buf, kind, error, base, end, caller, pre, scale, value, field, depth, authority>>
  BY DEF SkipBytes, varint, input, call
<1>2. n \in 0 .. Half - 1 /\ n \in Nat
  BY <1>1, SkipFacts, Int64Range, WidthsAssumption DEF Skipping
<1>3. PICK t : HasRead(t) /\ t \in Nat /\ SkipsValue(2, t)
  BY <1>1 DEF DInv, Progress
<1>4. IsVarint(buf, t, index) /\ value = ValueOf(buf, t, index)
  BY <1>3 DEF HasRead
<1>5. buf \in Seq(Byte) /\ index \in Nat /\ t <= index /\ index \in t + 1 .. Len(buf)
  BY <1>1, <1>3, <1>4, SkipFacts, VarintParts DEF Skipping
<1>6. ASSUME NEW b \in t .. Len(buf)
      PROVE  IsContent(2, buf, t, b, Items(buf)) <=> b = index + n
  <2>1. b \in Nat
    BY <1>3
  <2>2. ASSUME IsContent(2, buf, t, b, Items(buf))
        PROVE  b = index + n
    <3>1. PICK j \in t + 1 .. b : IsBytesAt(buf, t, j, b)
      BY <2>2 DEF IsContent, IsBytes
    <3>2. j = index /\ n = b - j
      BY <1>3, <1>4, <1>5, <3>1, VarintUnique DEF IsBytesAt
    <3>3. QED
      BY <1>2, <1>5, <2>1, <3>2
  <2>3. ASSUME b = index + n
        PROVE  IsContent(2, buf, t, b, Items(buf))
    <3>1. n = b - index /\ index \in t + 1 .. b
      BY <1>2, <1>5, <2>1, <2>3
    <3>2. IsBytesAt(buf, t, index, b)
      BY <1>4, <3>1 DEF IsBytesAt
    <3>3. QED
      BY <3>1, <3>2 DEF IsContent, IsBytes
  <2>4. QED
    BY <2>2, <2>3
<1>7. SkipsTo(Advance(n))
  <2> HIDE DEF n
  <2>1. QED
    BY <1>1, <1>2, <1>3, <1>5, <1>6, AdvanceEnds
<1>8. Current' = Current
  BY <1>1 DEF Current
<1>9. SkipsTo(index)'
  BY <1>1, <1>7, <1>8 DEF SkipsTo
<1>10. QED
  BY <1>1, <1>9, SkipEndGoes

LEMMA SkipGroupGoes ==
  ASSUME DInv, SkipGroup
  PROVE  Goes
<1>1. /\ pc = "skipTagRead" /\ pc' = "skipEnd"
      /\ \/ WireType(value) = 3 /\ depth' = depth + 1
         \/ WireType(value) = 4 /\ depth > 0 /\ depth' = depth - 1
      /\ UNCHANGED <<buf, kind, error, base, end, caller, index, pre, scale, value, field, authority>>
  BY DEF SkipGroup, varint, input, call
<1>2. PICK t : HasRead(t) /\ t \in Nat /\ SkipsFrom(t)
  BY <1>1 DEF DInv, Progress
<1>3. /\ buf \in Seq(Byte) /\ depth \in Nat /\ index \in Nat /\ index >= pre /\ pre \in Nat
  BY <1>1, SkipFacts DEF Skipping
<1>4. IsVarint(buf, t, index) /\ value = ValueOf(buf, t, index)
  BY <1>2 DEF HasRead
<1>5. t \in 0 .. Len(buf)
  BY <1>2, <1>3, <1>4, VarintParts
<1>6. \A k : Need(buf, depth, t, k) <=> Closes(buf, depth', index, k)
  <2>1. CASE WireType(value) = 3
    BY <1>1, <1>3, <1>4, <1>5, <2>1, NeedGroup
  <2>2. CASE WireType(value) = 4
    BY <1>1, <1>3, <1>4, <1>5, <2>2, NeedEnd
  <2>3. QED
    BY <1>1, <2>1, <2>2
<1>7. Current' = Current
  BY <1>1 DEF Current
<1>8. SkipsTo(index)'
  BY <1>1, <1>2, <1>3, <1>6, <1>7 DEF SkipsFrom, SkipsTo
<1>9. QED
  BY <1>1, <1>8, SkipEndGoes

LEMMA SkipFurtherGoes ==
  ASSUME DInv, SkipFurther
  PROVE  Goes
<1>1. /\ pc = "skipEnd" /\ index >= pre /\ depth > 0 /\ pc' = "skipLoop"
      /\ UNCHANGED <<buf, kind, error, base, end, caller, index, pre, scale, value, field, depth, authority>>
  BY DEF SkipFurther, varint, input, call
<1>2. pc \in Skipping /\ InField /\ InField'
  BY <1>1 DEF InField, Skipping
<1>3. Same /\ Fits' /\ (caller # -1 => Nested)' /\ pre' < end' /\ Current' = Current
  BY <1>1, <1>2, StepWithin
<1>4. UnknownTag'
  BY <1>1, <1>2, <1>3 DEF DInv, Progress, UnknownTag
<1>5. depth # 0
  BY <1>1, <1>2, SkipFacts
<1>6. SkipsFrom(index)
  BY <1>1, <1>5 DEF DInv, Progress, SkipsTo, SkipsFrom, Need
<1>7. SkipsFrom(index)'
  BY <1>1, <1>3, <1>6 DEF SkipsFrom
<1>8. Progress'
  BY <1>1, <1>3, <1>4, <1>5, <1>7 DEF Progress, Skipping, SkipReads
<1>9. QED
  BY <1>1, <1>3, <1>8 DEF Goes, Around

LEMMA RejectSkippedRefuses ==
  ASSUME DInv, RejectSkipped
  PROVE  Around' /\ pc' = "rejected" /\ Refuses
<1>1. pc = "skipEnd" /\ (index < pre \/ (depth = 0 /\ ~SkipFits)) /\ \E why : Reject(why)
  BY DEF RejectSkipped
<1>2. pc \in Skipping
  BY <1>1 DEF Skipping
<1>3. /\ InField /\ pre \in Nat /\ end \in Nat /\ index \in Int /\ buf \in Seq(Byte) /\ end < Half
      /\ Half \in Nat /\ base \in Nat /\ base <= pre
  <2>1. base <= pre
    BY <1>1 DEF DInv, Inv, InBounds
  <2>2. QED
    BY <1>2, <2>1, SkipFacts, Facts DEF DInv
<1>4. ASSUME NEW k \in pre + 1 .. end, IsField(Current, buf, pre, k)
      PROVE  FALSE
  <2>1. index >= pre /\ Closes(buf, depth, index, k)
    BY <1>1, <1>4 DEF DInv, Progress, SkipsTo
  <2>2. depth = 0 /\ ~SkipFits /\ index \in Nat
    BY <1>1, <1>3, <2>1
  <2>3. k = index
    BY <2>1, <2>2, ClosesNone
  <2>4. (pre - base) + (index - pre) < Half
    BY <1>3, <2>2, <2>3
  <2>5. Skipped = (pre - base) + (index - pre)
    BY <2>4 DEF Skipped, Plus
  <2>6. SkipFits
    BY <1>3, <2>1, <2>3, <2>5 DEF SkipFits
  <2>7. QED
    BY <2>2, <2>6
<1>5. NoField
  BY <1>4 DEF NoField
<1>6. QED
  BY <1>1, <1>3, <1>5, RejectRefuses

LEMMA SkipReturnSteps ==
  ASSUME DInv, SkipReturn
  PROVE  Goes \/ Moves
<1>1. /\ pc = "skipEnd" /\ depth = 0 /\ SkipFits /\ pc' = "loop" /\ index' = base + Skipped
      /\ UNCHANGED <<buf, kind, error, base, end, caller, pre, scale, value, field, depth, authority>>
  BY DEF SkipReturn, varint, input, call
<1>2. index' = index /\ index <= end
  BY <1>1, SkippedIsTrue DEF DInv
<1>3. pc \in Skipping
  BY <1>1 DEF Skipping
<1>4. /\ InField /\ pre \in Nat /\ end \in Nat /\ index \in Nat /\ buf \in Seq(Byte) /\ pre < index
      /\ index \in pre + 1 .. end /\ end <= Len(buf) /\ Len(buf) \in Nat
  <2>1. index # pre /\ index >= pre
    BY <1>1 DEF DInv, Consumed, SkipFits
  <2>2. QED
    BY <1>2, <1>3, <2>1, SkipFacts
<1>5. \A k \in pre + 1 .. end : IsField(Current, buf, pre, k) <=> k = index
  <2>1. \A k : Closes(buf, depth, index, k) <=> k = index
    BY <1>1, <1>4, ClosesNone
  <2>2. QED
    BY <1>1, <1>4, <2>1 DEF DInv, Progress, SkipsTo
<1>6. Fits' /\ Progress'
  BY <1>1 DEF DInv, Fits, Progress, Skipping, SkipReads
<1>7. CASE caller = -1
  <2>1. Current = kind /\ end = Len(buf) /\ StartOfField = pre /\ StartOfField' = index
    BY <1>1, <1>2, <1>7 DEF Current, DInv, Inv, Positions, StartOfField
  <2>2. IsField(kind, buf, pre, index)
    BY <1>4, <1>5, <2>1
  <2>3. PICK t : IsVarint(buf, pre, t) /\ ~HasField(Current, FieldNumber(ValueOf(buf, pre, t)))
    BY <1>1, <1>3 DEF DInv, Progress, UnknownTag
  <2>4. t \in pre + 1 .. index
    <3>1. PICK x \in pre + 1 .. index : IsVarint(buf, pre, x)
      BY <2>2, FieldTag
    <3>2. QED
      BY <1>4, <2>3, <3>1, VarintUnique
  <2>5. Holds(kind, authority, buf, pre, index) = authority
    BY <1>4, <2>1, <2>3, <2>4, HoldsOf DEF HasField
  <2>6. QED
    BY <1>1, <1>4, <1>6, <1>7, <2>1, <2>2, <2>5 DEF Moves, Around, Takes
<1>8. CASE caller # -1
  <2>1. Nested /\ Current = "Params"
    BY <1>1, <1>8 DEF DInv, Current
  <2>2. ParamsFrom(pre)
    BY <1>1, <2>1 DEF Nested
  <2>3. IsParams(buf, pre, end) <=> IsParams(buf, index, end)
    <3>1. ASSUME IsParams(buf, pre, end)
          PROVE  IsParams(buf, index, end)
      <4>1. pre < end
        BY <1>4
      <4>2. PICK b \in pre + 1 .. end : IsField("Params", buf, pre, b) /\ IsParams(buf, b, end)
        BY <1>4, <3>1, <4>1, ParamsFirst
      <4>3. QED
        BY <1>5, <2>1, <4>2
    <3>2. ASSUME IsParams(buf, index, end)
          PROVE  IsParams(buf, pre, end)
      <4>1. IsField("Params", buf, pre, index)
        BY <1>4, <1>5, <2>1
      <4>2. QED
        BY <1>4, <3>2, <4>1, ParamsMore
    <3>3. QED
      BY <3>1, <3>2
  <2>4. ParamsFrom(index)
    BY <2>2, <2>3 DEF ParamsFrom
  <2>5. ParamsFrom(index)'
    BY <1>1, <1>2, <2>4 DEF ParamsFrom
  <2>6. Nested'
    BY <1>1, <2>1, <2>5 DEF Nested
  <2>7. Same
    BY <1>1, <1>8 DEF Same, StartOfField
  <2>8. QED
    BY <1>1, <1>6, <2>6, <2>7 DEF Goes, Around
<1>9. QED
  BY <1>7, <1>8

(* A step of the decoder is none for the reader, takes a field, ends the   *)
(* message or refuses it.                                                  *)
LEMMA DecoderSteps ==
  ASSUME DInv, Next
  PROVE  /\ DInv' /\ pc \notin {"accepted", "rejected"} /\ UNCHANGED <<buf, kind>>
         /\ \/ pc' \notin {"accepted", "rejected"} /\ (Same \/ Takes)
            \/ pc' = "accepted" /\ Same /\ StartOfField = Len(buf)
            \/ pc' = "rejected" /\ Refuses
<1>1. UnmarshalStep \/ SkipStep
  BY Zenon DEF Next, Unmarshal, Skip, UnmarshalMsgUpdateParams, UnmarshalMsgUpdateParamsResponse,
     UnmarshalQueryParamsRequest, UnmarshalQueryParamsResponse, UnmarshalGenesisState,
     UnmarshalModule, UnmarshalParams, skipTx, skipQuery, skipGenesis, skipModule, skipParams
<1> DEFINE Refused == Around' /\ pc' = "rejected" /\ Refuses
           Ended == Around' /\ pc' = "accepted" /\ Same /\ StartOfField = Len(buf)
<1>2. ASSUME NEW reads \in {UnmarshalReads, SkipReads}, ReadVarint(reads)
      PROVE  Goes \/ Refused
  <2>1. CASE ReadByte(reads)
    BY <2>1, ReadByteGoes
  <2>2. CASE Overflow(reads) \/ OutOfInput(reads)
    <3>1. /\ pc \in UnmarshalReads \cup SkipReads /\ \E why : Reject(why)
          /\ scale >= 2 * Half \/ index >= end
      <4>1. ~(index < end) => index >= end
        BY Facts DEF DInv
      <4>2. QED
        BY <2>2, <4>1 DEF Overflow, OutOfInput, InputLeft
    <3>2. NoField
      BY <3>1, NoVarintNoField
    <3>3. InField
      BY <3>1 DEF InField, UnmarshalReads, SkipReads
    <3>4. QED
      BY <3>1, <3>2, <3>3, RejectRefuses
  <2>3. QED
    BY <1>2, <2>1, <2>2 DEF ReadVarint
<1>3. ASSUME UnmarshalStep
      PROVE  Goes \/ Moves \/ Ended \/ Refused
  <2>1. CASE BeginField
    BY <2>1, BeginFieldGoes
  <2>2. CASE ReadVarint(UnmarshalReads)
    BY <2>2, <1>2
  <2>3. CASE RejectTag
    BY <2>3, RejectTagRefuses
  <2>4. CASE KnownField
    BY <2>4, KnownFieldGoes
  <2>5. CASE UnknownField
    BY <2>5, UnknownFieldGoes
  <2>6. CASE RejectLength
    BY <2>6, RejectLengthRefuses
  <2>7. CASE TakeString
    BY <2>7, TakeStringMoves
  <2>8. CASE EnterParams
    BY <2>8, EnterParamsGoes
  <2>9. CASE LeaveParams
    BY <2>9, LeaveParamsMoves
  <2>10. CASE Accept
    BY <2>10, AcceptEnds
  <2>11. QED
    BY <1>3, <2>1, <2>2, <2>3, <2>4, <2>5, <2>6, <2>7, <2>8, <2>9, <2>10 DEF UnmarshalStep
<1>4. ASSUME SkipStep
      PROVE  Goes \/ Moves \/ Ended \/ Refused
  <2>1. CASE SkipBegin
    BY <2>1, SkipBeginGoes
  <2>2. CASE SkipOutOfInput
    BY <2>2, SkipOutOfInputRefuses
  <2>3. CASE ReadVarint(SkipReads)
    BY <2>3, <1>2
  <2>4. CASE RejectSkip
    BY <2>4, RejectSkipRefuses
  <2>5. CASE SkipValue
    BY <2>5, SkipValueGoes
  <2>6. CASE SkipFixed
    BY <2>6, SkipFixedGoes
  <2>7. CASE SkipBytes
    BY <2>7, SkipBytesGoes
  <2>8. CASE SkipGroup
    BY <2>8, SkipGroupGoes
  <2>9. CASE SkipFurther
    BY <2>9, SkipFurtherGoes
  <2>10. CASE SkipReturn
    BY <2>10, SkipReturnSteps
  <2>11. CASE RejectSkipped
    BY <2>11, RejectSkippedRefuses
  <2>12. QED
    BY <1>4, <2>1, <2>2, <2>3, <2>4, <2>5, <2>6, <2>7, <2>8, <2>9, <2>10, <2>11 DEF SkipStep
<1>5. Goes \/ Moves \/ Ended \/ Refused
  BY <1>1, <1>3, <1>4
<1>6. Around' /\ Inv' /\ Consumed'
  BY <1>5, NextInv, NextLess DEF DInv, Goes, Moves
<1>7. DInv'
  BY <1>6 DEF DInv, Around
<1>8. UNCHANGED <<buf, kind>>
  <2>1. ASSUME NEW why, Reject(why) PROVE UNCHANGED input
    BY <2>1 DEF Reject
  <2>2. ASSUME NEW reads, ReadVarint(reads) PROVE UNCHANGED input
    BY <2>1, <2>2 DEF ReadVarint, Overflow, OutOfInput, ReadByte
  <2>3. ASSUME UnmarshalStep PROVE UNCHANGED input
    BY <2>1, <2>2, <2>3, Zenon DEF UnmarshalStep, BeginField, RejectTag, KnownField, UnknownField, RejectLength,
       TakeString, EnterParams, LeaveParams, Accept
  <2>4. ASSUME SkipStep PROVE UNCHANGED input
    BY <2>1, <2>2, <2>4, Zenon DEF SkipStep, SkipBegin, SkipOutOfInput, RejectSkip, SkipValue, SkipFixed, SkipBytes,
       SkipGroup, SkipFurther, SkipReturn, RejectSkipped
  <2>5. QED
    BY <1>1, <2>3, <2>4 DEF input
<1>9. pc \notin {"accepted", "rejected"}
  <2>1. ASSUME NEW reads \in {UnmarshalReads, SkipReads}, ReadVarint(reads) PROVE pc \in reads
    BY <2>1 DEF ReadVarint, Overflow, OutOfInput, ReadByte
  <2>2. ASSUME UnmarshalStep PROVE pc \notin {"accepted", "rejected"}
    BY <2>1, <2>2 DEF UnmarshalStep, BeginField, RejectTag, KnownField, UnknownField, RejectLength,
       TakeString, EnterParams, LeaveParams, Accept, UnmarshalReads
  <2>3. ASSUME SkipStep PROVE pc \notin {"accepted", "rejected"}
    BY <2>1, <2>3 DEF SkipStep, SkipBegin, SkipOutOfInput, RejectSkip, SkipValue, SkipFixed, SkipBytes,
       SkipGroup, SkipFurther, SkipReturn, RejectSkipped, SkipReads
  <2>4. QED
    BY <1>1, <2>2, <2>3
<1>10. QED
  BY <1>5, <1>7, <1>8, <1>9 DEF Goes, Moves

(***************************************************************************)
(* Part 4.  The encoder, and both.                                         *)
(***************************************************************************)

(***************************************************************************)
(* Powers of two, and the number of groups of a varint.                    *)
(***************************************************************************)
LEMMA Twos ==
  /\ Two \in [Nat -> Nat]
  /\ Two[0] = 1
  /\ \A n \in Nat : Two[n + 1] = 2 * Two[n]
<1>1. Two = CHOOSE f : IsPowers(2, f)
  BY DEF Two, IsPowers
<1>2. IsPowers(2, Two)
  BY <1>1, PowersExist
<1>3. QED
  BY <1>2, PowersAre

LEMMA TwoGrows ==
  ASSUME NEW n \in Nat
  PROVE  Two[n] \in Nat /\ n < Two[n]
<1> DEFINE Bad == {m \in Nat : ~(m < Two[m])}
<1>1. 0 \notin Bad
  BY Twos
<1>2. ASSUME NEW m \in Nat, m + 1 \in Bad PROVE m \in Bad
  <2>1. Two[m] \in Nat /\ Two[m + 1] = 2 * Two[m]
    BY Twos
  <2>2. QED
    BY <1>2, <2>1
<1>3. Bad \in SUBSET Nat
  OBVIOUS
<1>4. Bad = {}
  <2> HIDE DEF Bad
  <2>1. QED
    BY <1>1, <1>2, <1>3, NoSmallest
<1>5. QED
  BY <1>4, Twos

LEMMA TwoSum ==
  ASSUME NEW m \in Nat, NEW n \in Nat
  PROVE  Two[m + n] = Two[m] * Two[n]
<1> DEFINE Bad == {d \in Nat : Two[m + d] # Two[m] * Two[d]}
<1>1. 0 \notin Bad
  BY Twos
<1>2. ASSUME NEW d \in Nat, d + 1 \in Bad PROVE d \in Bad
  <2>1. ASSUME Two[m + d] = Two[m] * Two[d]
        PROVE  Two[m + (d + 1)] = Two[m] * Two[d + 1]
    <3>1. Two[m + (d + 1)] = 2 * Two[m + d]
      <4>1. m + d \in Nat /\ m + (d + 1) = (m + d) + 1
        OBVIOUS
      <4>2. QED
        BY <4>1, Twos
    <3>2. Two[d + 1] = 2 * Two[d] /\ Two[d] \in Nat /\ Two[m] \in Nat
      BY Twos
    <3>3. 2 * (Two[m] * Two[d]) = Two[m] * (2 * Two[d])
      BY <3>2
    <3>4. QED
      BY <2>1, <3>1, <3>2, <3>3
  <2>2. QED
    BY <1>2, <2>1
<1>3. Bad \in SUBSET Nat
  OBVIOUS
<1>4. Bad = {}
  <2> HIDE DEF Bad
  <2>1. QED
    BY <1>1, <1>2, <1>3, NoSmallest
<1>5. QED
  BY <1>4

LEMMA TwoMonotonic ==
  ASSUME NEW m \in Nat, NEW n \in Nat, m <= n
  PROVE  Two[m] <= Two[n]
<1>1. n - m \in Nat /\ m + (n - m) = n
  OBVIOUS
<1>2. Two[n] = Two[m] * Two[n - m]
  BY <1>1, TwoSum
<1>3. Two[m] \in Nat /\ Two[n - m] \in Nat /\ Two[n - m] >= 1
  BY <1>1, TwoGrows
<1>4. Two[m] <= Two[m] * Two[n - m]
  BY <1>3
<1>5. QED
  BY <1>2, <1>4

(* The weight of the k-th group, in bits.                                  *)
LEMMA WeightIsTwo ==
  ASSUME NEW n \in Nat
  PROVE  Group * n \in Nat /\ Weight[n] = Two[Group * n]
<1>0. Group \in Nat /\ High = Two[Group]
  BY GroupAssumption
<1> DEFINE Bad == {k \in Nat : Weight[k] # Two[Group * k]}
<1>1. 0 \notin Bad
  <2>1. Group * 0 = 0
    BY <1>0
  <2>2. QED
    BY <2>1, Twos, Weights
<1>2. ASSUME NEW k \in Nat, k + 1 \in Bad PROVE k \in Bad
  <2>1. ASSUME Weight[k] = Two[Group * k]
        PROVE  Weight[k + 1] = Two[Group * (k + 1)]
    <3>1. Group * k \in Nat /\ Group * (k + 1) = Group + Group * k
      BY <1>0
    <3>2. Two[Group + Group * k] = Two[Group] * Two[Group * k]
      BY <1>0, <3>1, TwoSum
    <3>3. QED
      BY <1>0, <2>1, <3>1, <3>2, Weights
  <2>2. QED
    BY <1>2, <2>1
<1>3. Bad \in SUBSET Nat
  OBVIOUS
<1>4. Bad = {}
  <2> HIDE DEF Bad
  <2>1. QED
    BY <1>1, <1>2, <1>3, NoSmallest
<1>5. QED
  BY <1>0, <1>4

(* bits.Len64                                                              *)
LEMMA Len64Is ==
  ASSUME NEW x \in Nat, x > 0
  PROVE  /\ Len64(x) \in 1 .. x
         /\ Two[Len64(x) - 1] <= x /\ x < Two[Len64(x)]
<1> DEFINE T == {n \in Nat : x < Two[n]}
<1>1. T \in SUBSET Nat /\ x \in T
  BY TwoGrows
<1>2. PICK n \in T : \A m \in T : n <= m
  <2> HIDE DEF T
  <2>1. T # {}
    BY <1>1
  <2>2. QED
    BY <1>1, <2>1, Smallest
<1>3. n \in 0 .. x /\ n \in Nat /\ Two[n] > x
  BY <1>1, <1>2, TwoGrows
<1>4. \A k \in 0 .. n - 1 : Two[k] <= x
  <2>1. TAKE k \in 0 .. n - 1
  <2>2. k \in Nat /\ Two[k] \in Nat /\ ~(n <= k)
    BY <1>3, TwoGrows
  <2>3. QED
    BY <1>2, <2>2
<1> DEFINE Is(y) == (\A k \in 0 .. y - 1 : Two[k] <= x) /\ Two[y] > x
<1>5. \E y \in 0 .. x : Is(y)
  BY <1>3, <1>4
<1>6. Len64(x) \in 0 .. x /\ Is(Len64(x))
  <2>1. Len64(x) = CHOOSE y \in 0 .. x : Is(y)
    BY DEF Len64
  <2> HIDE DEF Is
  <2>2. QED
    BY <1>5, <2>1
<1>7. Len64(x) # 0
  BY <1>6, Twos
<1>8. QED
  BY <1>6, <1>7

(* How many groups a number has, however they are counted.                 *)
IsGroups(v, n) == v < Weight[n] /\ (n = 1 \/ v >= Weight[n - 1])

LEMMA GroupsUnique ==
  ASSUME NEW v \in Nat, NEW m \in Nat, NEW n \in Nat, m > 0, n > 0, IsGroups(v, m), IsGroups(v, n)
  PROVE  m = n
<1>1. ASSUME NEW a \in Nat, NEW b \in Nat, a > 0, a < b, IsGroups(v, a), IsGroups(v, b)
      PROVE  FALSE
  <2>1. b - 1 \in Nat /\ a <= b - 1 /\ b # 1
    BY <1>1
  <2>2. Weight[a] <= Weight[b - 1]
    BY <2>1, WeightMonotonic
  <2>3. v < Weight[a] /\ v >= Weight[b - 1] /\ Weight[a] \in Nat /\ Weight[b - 1] \in Nat
    BY <1>1, <2>1, WeightNat DEF IsGroups
  <2>4. QED
    BY <2>2, <2>3
<1>2. m < n \/ n < m \/ m = n
  OBVIOUS
<1>3. QED
  BY <1>1, <1>2

(* A number divided by another, rounded up.                                *)
LEMMA RoundedUp ==
  ASSUME NEW n \in Nat, n > 0, NEW d \in Nat, d > 0
  PROVE  LET g == (n + d - 1) \div d IN
           g \in Nat /\ g > 0 /\ n <= d * g /\ d * (g - 1) <= n - 1
<1> DEFINE z == n + d - 1
           g == z \div d
           r == z % d
<1>1. z \in Nat
  OBVIOUS
<1>2. g \in Int /\ r \in 0 .. d - 1 /\ z = g * d + r
  BY <1>1
<1>3. g * d > n - 1 /\ g * d = d * g
  BY <1>2
<1>4. g > 0
  <2>1. g <= 0 => g * d <= 0
    BY <1>2
  <2>2. QED
    BY <1>2, <1>3, <2>1
<1>5. d * (g - 1) = d * g - d
  BY <1>2
<1>6. QED
  BY <1>2, <1>3, <1>4, <1>5

(* The size counts as many groups as the loop writes.                      *)
LEMMA SovIsGroups ==
  ASSUME NEW v \in Nat
  PROVE  /\ sov(v) \in 1 .. v + 1 /\ sov(v) = Groups(v) /\ IsGroups(v, sov(v))
         /\ v > 0 => sov(v) <= v
<1> DEFINE y == IF v = 0 THEN 1 ELSE v
           n == Len64(y)
           g == (n + Group - 1) \div Group
<1>1. y \in Nat /\ y > 0 /\ v <= y /\ (v = 0 => y = 1) /\ (v > 0 => y = v)
  OBVIOUS
<1>2. Group \in Nat /\ Group > 0
  BY GroupAssumption
<1>3. n \in 1 .. y /\ Two[n - 1] <= y /\ y < Two[n]
  <2> HIDE DEF y
  <2>1. QED
    BY <1>1, Len64Is
<1>4. n \in Nat /\ n > 0 /\ n - 1 \in Nat
  BY <1>1, <1>3
<1>5. g \in Nat /\ g > 0 /\ n <= Group * g /\ Group * (g - 1) <= n - 1
  <2> HIDE DEF n
  <2>1. QED
    BY <1>2, <1>4, RoundedUp
<1>6. sov(v) = g
  BY DEF sov
<1> HIDE DEF y, n, g
<1>7. g - 1 \in Nat /\ Group * g \in Nat /\ Group * (g - 1) \in Nat
  BY <1>5, WeightIsTwo
<1>8. Weight[g] = Two[Group * g] /\ Weight[g - 1] = Two[Group * (g - 1)]
  BY <1>5, <1>7, WeightIsTwo
<1>9. Two[n] <= Two[Group * g] /\ Two[Group * (g - 1)] <= Two[n - 1]
  BY <1>4, <1>5, <1>7, TwoMonotonic
<1>10. /\ Two[n] \in Nat /\ Two[n - 1] \in Nat /\ Two[Group * g] \in Nat /\ Two[Group * (g - 1)] \in Nat
  BY <1>4, <1>7, TwoGrows
<1>11. v < Weight[g] /\ Weight[g - 1] <= y
  BY <1>1, <1>3, <1>8, <1>9, <1>10
<1>12. g <= y
  <2>1. g - 1 < Weight[g - 1] /\ Weight[g - 1] \in Nat
    BY <1>7, WeightGrows, WeightNat
  <2>2. QED
    BY <1>1, <1>5, <1>11, <2>1
<1>13. IsGroups(v, g)
  <2>1. CASE v = 0
    BY <1>1, <1>5, <1>11, <1>12, <2>1 DEF IsGroups
  <2>2. CASE v > 0
    BY <1>1, <1>11, <2>2 DEF IsGroups
  <2>3. QED
    BY <2>1, <2>2
<1>14. g \in 1 .. v + 1 /\ (v > 0 => g <= v)
  BY <1>1, <1>5, <1>12
<1>15. Groups(v) = g
  <2>1. Groups(v) = CHOOSE k \in 1 .. v + 1 : IsGroups(v, k)
    BY DEF Groups, IsGroups
  <2>2. Groups(v) \in 1 .. v + 1 /\ IsGroups(v, Groups(v))
    BY <1>13, <1>14, <2>1
  <2>3. QED
    BY <1>5, <1>13, <2>2, GroupsUnique
<1>16. QED
  BY <1>6, <1>13, <1>14, <1>15

(***************************************************************************)
(* What is read of what is written.                                        *)
(***************************************************************************)
LEMMA GroupsOf ==
  ASSUME NEW v \in Nat
  PROVE  Groups(v) \in Nat /\ Groups(v) >= 1 /\ v < Weight[Groups(v)]
         /\ (Groups(v) = 1 \/ v >= Weight[Groups(v) - 1])
BY SovIsGroups DEF IsGroups

LEMMA Quotient ==
  ASSUME NEW v \in Nat, NEW w \in Nat, w > 0
  PROVE  v \div w \in Nat /\ v % w \in 0 .. w - 1 /\ v = (v \div w) * w + (v % w)
<1>1. v \div w \in Int /\ v % w \in 0 .. w - 1 /\ v = (v \div w) * w + (v % w)
  OBVIOUS
<1>2. v \div w < 0 => (v \div w) * w <= -w
  BY <1>1
<1>3. QED
  BY <1>1, <1>2

LEMMA WeightPositive ==
  ASSUME NEW n \in Nat
  PROVE  Weight[n] \in Nat /\ Weight[n] > 0
BY WeightNat, WeightGrows

LEMMA GroupDigit ==
  ASSUME NEW v \in Nat, NEW i \in 1 .. Groups(v)
  PROVE  /\ VarintOf(v)[i] \in Byte
         /\ VarintOf(v)[i] < High <=> i = Groups(v)
         /\ VarintOf(v)[i] % High = (v \div Weight[i - 1]) % High
<1> DEFINE d == (v \div Weight[i - 1]) % High
<1>1. Groups(v) \in Nat /\ i \in Nat /\ i - 1 \in Nat
  BY GroupsOf
<1>2. High \in Nat /\ High > 0
  BY WidthsAssumption
<1>3. d \in 0 .. High - 1
  <2>1. Weight[i - 1] \in Nat /\ Weight[i - 1] > 0
    BY <1>1, WeightPositive
  <2>2. v \div Weight[i - 1] \in Nat
    BY <2>1, Quotient
  <2>3. QED
    BY <1>2, <2>2
<1>4. VarintOf(v)[i] = d + (IF i < Groups(v) THEN High ELSE 0)
  BY DEF VarintOf
<1> HIDE DEF d
<1>5. d % High = d /\ (d + High) % High = d
  <2>1. (0 * High + d) % High = d /\ (1 * High + d) % High = d
    BY <1>2, <1>3, RemainderIs
  <2>2. 0 * High + d = d /\ 1 * High + d = d + High
    BY <1>2, <1>3
  <2>3. QED
    BY <2>1, <2>2
<1>6. VarintOf(v)[i] % High = d
  <2>1. CASE i < Groups(v)
    BY <1>4, <1>5, <2>1
  <2>2. CASE ~(i < Groups(v))
    <3>1. d + 0 = d
      BY <1>3
    <3>2. QED
      BY <1>4, <1>5, <2>2, <3>1
  <2>3. QED
    BY <2>1, <2>2
<1>7. /\ VarintOf(v)[i] \in Byte
      /\ VarintOf(v)[i] < High <=> i = Groups(v)
  BY <1>1, <1>2, <1>3, <1>4 DEF Byte
<1>8. QED
  BY <1>6, <1>7 DEF d

LEMMA VarintOfBytes ==
  ASSUME NEW v \in Nat
  PROVE  VarintOf(v) \in Seq(Byte) /\ Len(VarintOf(v)) = Groups(v) /\ DOMAIN VarintOf(v) = 1 .. Groups(v)
<1>1. Groups(v) \in Nat
  BY GroupsOf
<1>2. VarintOf(v) \in [1 .. Groups(v) -> Byte]
  <2>1. DOMAIN VarintOf(v) = 1 .. Groups(v) /\ VarintOf(v) = [i \in 1 .. Groups(v) |-> VarintOf(v)[i]]
    BY DEF VarintOf
  <2>2. QED
    BY <2>1, GroupDigit
<1>3. QED
  BY <1>1, <1>2

(* One more digit of a remainder.                                          *)
LEMMA NextDigit ==
  ASSUME NEW v \in Nat, NEW w \in Nat, w > 0, NEW h \in Nat, h > 0
  PROVE  (v % w) + ((v \div w) % h) * w = v % (h * w)
<1> DEFINE q == v \div w
           r == v % w
           p == q \div h
           d == q % h
<1>1. q \in Nat /\ r \in 0 .. w - 1 /\ v = q * w + r
  BY Quotient
<1>2. p \in Nat /\ d \in 0 .. h - 1 /\ q = p * h + d
  <2> HIDE DEF q
  <2>1. QED
    BY <1>1, Quotient
<1> HIDE DEF q, r, p, d
<1>3. d * w \in Nat /\ (d + 1) * w <= h * w /\ (d + 1) * w = d * w + w /\ h * w \in Nat /\ h * w > 0
  <2>1. d \in Nat /\ d + 1 <= h
    BY <1>2
  <2>2. (h - (d + 1)) * w >= 0 /\ (h - (d + 1)) * w = h * w - (d + 1) * w
    BY <2>1
  <2>3. QED
    BY <2>1, <2>2
<1>4. d * w + r \in 0 .. h * w - 1
  BY <1>1, <1>3
<1>5. v = p * (h * w) + (d * w + r)
  <2>1. (p * h) * w = p * (h * w)
    BY <1>2
  <2>2. (p * h + d) * w = (p * h) * w + d * w
    BY <1>2
  <2>3. QED
    BY <1>1, <1>2, <1>3, <2>1, <2>2
<1>6. (p * (h * w) + (d * w + r)) % (h * w) = d * w + r
  BY <1>2, <1>3, <1>4, RemainderIs
<1>7. v % (h * w) = d * w + r
  BY <1>5, <1>6
<1>8. d * w + r = r + d * w
  BY <1>1, <1>3
<1>9. QED
  BY <1>7, <1>8 DEF q, r, d

Written(s, i, v) ==
  /\ i + Groups(v) <= Len(s)
  /\ \A k \in 1 .. Groups(v) : s[i + k] = VarintOf(v)[k]

LEMMA SumsOfWritten ==
  ASSUME NEW s \in Seq(Byte), NEW i \in Nat, NEW v \in Nat, Written(s, i, v)
  PROVE  \A k \in 0 .. Groups(v) : Sums(s, i)[k] = v % Weight[k]
<1> DEFINE G == Groups(v)
           Bad == {k \in Nat : k <= G /\ Sums(s, i)[k] # v % Weight[k]}
<1>1. G \in Nat /\ i \in 0 .. Len(s) /\ i + G <= Len(s) /\ Len(s) \in Nat
  <2>1. i + G <= Len(s)
    BY DEF Written
  <2>2. G \in Nat /\ Len(s) \in Nat
    BY GroupsOf
  <2>3. QED
    BY <2>1, <2>2
<1>2. 0 \notin Bad
  <2>1. Sums(s, i)[0] = 0 /\ Weight[0] = 1
    BY <1>1, SumsOf, Weights
  <2>2. v % 1 = 0
    OBVIOUS
  <2>3. QED
    BY <2>1, <2>2
<1>3. ASSUME NEW k \in Nat, k + 1 \in Bad PROVE k \in Bad
  <2>1. k + 1 <= G /\ k <= G /\ k + 1 \in 1 .. G /\ k \in 0 .. Len(s) - i - 1 /\ (k + 1) - 1 = k
        /\ i + k + 1 = i + (k + 1)
    BY <1>1, <1>3
  <2>2. Sums(s, i)[k + 1] = Sums(s, i)[k] + (s[i + k + 1] % High) * Weight[k]
    BY <1>1, <2>1, SumsOf
  <2>3. s[i + k + 1] = VarintOf(v)[k + 1]
    BY <2>1 DEF Written
  <2>4. s[i + k + 1] % High = (v \div Weight[k]) % High
    <3> DEFINE j == k + 1
    <3>1. j \in 1 .. Groups(v) /\ j - 1 = k
      BY <2>1
    <3> HIDE DEF j
    <3>2. VarintOf(v)[j] % High = (v \div Weight[j - 1]) % High
      BY <3>1, GroupDigit
    <3>3. QED
      BY <2>3, <3>1, <3>2 DEF j
  <2>5. Weight[k] \in Nat /\ Weight[k] > 0 /\ High \in Nat /\ High > 0 /\ Weight[k + 1] = High * Weight[k]
    <3>1. Weight[k] \in Nat /\ Weight[k] > 0 /\ Weight[k + 1] = High * Weight[k]
      BY WeightPositive, Weights
    <3>2. QED
      BY <3>1, WidthsAssumption
  <2>6. (v % Weight[k]) + ((v \div Weight[k]) % High) * Weight[k] = v % (High * Weight[k])
    <3> DEFINE w == Weight[k]
    <3>1. w \in Nat /\ w > 0
      BY <2>5
    <3> HIDE DEF w
    <3>2. (v % w) + ((v \div w) % High) * w = v % (High * w)
      BY <2>5, <3>1, NextDigit
    <3>3. QED
      BY <3>2 DEF w
  <2>7. Sums(s, i)[k] = v % Weight[k] => Sums(s, i)[k + 1] = v % Weight[k + 1]
    BY <2>2, <2>4, <2>5, <2>6, Zenon
  <2>8. QED
    BY <1>3, <2>1, <2>7
<1>4. Bad \in SUBSET Nat
  OBVIOUS
<1>5. Bad = {}
  <2> HIDE DEF Bad
  <2>1. QED
    BY <1>2, <1>3, <1>4, NoSmallest
<1>6. QED
  BY <1>1, <1>5

LEMMA ReadBack ==
  ASSUME NEW s \in Seq(Byte), NEW i \in Nat, NEW v \in Nat, v < Half, Written(s, i, v)
  PROVE  IsVarint(s, i, i + Groups(v)) /\ ValueOf(s, i, i + Groups(v)) = v
<1> DEFINE G == Groups(v)
           j == i + G
<1>1. G \in Nat /\ G >= 1 /\ v < Weight[G] /\ (G = 1 \/ v >= Weight[G - 1]) /\ Half \in Nat /\ Half > 1
  BY GroupsOf, WidthsAssumption
<1>2. j \in i + 1 .. Len(s)
  BY <1>1 DEF Written
<1>3. \A p \in i + 1 .. j : s[p] < High <=> p = j
  <2>1. TAKE p \in i + 1 .. j
  <2> DEFINE k == p - i
  <2>2. k \in 1 .. G /\ i + k = p
    BY <1>1
  <2>3. s[p] = VarintOf(v)[k]
    <3> HIDE DEF k
    <3>1. s[i + k] = VarintOf(v)[k]
      BY <2>2 DEF Written
    <3>2. QED
      BY <2>2, <3>1
  <2>4. VarintOf(v)[k] < High <=> k = G
    <3> HIDE DEF k
    <3>1. QED
      BY <2>2, GroupDigit
  <2>5. k = G <=> p = j
    BY <1>1, <2>2
  <2>6. QED
    BY <2>3, <2>4, <2>5
<1>4. Weight[G - 1] < 2 * Half
  <2>1. G - 1 \in Nat /\ Weight[G - 1] \in Nat
    BY <1>1, WeightNat
  <2>2. CASE G = 1
    BY <1>1, <2>2, Weights
  <2>3. CASE G # 1
    BY <1>1, <2>1, <2>3
  <2>4. QED
    BY <2>2, <2>3
<1>5. j - i - 1 = G - 1 /\ j - i = G
  BY <1>1
<1>6. IsVarint(s, i, j)
  BY <1>2, <1>3, <1>4, <1>5 DEF IsVarint
<1>7. Sums(s, i)[G] = v
  <2>1. Sums(s, i)[G] = v % Weight[G]
    BY <1>1, SumsOfWritten
  <2>2. Weight[G] \in Nat /\ Weight[G] > 0
    BY <1>1, WeightPositive
  <2>3. v % Weight[G] = v
    BY <1>1, <2>2
  <2>4. QED
    BY <2>1, <2>3
<1>8. v % (2 * Half) = v
  BY <1>1
<1>9. ValueOf(s, i, j) = v
  BY <1>5, <1>7, <1>8 DEF ValueOf
<1>10. QED
  BY <1>6, <1>9

(* A byte below the continuation bit is a varint.                          *)
LEMMA ReadByteBack ==
  ASSUME NEW s \in Seq(Byte), NEW i \in Nat, i < Len(s), NEW v \in Nat, v < High, s[i + 1] = v
  PROVE  IsVarint(s, i, i + 1) /\ ValueOf(s, i, i + 1) = v
<1>1. High \in Nat /\ Half \in Nat /\ v < Half /\ Half > 1
  BY WidthsAssumption
<1>2. (i + 1) - i - 1 = 0 /\ i + 1 \in i + 1 .. Len(s) /\ (i + 1) - i = 1 /\ i - i = 0 /\ i \in 0 .. Len(s)
  OBVIOUS
<1>3. IsVarint(s, i, i + 1)
  <2>1. \A p \in i + 1 .. i + 1 : s[p] < High <=> p = i + 1
    OBVIOUS
  <2>2. Weight[0] < 2 * Half
    BY <1>1, Weights
  <2>3. QED
    BY <1>2, <2>1, <2>2 DEF IsVarint
<1>4. ValueOf(s, i, i + 1) = (0 + (v % High) * Weight[0]) % (2 * Half)
  BY <1>2, OneMore, ValueOfNone
<1>5. v % High = v /\ v % (2 * Half) = v
  BY <1>1
<1>6. 0 + v * 1 = v
  OBVIOUS
<1>7. QED
  BY <1>3, <1>4, <1>5, <1>6, Weights

(***************************************************************************)
(* The encoding of a message.                                              *)
(***************************************************************************)
(* What Marshal is given.                                                  *)
Encodable(m, a) ==
  /\ m \in Messages /\ a \in Seq(Byte)
  /\ a # <<>> => StringField(m, 1)
  /\ 2 * Len(a) + 4 <= Half

HasParams(m) == \E n \in 1 .. 2 : ParamsField(m, n)
ParamsNumber(m) == CHOOSE n \in {n \in 1 .. 2 : ParamsField(m, n)} : TRUE

(* The authority, with its tag and its length, and the Params behind it.   *)
StringEnd(a) == IF a = <<>> THEN 0 ELSE 1 + sov(Len(a)) + Len(a)

StringAt(a, b) ==
  /\ b[1] = 10 /\ Written(b, 1, Len(a))
  /\ \A k \in 1 .. Len(a) : b[(1 + sov(Len(a))) + k] = a[k]

ParamsAt(m, b, p) == b[p + 1] = 8 * ParamsNumber(m) + 2 /\ b[p + 2] = 0

Encodes(m, a, b) ==
  /\ b \in Seq(Byte) /\ Len(b) = Size(m, a)
  /\ a # <<>> => StringAt(a, b)
  /\ HasParams(m) => ParamsAt(m, b, StringEnd(a))

LEMMA ParamsNumberIs ==
  ASSUME NEW m, HasParams(m)
  PROVE  ParamsNumber(m) \in 1 .. 2 /\ ParamsField(m, ParamsNumber(m)) /\ ~StringField(m, ParamsNumber(m))
<1>1. ParamsNumber(m) \in {n \in 1 .. 2 : ParamsField(m, n)}
  BY DEF HasParams, ParamsNumber
<1>2. \A n \in 1 .. 2 : ParamsField(m, n) => ~StringField(m, n)
  BY DEF ParamsField, StringField
<1>3. QED
  BY <1>1, <1>2

LEMMA StringEndRange ==
  ASSUME NEW m, NEW a, Encodable(m, a)
  PROVE  /\ Len(a) \in Nat /\ sov(Len(a)) \in Nat /\ sov(Len(a)) >= 1 /\ sov(Len(a)) = Groups(Len(a))
         /\ StringEnd(a) \in Nat /\ StringEnd(a) <= 2 * Len(a) + 1
         /\ a # <<>> => Len(a) > 0 /\ StringEnd(a) = (1 + sov(Len(a))) + Len(a)
         /\ a = <<>> => Len(a) = 0 /\ StringEnd(a) = 0
<1>1. a \in Seq(Byte) /\ Len(a) \in Nat
  BY DEF Encodable
<1>2. sov(Len(a)) \in 1 .. Len(a) + 1 /\ sov(Len(a)) = Groups(Len(a)) /\ (Len(a) > 0 => sov(Len(a)) <= Len(a))
  BY <1>1, SovIsGroups
<1>3. a # <<>> => Len(a) > 0
  BY <1>1
<1>4. a = <<>> => Len(a) = 0
  OBVIOUS
<1>5. CASE a = <<>>
  BY <1>1, <1>2, <1>4, <1>5 DEF StringEnd
<1>6. CASE a # <<>>
  BY <1>1, <1>2, <1>3, <1>6 DEF StringEnd
<1>7. QED
  BY <1>5, <1>6

LEMMA SizeIs ==
  ASSUME NEW m, NEW a, Encodable(m, a)
  PROVE  /\ Size(m, a) = StringEnd(a) + (IF HasParams(m) THEN 2 ELSE 0)
         /\ Size(m, a) \in Nat /\ Size(m, a) < Half
<1>1. sov(0) = 1
  BY SovIsGroups
<1>2. /\ Len(a) \in Nat /\ sov(Len(a)) \in Nat
      /\ StringEnd(a) \in Nat /\ StringEnd(a) <= 2 * Len(a) + 1
      /\ a # <<>> => StringEnd(a) = (1 + sov(Len(a))) + Len(a)
      /\ a = <<>> => StringEnd(a) = 0
  BY StringEndRange
<1>3. (IF \E n \in 1 .. 2 : ParamsField(m, n) THEN 1 + 0 + sov(0) ELSE 0) = IF HasParams(m) THEN 2 ELSE 0
  BY <1>1 DEF HasParams
<1>4. (IF a # <<>> /\ StringField(m, 1) THEN 1 + Len(a) + sov(Len(a)) ELSE 0) = StringEnd(a)
  <2>1. a # <<>> => StringField(m, 1)
    BY DEF Encodable
  <2>2. CASE a = <<>>
    BY <1>2, <2>2
  <2>3. CASE a # <<>>
    BY <1>2, <2>1, <2>3
  <2>4. QED
    BY <2>2, <2>3
<1>5. Size(m, a) = StringEnd(a) + (IF HasParams(m) THEN 2 ELSE 0)
  BY <1>3, <1>4, Zenon DEF Size
<1>6. 2 * Len(a) + 4 <= Half /\ Half \in Nat
  BY WidthsAssumption DEF Encodable
<1>7. QED
  BY <1>2, <1>5, <1>6

LEMMA FieldsAre ==
  ASSUME NEW m, NEW a, Encodable(m, a)
  PROVE  Fields(m, a)
           = (IF HasParams(m) THEN <<[number |-> ParamsNumber(m), bytes |-> <<>>]>> ELSE <<>>)
               \o (IF a = <<>> THEN <<>> ELSE <<[number |-> 1, bytes |-> a]>>)
<1> DEFINE params == {n \in 1 .. 2 : ParamsField(m, n)}
           strings == {n \in 1 .. 2 : StringField(m, n) /\ a # <<>>}
           P == IF params = {} THEN <<>> ELSE <<[number |-> CHOOSE n \in params : TRUE, bytes |-> <<>>]>>
           S == IF strings = {} THEN <<>> ELSE <<[number |-> 1, bytes |-> a]>>
<1>1. Fields(m, a) = P \o S
  BY Zenon DEF Fields
<1>2. params = {} <=> ~HasParams(m)
  BY DEF HasParams
<1>3. strings = {} <=> a = <<>>
  <2>1. a # <<>> => 1 \in strings
    BY DEF Encodable
  <2>2. QED
    BY <2>1
<1>4. P = IF HasParams(m) THEN <<[number |-> ParamsNumber(m), bytes |-> <<>>]>> ELSE <<>>
  <2>1. (CHOOSE n \in params : TRUE) = ParamsNumber(m)
    BY DEF ParamsNumber
  <2>2. QED
    BY <1>2, <2>1, Zenon
<1>5. S = IF a = <<>> THEN <<>> ELSE <<[number |-> 1, bytes |-> a]>>
  BY <1>3, Zenon
<1>6. QED
  BY <1>1, <1>4, <1>5, Zenon

(***************************************************************************)
(* What the grammar has of it.                                             *)
(***************************************************************************)
LEMMA KnownFieldUnique ==
  ASSUME NEW s \in Seq(Byte), NEW i \in Nat, NEW t, IsVarint(s, i, t),
         NEW m, HasField(m, FieldNumber(ValueOf(s, i, t))),
         NEW j \in Nat, NEW k \in Nat, IsField(m, s, i, j), IsField(m, s, i, k)
  PROVE  j = k
<1> DEFINE n == FieldNumber(ValueOf(s, i, t))
<1>1. IsKnownContent(m, n, s, t, j) /\ IsKnownContent(m, n, s, t, k)
  BY FieldOfTag
<1>2. PICK x \in t + 1 .. j : IsBytesAt(s, t, x, j)
  BY <1>1 DEF IsKnownContent
<1>3. PICK y \in t + 1 .. k : IsBytesAt(s, t, y, k)
  BY <1>1 DEF IsKnownContent
<1>4. t \in Nat
  BY VarintParts
<1>5. x = y
  BY <1>2, <1>3, <1>4, VarintUnique DEF IsBytesAt
<1>6. j - x = k - x /\ x \in Int
  BY <1>2, <1>3, <1>4, <1>5 DEF IsBytesAt
<1>7. QED
  BY <1>6

(* The tags that are written: one byte, the number and wire type 2.        *)
LEMMA TagBack ==
  ASSUME NEW s \in Seq(Byte), NEW i \in Nat, i < Len(s), NEW n \in 1 .. 2, s[i + 1] = 8 * n + 2
  PROVE  /\ IsVarint(s, i, i + 1)
         /\ FieldNumber(ValueOf(s, i, i + 1)) = n /\ WireType(ValueOf(s, i, i + 1)) = 2
<1>1. 8 * n + 2 \in Nat /\ 8 * n + 2 < High
  BY GroupAssumption, WidthsAssumption
<1>2. IsVarint(s, i, i + 1) /\ ValueOf(s, i, i + 1) = 8 * n + 2
  BY <1>1, ReadByteBack
<1>3. (8 * n + 2) \div 8 = n /\ (8 * n + 2) % 8 = 2
  OBVIOUS
<1>4. TagHalf \in Nat /\ TagHalf > 2
  BY GroupAssumption, WidthsAssumption
<1>5. n % (2 * TagHalf) = n /\ n < TagHalf
  BY <1>4
<1>6. QED
  BY <1>2, <1>3, <1>5 DEF FieldNumber, WireType

LEMMA EncodedString ==
  ASSUME NEW m, NEW a, Encodable(m, a), a # <<>>, NEW b, Encodes(m, a, b)
  PROVE  /\ StringEnd(a) \in 1 .. Len(b) /\ IsField(m, b, 0, StringEnd(a))
         /\ \A j \in Nat : IsField(m, b, 0, j) => j = StringEnd(a)
         /\ \A old : Holds(m, old, b, 0, StringEnd(a)) = a
<1> DEFINE P == StringEnd(a)
           L == Len(a)
           k == 1 + sov(L)
<1>1. b \in Seq(Byte) /\ Len(b) = Size(m, a) /\ StringAt(a, b) /\ a \in Seq(Byte) /\ StringField(m, 1)
  BY DEF Encodes, Encodable
<1>2. /\ L \in Nat /\ L > 0 /\ sov(L) \in Nat /\ sov(L) >= 1 /\ sov(L) = Groups(L) /\ P = k + L /\ P \in Nat
  BY StringEndRange
<1>3. P <= Len(b) /\ Len(b) \in Nat /\ 1 <= P
  BY <1>1, <1>2, SizeIs
<1>4. L < Half
  BY <1>2, WidthsAssumption DEF Encodable
<1>5. /\ IsVarint(b, 0, 1)
      /\ FieldNumber(ValueOf(b, 0, 1)) = 1 /\ WireType(ValueOf(b, 0, 1)) = 2
  <2>1. b[0 + 1] = 8 * 1 + 2 /\ 0 < Len(b) /\ 0 + 1 = 1
    <3>1. b[1] = 10
      BY <1>1 DEF StringAt
    <3>2. 0 + 1 = 1 /\ 8 * 1 + 2 = 10
      OBVIOUS
    <3>3. QED
      BY <1>2, <1>3, <3>1, <3>2
  <2>2. /\ IsVarint(b, 0, 0 + 1)
        /\ FieldNumber(ValueOf(b, 0, 0 + 1)) = 1 /\ WireType(ValueOf(b, 0, 0 + 1)) = 2
    BY <1>1, <2>1, TagBack
  <2>3. QED
    BY <2>1, <2>2
<1>6. IsVarint(b, 1, k) /\ ValueOf(b, 1, k) = L
  BY <1>1, <1>2, <1>4, ReadBack DEF StringAt
<1>7. IsBytesAt(b, 1, k, P)
  <2>1. Int64(L) = L /\ P - k = L
    BY <1>2, <1>4 DEF Int64
  <2>2. QED
    BY <1>6, <2>1 DEF IsBytesAt
<1>8. ~ParamsField(m, 1) /\ HasField(m, 1)
  BY <1>1 DEF StringField, ParamsField, HasField
<1>9. k \in 1 + 1 .. P /\ 1 \in 0 + 1 .. P
  BY <1>2
<1>10. IsField(m, b, 0, P)
  <2>1. IsKnownContent(m, 1, b, 1, P)
    BY <1>7, <1>8, <1>9 DEF IsKnownContent
  <2>2. QED
    BY <1>1, <1>5, <1>8, <1>9, <2>1, FieldOfTag
<1>11. \A j \in Nat : IsField(m, b, 0, j) => j = P
  BY <1>1, <1>2, <1>5, <1>8, <1>10, KnownFieldUnique
<1>12. SubSeq(b, k + 1, P) = a
  <2>1. k + 1 \in Nat /\ k + 1 >= 1 /\ P <= Len(b) /\ P - (k + 1) + 1 = L /\ k \in Nat
    BY <1>2, <1>3
  <2>0. \A x \in 1 .. L : b[k + x] = a[x]
    BY <1>1 DEF StringAt
  <2> HIDE DEF k, L, P
  <2>2. SubSeq(b, k + 1, P) \in Seq(Byte) /\ Len(SubSeq(b, k + 1, P)) = L
    BY <1>1, <1>2, <2>1
  <2>3. \A x \in 1 .. L : SubSeq(b, k + 1, P)[x] = a[x]
    <3>1. TAKE x \in 1 .. L
    <3>2. SubSeq(b, k + 1, P)[x] = b[k + x]
      BY <1>1, <1>2, <2>1
    <3>3. QED
      BY <2>0, <3>2
  <2>4. Len(a) = L
    BY DEF L
  <2>5. QED
    BY <1>1, <2>2, <2>3, <2>4, SeqEqual
<1>13. \A old : Holds(m, old, b, 0, P) = a
  <2>1. TAKE old
  <2>2. Holds(m, old, b, 0, P) = SubSeq(b, k + 1, P)
    BY <1>1, <1>5, <1>6, <1>9, HoldsOf
  <2>3. QED
    BY <1>12, <2>2
<1>14. QED
  BY <1>2, <1>3, <1>10, <1>11, <1>13

LEMMA EncodedParams ==
  ASSUME NEW m, NEW a, Encodable(m, a), HasParams(m), NEW b, Encodes(m, a, b)
  PROVE  /\ Len(b) = StringEnd(a) + 2 /\ IsField(m, b, StringEnd(a), Len(b))
         /\ \A j \in Nat : IsField(m, b, StringEnd(a), j) => j = Len(b)
         /\ \A old : Holds(m, old, b, StringEnd(a), Len(b)) = old
<1> DEFINE P == StringEnd(a)
           n == ParamsNumber(m)
<1>1. b \in Seq(Byte) /\ Len(b) = Size(m, a) /\ ParamsAt(m, b, P)
  BY DEF Encodes
<1>2. P \in Nat
  BY StringEndRange
<1>3. Len(b) = P + 2
  BY <1>1, SizeIs
<1>4. n \in 1 .. 2 /\ ParamsField(m, n) /\ ~StringField(m, n)
  BY ParamsNumberIs
<1>5. /\ IsVarint(b, P, P + 1)
      /\ FieldNumber(ValueOf(b, P, P + 1)) = n /\ WireType(ValueOf(b, P, P + 1)) = 2
  <2> HIDE DEF P, n
  <2>1. b[P + 1] = 8 * n + 2
    BY <1>1 DEF ParamsAt, n
  <2>2. QED
    BY <1>1, <1>2, <1>3, <1>4, <2>1, TagBack
<1>6. IsVarint(b, P + 1, P + 2) /\ ValueOf(b, P + 1, P + 2) = 0
  <2> HIDE DEF P
  <2>1. P + 1 \in Nat /\ P + 1 < Len(b) /\ (P + 1) + 1 = P + 2 /\ 0 < High /\ b[P + 2] = 0
    BY <1>1, <1>2, <1>3, WidthsAssumption DEF ParamsAt
  <2>2. b[(P + 1) + 1] = 0
    BY <2>1
  <2>3. IsVarint(b, P + 1, (P + 1) + 1) /\ ValueOf(b, P + 1, (P + 1) + 1) = 0
    BY <1>1, <2>1, <2>2, ReadByteBack
  <2>4. QED
    BY <2>1, <2>3
<1>7. IsBytesAt(b, P + 1, P + 2, P + 2)
  <2>1. Int64(0) = 0 /\ (P + 2) - (P + 2) = 0
    BY <1>2, WidthsAssumption DEF Int64
  <2>2. QED
    BY <1>6, <2>1 DEF IsBytesAt
<1>8. P + 2 \in (P + 1) + 1 .. P + 2 /\ P + 1 \in P + 1 .. P + 2 /\ P + 2 \in Int /\ P + 2 \in Nat
  BY <1>2
<1>9. IsKnownContent(m, n, b, P + 1, P + 2)
  BY <1>7, <1>8, ParamsNone DEF IsKnownContent
<1>10. HasField(m, n) /\ n > 0
  BY <1>4 DEF HasField
<1>11. IsField(m, b, P, P + 2)
  <2> HIDE DEF P, n
  <2>1. QED
    BY <1>1, <1>2, <1>5, <1>8, <1>9, <1>10, FieldOfTag
<1>12. \A j \in Nat : IsField(m, b, P, j) => j = P + 2
  <2> HIDE DEF P, n
  <2>1. QED
    BY <1>1, <1>2, <1>5, <1>8, <1>10, <1>11, KnownFieldUnique
<1>13. \A old : Holds(m, old, b, P, P + 2) = old
  <2> HIDE DEF P, n
  <2>1. QED
    BY <1>1, <1>2, <1>4, <1>5, <1>8, HoldsOf
<1>14. QED
  BY <1>3, <1>11, <1>12, <1>13

(***************************************************************************)
(* Marshal.                                                                *)
(***************************************************************************)
LEMMA PutIs ==
  ASSUME NEW b \in Seq(Byte), NEW i \in Int, NEW s \in Seq(Byte)
  PROVE  /\ Put(b, i, s) \in Seq(Byte) /\ Len(Put(b, i, s)) = Len(b)
         /\ \A p \in 1 .. Len(b) :
              Put(b, i, s)[p] = IF p \in i + 1 .. i + Len(s) THEN s[p - i] ELSE b[p]
<1>1. Len(b) \in Nat /\ DOMAIN b = 1 .. Len(b) /\ Len(s) \in Nat /\ DOMAIN s = 1 .. Len(s)
  OBVIOUS
<1>2. \A p \in 1 .. Len(b) : Put(b, i, s)[p] = IF p - i \in DOMAIN s THEN s[p - i] ELSE b[p]
  BY <1>1 DEF Put
<1>3. \A p \in 1 .. Len(b) : p - i \in DOMAIN s <=> p \in i + 1 .. i + Len(s)
  BY <1>1
<1>4. ASSUME NEW p \in 1 .. Len(b) PROVE Put(b, i, s)[p] \in Byte
  <2>1. CASE p - i \in DOMAIN s
    <3>1. s[p - i] \in Byte
      <4> DEFINE q == p - i
      <4>1. q \in DOMAIN s
        BY <2>1
      <4> HIDE DEF q
      <4>2. s[q] \in Byte
        BY <4>1
      <4>3. QED
        BY <4>2 DEF q
    <3>2. QED
      BY <1>2, <2>1, <3>1
  <2>2. CASE p - i \notin DOMAIN s
    BY <1>1, <1>2, <2>2
  <2>3. QED
    BY <2>1, <2>2
<1>5. Put(b, i, s) \in [1 .. Len(b) -> Byte]
  <2>1. Put(b, i, s) = [p \in 1 .. Len(b) |-> Put(b, i, s)[p]]
    BY <1>1 DEF Put
  <2>2. QED
    BY <1>4, <2>1
<1>6. Put(b, i, s) \in Seq(Byte) /\ Len(Put(b, i, s)) = Len(b)
  BY <1>1, <1>5
<1>7. QED
  BY <1>2, <1>3, <1>6

(* Contents, length and tag of the authority.                              *)
LEMMA StringWritten ==
  ASSUME NEW m, NEW a, Encodable(m, a), a # <<>>, NEW b \in Seq(Byte), Len(b) = Size(m, a),
         NEW c, c = Put(Put(Put(b, 1 + sov(Len(a)), a), 1, VarintOf(Len(a))), 0, << 10 >>)
  PROVE  /\ c \in Seq(Byte) /\ Len(c) = Len(b) /\ StringAt(a, c)
         /\ \A p \in StringEnd(a) + 1 .. Len(b) : c[p] = b[p]
<1> DEFINE L == Len(a)
           G == sov(L)
           v == VarintOf(L)
           P == StringEnd(a)
           x == Put(b, 1 + G, a)
           y == Put(x, 1, v)
           t == <<10>>
<1>1. /\ L \in Nat /\ G \in Nat /\ G >= 1 /\ G = Groups(L) /\ L > 0 /\ P = (1 + G) + L /\ P \in Nat
  BY StringEndRange
<1>2. Len(b) \in Nat /\ P <= Len(b)
  BY <1>1, SizeIs
<1>3. a \in Seq(Byte)
  BY DEF Encodable
<1>4. v \in Seq(Byte) /\ Len(v) = G
  BY <1>1, VarintOfBytes
<1>5. t \in Seq(Byte) /\ Len(t) = 1 /\ t[1] = 10
  <2>1. 10 \in Byte
    BY GroupAssumption, WidthsAssumption DEF Byte
  <2>2. QED
    BY <2>1
<1> HIDE DEF t
<1>6. /\ x \in Seq(Byte) /\ Len(x) = Len(b)
      /\ \A p \in 1 .. Len(b) : x[p] = IF p \in (1 + G) + 1 .. (1 + G) + L THEN a[p - (1 + G)] ELSE b[p]
  <2>1. 1 + G \in Int
    BY <1>1
  <2> DEFINE g == 1 + G
  <2> HIDE DEF g, G, L, v, P
  <2>2. /\ Put(b, g, a) \in Seq(Byte) /\ Len(Put(b, g, a)) = Len(b)
        /\ \A p \in 1 .. Len(b) :
              Put(b, g, a)[p] = IF p \in g + 1 .. g + Len(a) THEN a[p - g] ELSE b[p]
    BY <1>3, <2>1, PutIs DEF g
  <2>3. QED
    BY <2>2 DEF g, L
<1> HIDE DEF x
<1>7. /\ y \in Seq(Byte) /\ Len(y) = Len(b)
      /\ \A p \in 1 .. Len(b) : y[p] = IF p \in 1 + 1 .. 1 + G THEN v[p - 1] ELSE x[p]
  <2> HIDE DEF v
  <2>1. /\ Put(x, 1, v) \in Seq(Byte) /\ Len(Put(x, 1, v)) = Len(x)
        /\ \A p \in 1 .. Len(x) :
              Put(x, 1, v)[p] = IF p \in 1 + 1 .. 1 + Len(v) THEN v[p - 1] ELSE x[p]
    BY <1>4, <1>6, PutIs
  <2>2. QED
    BY <1>4, <1>6, <2>1
<1>8. c = Put(y, 0, t)
  BY DEF x, t
<1> HIDE DEF y
<1>9. /\ c \in Seq(Byte) /\ Len(c) = Len(b)
      /\ \A p \in 1 .. Len(b) : c[p] = IF p \in 0 + 1 .. 0 + 1 THEN t[p - 0] ELSE y[p]
  BY <1>5, <1>7, <1>8, PutIs
<1> HIDE DEF v, P, G, L
<1>10. c[1] = 10
  <2>1. 1 \in 1 .. Len(b) /\ 1 \in 0 + 1 .. 0 + 1 /\ 1 - 0 = 1
    BY <1>1, <1>2
  <2>2. QED
    BY <1>5, <1>9, <2>1
<1>11. \A p \in 2 .. Len(b) : c[p] = y[p]
  BY <1>9
<1>12. \A k \in 1 .. G : c[1 + k] = v[k]
  <2>1. TAKE k \in 1 .. G
  <2>2. 1 + k \in 2 .. Len(b) /\ 1 + k \in 1 .. Len(b) /\ 1 + k \in 1 + 1 .. 1 + G /\ (1 + k) - 1 = k
    BY <1>1, <1>2
  <2>3. y[1 + k] = v[(1 + k) - 1]
    BY <1>7, <2>2
  <2>4. QED
    BY <1>11, <2>2, <2>3
<1>13. \A k \in 1 .. L : c[(1 + G) + k] = a[k]
  <2>1. TAKE k \in 1 .. L
  <2> DEFINE p == (1 + G) + k
  <2>2. /\ p \in 2 .. Len(b) /\ p \in 1 .. Len(b) /\ ~(p \in 1 + 1 .. 1 + G)
        /\ p \in (1 + G) + 1 .. (1 + G) + L /\ p - (1 + G) = k
    BY <1>1, <1>2
  <2> HIDE DEF p
  <2>3. c[p] = x[p]
    BY <1>7, <1>11, <2>2
  <2>4. x[p] = a[p - (1 + G)]
    BY <1>6, <2>2
  <2>5. QED
    BY <2>2, <2>3, <2>4 DEF p
<1>14. \A p \in P + 1 .. Len(b) : c[p] = b[p]
  <2>1. TAKE p \in P + 1 .. Len(b)
  <2>2. /\ p \in 2 .. Len(b) /\ p \in 1 .. Len(b) /\ ~(p \in 1 + 1 .. 1 + G)
        /\ ~(p \in (1 + G) + 1 .. (1 + G) + L)
    BY <1>1, <1>2
  <2>3. QED
    BY <1>6, <1>7, <1>11, <2>2
<1>15. StringAt(a, c)
  <2>1. 1 + G <= Len(c)
    BY <1>1, <1>2, <1>9
  <2>2. Written(c, 1, L)
    BY <1>1, <1>12, <2>1 DEF Written, v
  <2>3. QED
    BY <1>10, <1>13, <2>2 DEF StringAt, L, G
<1>16. QED
  BY <1>9, <1>14, <1>15 DEF P

(* No contents, a length of zero and the tag of Params.                    *)
LEMMA ParamsWritten ==
  ASSUME NEW m, HasParams(m), NEW b \in Seq(Byte), NEW p \in Nat, p + 2 = Len(b),
         NEW c, c = Put(Put(Put(b, p + 2, <<>>), p + 1, VarintOf(0)), p, <<8 * ParamsNumber(m) + 2>>)
  PROVE  c \in Seq(Byte) /\ Len(c) = Len(b) /\ ParamsAt(m, c, p)
<1> DEFINE v == VarintOf(0)
           t == <<8 * ParamsNumber(m) + 2>>
           e == <<>>
           x == Put(b, p + 2, e)
           y == Put(x, p + 1, v)
<1>1. Groups(0) = 1
  <2>1. sov(0) \in 1 .. 0 + 1 /\ sov(0) = Groups(0)
    BY SovIsGroups
  <2>2. QED
    BY <2>1
<1>2. v \in Seq(Byte) /\ Len(v) = 1 /\ v[1] = 0
  <2>1. v \in Seq(Byte) /\ Len(v) = 1
    BY <1>1, VarintOfBytes
  <2>2. v[1] % High = (0 \div Weight[1 - 1]) % High /\ v[1] < High /\ v[1] \in Byte
    BY <1>1, GroupDigit
  <2>3. High \in Nat /\ High > 0 /\ 1 - 1 = 0 /\ Weight[0] = 1 /\ 0 \div 1 = 0
    BY WidthsAssumption, Weights
  <2>4. (0 \div Weight[1 - 1]) % High = 0
    BY <2>3
  <2>5. v[1] \in Nat
    BY <2>2, <2>3 DEF Byte
  <2>6. ASSUME NEW d \in Nat, d < High PROVE d % High = d
    BY <2>3, <2>6
  <2>7. QED
    <3> HIDE DEF v
    <3>1. v[1] % High = v[1]
      BY <2>2, <2>5, <2>6
    <3>2. v[1] = 0
      BY <2>2, <2>4, <3>1
    <3>3. QED
      BY <2>1, <3>2
<1>3. t \in Seq(Byte) /\ Len(t) = 1 /\ t[1] = 8 * ParamsNumber(m) + 2
  <2>1. ParamsNumber(m) \in 1 .. 2
    BY ParamsNumberIs
  <2>2. High \in Nat /\ High > 18
    BY GroupAssumption, WidthsAssumption
  <2>3. 8 * ParamsNumber(m) + 2 \in Byte
    BY <2>1, <2>2 DEF Byte
  <2>4. QED
    BY <2>3
<1>4. e \in Seq(Byte)
  OBVIOUS
<1> HIDE DEF v, t, e
<1>5. x \in Seq(Byte) /\ Len(x) = Len(b)
  BY <1>4, PutIs
<1> HIDE DEF x
<1>6. /\ y \in Seq(Byte) /\ Len(y) = Len(b)
      /\ \A q \in 1 .. Len(b) : y[q] = IF q \in (p + 1) + 1 .. (p + 1) + 1 THEN v[q - (p + 1)] ELSE x[q]
  BY <1>2, <1>5, PutIs
<1> HIDE DEF y
<1>7. c = Put(y, p, t)
  BY DEF v, t, e, x, y
<1>8. /\ c \in Seq(Byte) /\ Len(c) = Len(b)
      /\ \A q \in 1 .. Len(b) : c[q] = IF q \in p + 1 .. p + 1 THEN t[q - p] ELSE y[q]
  <2>1. /\ Put(y, p, t) \in Seq(Byte) /\ Len(Put(y, p, t)) = Len(y)
        /\ \A q \in 1 .. Len(y) :
             Put(y, p, t)[q] = IF q \in p + 1 .. p + Len(t) THEN t[q - p] ELSE y[q]
    BY <1>3, <1>6, PutIs
  <2>2. QED
    BY <1>3, <1>6, <1>7, <2>1
<1>9. c[p + 1] = t[1]
  <2>1. p + 1 \in 1 .. Len(b) /\ p + 1 \in p + 1 .. p + 1 /\ (p + 1) - p = 1
    OBVIOUS
  <2>2. QED
    BY <1>8, <2>1
<1>10. c[p + 2] = v[1]
  <2>1. /\ p + 2 \in 1 .. Len(b) /\ ~(p + 2 \in p + 1 .. p + 1)
        /\ p + 2 \in (p + 1) + 1 .. (p + 1) + 1 /\ (p + 2) - (p + 1) = 1
    OBVIOUS
  <2>2. QED
    BY <1>6, <1>8, <2>1
<1>11. QED
  BY <1>2, <1>3, <1>8, <1>9, <1>10 DEF ParamsAt

(***************************************************************************)
(* The invariant of the codec.                                             *)
(***************************************************************************)
Unwritten == at = Size(kind, authority) /\ todo = Fields(kind, authority)
ParamsDone ==
  /\ HasParams(kind) /\ authority # <<>>
  /\ todo = <<[number |-> 1, bytes |-> authority]>>
  /\ at = StringEnd(authority) /\ ParamsAt(kind, buf, at)
AllDone == todo = <<>> /\ at = 0 /\ Encodes(kind, authority, buf)

Encoder ==
  /\ Encodable(kind, authority) /\ error \in Errors /\ buf \in Seq(Byte)
  /\ base = 0 /\ end = 0 /\ caller = -1 /\ index = 0 /\ pre = 0
  /\ pc = "marshal" => sent = <<>>
  /\ pc = "write" =>
       /\ sent = <<authority>> /\ Len(buf) = Size(kind, authority)
       /\ Unwritten \/ ParamsDone \/ AllDone

(* The message that was encoded is being read again.                       *)
Resent(a) ==
  /\ sent = <<a>> /\ Encodable(kind, a) /\ Encodes(kind, a, buf) /\ pc # "rejected"
  /\ \/ StartOfField = 0 /\ a # <<>> /\ authority = <<>>
     \/ StartOfField \in {StringEnd(a), Len(buf)} /\ authority = a

Decoder ==
  /\ DInv
  /\ sent = <<>> => 2 * Len(buf) < Half
  /\ sent # <<>> => \E a : Resent(a)

CInv ==
  /\ at \in Nat
  /\ Encoding => Encoder
  /\ ~Encoding => Decoder

(***************************************************************************)
(* Init.                                                                   *)
(***************************************************************************)
LEMMA InitDInv == ASSUME Init PROVE DInv
<1>1. Inv
  BY InitInv
<1>2. pc = "loop" /\ authority = <<>> /\ caller = -1
  BY DEF Init, Unmarshalling
<1>3. Consumed
  BY <1>2 DEF Consumed
<1>4. Progress
  BY <1>2 DEF Progress, Skipping, SkipReads
<1>5. QED
  BY <1>1, <1>2, <1>3, <1>4 DEF DInv, Fits

LEMMA CodecInitInv == ASSUME CodecInit PROVE CInv
<1>1. at \in Nat /\ sent = <<>>
  BY DEF CodecInit
<1>2. CASE Init
  <2>1. ~Encoding
    BY <1>2 DEF Init, Unmarshalling, Encoding
  <2>2. 2 * Len(buf) < Half
    BY <1>2, SizesAssumption DEF Init, Unmarshalling
  <2>3. QED
    BY <1>1, <1>2, <2>1, <2>2, InitDInv DEF CInv, Decoder
<1>3. ASSUME NEW m \in Messages, NEW a \in Authorities,
             (a # <<>> => StringField(m, 1)),
             buf = <<>>, kind = m, pc = "marshal", error = "none",
             base = 0, end = 0, caller = -1, index = 0, pre = 0, authority = a
      PROVE  CInv
  <2>1. a \in Seq(Byte) /\ 2 * Len(a) + 4 <= Half
    BY SizesAssumption
  <2>2. Encodable(kind, authority)
    BY <1>3, <2>1 DEF Encodable
  <2>3. buf \in Seq(Byte)
    BY <1>3, EmptySeq
  <2>4. Encoder
    BY <1>1, <1>3, <2>2, <2>3 DEF Encoder, Errors
  <2>5. Encoding
    BY <1>3 DEF Encoding
  <2>6. QED
    BY <1>1, <2>4, <2>5 DEF CInv
<1>4. QED
  BY <1>2, <1>3 DEF CodecInit

(***************************************************************************)
(* Decoding.                                                               *)
(***************************************************************************)
LEMMA NextDecodes == ASSUME Next PROVE ~Encoding
<1>1. UnmarshalStep \/ SkipStep
  BY Zenon DEF Next, Unmarshal, Skip, UnmarshalMsgUpdateParams, UnmarshalMsgUpdateParamsResponse,
     UnmarshalQueryParamsRequest, UnmarshalQueryParamsResponse, UnmarshalGenesisState,
     UnmarshalModule, UnmarshalParams, skipTx, skipQuery, skipGenesis, skipModule, skipParams
<1>2. ASSUME NEW reads \in {UnmarshalReads, SkipReads}, ReadVarint(reads) PROVE ~Encoding
  BY <1>2 DEF ReadVarint, Overflow, OutOfInput, ReadByte, UnmarshalReads, SkipReads, Encoding
<1>3. QED
  BY <1>1, <1>2 DEF UnmarshalStep, SkipStep, BeginField, RejectTag, KnownField, UnknownField,
     RejectLength, TakeString, EnterParams, LeaveParams, Accept, SkipBegin, SkipOutOfInput,
     RejectSkip, SkipValue, SkipFixed, SkipBytes, SkipGroup, SkipFurther, SkipReturn, RejectSkipped,
     Encoding

(* Of what was encoded nothing is refused, and the authority is read from  *)
(* the one field that has it.                                              *)
LEMMA ResentFields ==
  ASSUME DInv, NEW a, Resent(a), pc \notin {"accepted", "rejected"}
  PROVE  /\ ~Refuses
         /\ Takes => StartOfField' \in {StringEnd(a), Len(buf)} /\ authority' = a
<1>1. /\ Encodable(kind, a) /\ Encodes(kind, a, buf)
      /\ StringEnd(a) \in Nat /\ Len(buf) \in Nat
  BY StringEndRange DEF Resent, Encodes
<1>2. ASSUME StartOfField = 0, a # <<>>, authority = <<>>
      PROVE  ~Refuses /\ (Takes => StartOfField' \in {StringEnd(a), Len(buf)} /\ authority' = a)
  <2>1. /\ StringEnd(a) \in 1 .. Len(buf) /\ IsField(kind, buf, 0, StringEnd(a))
        /\ \A j \in Nat : IsField(kind, buf, 0, j) => j = StringEnd(a)
        /\ \A old : Holds(kind, old, buf, 0, StringEnd(a)) = a
    BY <1>1, <1>2, EncodedString
  <2>2. ~Refuses
    BY <1>2, <2>1 DEF Refuses
  <2>3. ASSUME Takes PROVE StartOfField' = StringEnd(a) /\ authority' = a
    <3>1. /\ StartOfField' \in 0 + 1 .. Len(buf) /\ IsField(kind, buf, 0, StartOfField')
          /\ authority' = Holds(kind, authority, buf, 0, StartOfField')
      BY <1>2, <2>3 DEF Takes
    <3>2. StartOfField' \in Nat
      BY <1>1, <3>1
    <3>3. StartOfField' = StringEnd(a)
      BY <2>1, <3>1, <3>2
    <3>4. QED
      BY <2>1, <3>1, <3>3
  <2>4. QED
    BY <2>2, <2>3
<1>3. ASSUME StartOfField \in {StringEnd(a), Len(buf)}, authority = a
      PROVE  ~Refuses /\ (Takes => StartOfField' \in {StringEnd(a), Len(buf)} /\ authority' = a)
  <2>1. ASSUME StartOfField = Len(buf)
        PROVE  ~Refuses /\ ~Takes
    BY <1>1, <2>1 DEF Refuses, Takes
  <2>2. ASSUME StartOfField = StringEnd(a), StringEnd(a) # Len(buf)
        PROVE  ~Refuses /\ (Takes => StartOfField' = Len(buf) /\ authority' = a)
    <3>1. HasParams(kind)
      <4>1. Len(buf) = Size(kind, a)
        BY <1>1 DEF Encodes
      <4>2. Size(kind, a) = StringEnd(a) + (IF HasParams(kind) THEN 2 ELSE 0)
        BY <1>1, SizeIs
      <4>3. QED
        BY <1>1, <2>2, <4>1, <4>2
    <3>2. /\ Len(buf) = StringEnd(a) + 2 /\ IsField(kind, buf, StringEnd(a), Len(buf))
          /\ \A j \in Nat : IsField(kind, buf, StringEnd(a), j) => j = Len(buf)
          /\ \A old : Holds(kind, old, buf, StringEnd(a), Len(buf)) = old
      BY <1>1, <3>1, EncodedParams
    <3>3. Len(buf) \in StringEnd(a) + 1 .. Len(buf)
      BY <1>1, <3>2
    <3>4. ~Refuses
      BY <2>2, <3>2, <3>3 DEF Refuses
    <3>5. ASSUME Takes PROVE StartOfField' = Len(buf) /\ authority' = a
      <4>1. /\ StartOfField' \in StringEnd(a) + 1 .. Len(buf)
            /\ IsField(kind, buf, StringEnd(a), StartOfField')
            /\ authority' = Holds(kind, authority, buf, StringEnd(a), StartOfField')
        BY <2>2, <3>5 DEF Takes
      <4>2. StartOfField' \in Nat
        BY <1>1, <4>1
      <4>3. StartOfField' = Len(buf)
        BY <3>2, <4>1, <4>2
      <4>4. QED
        BY <1>3, <3>2, <4>1, <4>3
    <3>6. QED
      BY <3>4, <3>5
  <2>3. QED
    BY <1>3, <2>1, <2>2
<1>4. QED
  BY <1>2, <1>3 DEF Resent

LEMMA ResentGoesOn ==
  ASSUME DInv, NEW a, Resent(a), Next, UNCHANGED encoder
  PROVE  Resent(a)'
<1>1. /\ pc \notin {"accepted", "rejected"} /\ UNCHANGED <<buf, kind>>
      /\ \/ pc' \notin {"accepted", "rejected"} /\ (Same \/ Takes)
         \/ pc' = "accepted" /\ Same /\ StartOfField = Len(buf)
         \/ pc' = "rejected" /\ Refuses
  BY DecoderSteps
<1>2. ~Refuses /\ (Takes => StartOfField' \in {StringEnd(a), Len(buf)} /\ authority' = a)
  BY <1>1, ResentFields
<1>3. pc' # "rejected" /\ (Same \/ Takes)
  BY <1>1, <1>2
<1>4. sent' = <<a>> /\ Encodable(kind', a) /\ Encodes(kind', a, buf')
  BY <1>1 DEF Resent, encoder
<1>5. \/ StartOfField' = 0 /\ a # <<>> /\ authority' = <<>>
      \/ StartOfField' \in {StringEnd(a), Len(buf)} /\ authority' = a
  <2>1. CASE Same
    BY <2>1 DEF Same, Resent
  <2>2. CASE Takes
    BY <1>2, <2>2
  <2>3. QED
    BY <1>3, <2>1, <2>2
<1>6. Len(buf') = Len(buf)
  BY <1>1
<1>7. QED
  BY <1>3, <1>4, <1>5, <1>6 DEF Resent

LEMMA NextCodec == ASSUME CInv, Next, UNCHANGED encoder PROVE CInv'
<1>1. ~Encoding /\ Decoder
  BY NextDecodes DEF CInv
<1>2. DInv' /\ UNCHANGED <<buf, kind>>
  BY <1>1, DecoderSteps DEF Decoder
<1>3. ~Encoding'
  BY <1>2 DEF DInv, Inv, TypeOK, Pcs, UnmarshalReads, SkipReads, Encoding
<1>4. sent' = sent /\ at' = at
  BY DEF encoder
<1>5. (sent = <<>> => 2 * Len(buf) < Half)'
  BY <1>1, <1>2, <1>4 DEF Decoder
<1>6. ASSUME sent' # <<>> PROVE \E a : Resent(a)'
  <2>1. PICK a : Resent(a)
    BY <1>1, <1>4, <1>6 DEF Decoder
  <2>2. Resent(a)'
    BY <1>1, <2>1, ResentGoesOn DEF Decoder
  <2>3. QED
    BY <2>2
<1>7. Decoder'
  BY <1>2, <1>5, <1>6 DEF Decoder
<1>8. QED
  BY <1>3, <1>4, <1>7 DEF CInv

(***************************************************************************)
(* Encoding.                                                               *)
(***************************************************************************)
LEMMA ReuseInv == ASSUME CInv, Reuse PROVE CInv'
<1>1. ~Encoding /\ Decoder /\ pc = "accepted" /\ sent = <<>>
  BY DEF Reuse, Encoding, CInv
<1>2. Inv /\ Fits /\ 2 * Len(buf) < Half /\ caller = -1
  BY <1>1 DEF Decoder, DInv, Progress
<1>3. /\ kind \in Messages /\ authority \in Seq(Byte) /\ buf \in Seq(Byte) /\ base = 0
      /\ error \in Errors
  BY <1>2 DEF Inv, TypeOK, Positions, Errors
<1>4. /\ pc' = "marshal" /\ buf' = <<>> /\ end' = 0 /\ index' = 0 /\ pre' = 0 /\ kind' = kind
      /\ error' = error /\ base' = base /\ caller' = caller /\ authority' = authority
      /\ at' = at /\ sent' = sent
  BY DEF Reuse, encoder
<1>5. Encodable(kind, authority)
  <2>1. Half \in Nat /\ Half > 4
    BY WidthsAssumption
  <2>2. CASE authority = <<>>
    <3>1. Len(authority) = 0
      BY <2>2
    <3>2. QED
      BY <1>3, <2>1, <2>2, <3>1 DEF Encodable
  <2>3. CASE authority # <<>>
    <3>1. StringField(kind, 1) /\ Len(authority) + 2 <= Len(buf)
      BY <1>2, <2>3 DEF Fits
    <3>2. Len(authority) \in Nat /\ Len(buf) \in Nat
      BY <1>3
    <3>3. 2 * Len(authority) + 4 <= Half
      BY <1>2, <2>1, <3>1, <3>2
    <3>4. QED
      BY <1>3, <3>1, <3>3 DEF Encodable
  <2>4. QED
    BY <2>2, <2>3
<1>6. buf' \in Seq(Byte)
  BY <1>4, EmptySeq
<1>7. Encoder'
  BY <1>1, <1>2, <1>3, <1>4, <1>5, <1>6 DEF Encoder, Errors
<1>8. Encoding'
  BY <1>4 DEF Encoding
<1>9. QED
  BY <1>4, <1>7, <1>8 DEF CInv

LEMMA BeginMarshalInv == ASSUME CInv, NEW m, BeginMarshal(m) PROVE CInv'
<1>1. Encoder /\ pc = "marshal"
  BY DEF BeginMarshal, Encoding, CInv
<1>2. Size(kind, authority) \in Nat
  BY <1>1, SizeIs DEF Encoder
<1> DEFINE N == Size(kind, authority)
<1>3. /\ buf' = [p \in 1 .. N |-> 0] /\ at' = N /\ todo' = Fields(kind, authority)
      /\ sent' = <<authority>> /\ pc' = "write"
      /\ UNCHANGED <<kind, error, base, end, caller, index, pre, authority>>
  BY DEF BeginMarshal, call
<1>4. buf' \in Seq(Byte) /\ Len(buf') = N
  <2>1. 0 \in Byte
    BY WidthsAssumption DEF Byte
  <2> HIDE DEF N
  <2>2. N \in Nat
    BY <1>2 DEF N
  <2>3. buf' \in [1 .. N -> Byte]
    BY <1>3, <2>1
  <2>4. QED
    BY <2>2, <2>3
<1>5. Unwritten'
  BY <1>3 DEF Unwritten
<1>6. Encoder'
  BY <1>1, <1>3, <1>4, <1>5 DEF Encoder
<1>7. Encoding' /\ at' \in Nat
  BY <1>2, <1>3 DEF Encoding
<1>8. QED
  BY <1>6, <1>7 DEF CInv

LEMMA NothingToWrite == ASSUME Encoder, pc = "write", todo = <<>> PROVE AllDone
<1>1. Encodable(kind, authority) /\ Len(buf) = Size(kind, authority) /\ buf \in Seq(Byte)
  BY DEF Encoder
<1>2. CASE Unwritten
  <2> DEFINE P == IF HasParams(kind) THEN <<[number |-> ParamsNumber(kind), bytes |-> <<>>]>> ELSE <<>>
             S == IF authority = <<>> THEN <<>> ELSE <<[number |-> 1, bytes |-> authority]>>
  <2>1. P \o S = <<>>
    BY <1>1, <1>2, FieldsAre DEF Unwritten
  <2>2. ~HasParams(kind) /\ authority = <<>>
    <3>1. CASE HasParams(kind)
      BY <2>1, <3>1
    <3>2. CASE authority # <<>>
      BY <2>1, <3>2
    <3>3. QED
      BY <3>1, <3>2
  <2>3. StringEnd(authority) = 0
    BY <2>2 DEF StringEnd
  <2>4. Size(kind, authority) = 0
    BY <1>1, <2>2, <2>3, SizeIs
  <2>5. QED
    BY <1>1, <1>2, <2>2, <2>4 DEF Unwritten, AllDone, Encodes
<1>3. CASE ParamsDone
  BY <1>3 DEF ParamsDone
<1>4. QED
  BY <1>2, <1>3 DEF Encoder

(* Params, which come first, and then the authority.                       *)
LEMMA WriteParams ==
  ASSUME Encoder, pc = "write", Unwritten, HasParams(kind), NEW m, WriteField(m)
  PROVE  /\ buf' \in Seq(Byte) /\ Len(buf') = Len(buf) /\ at' \in Nat
         /\ ParamsDone' \/ AllDone'
<1> DEFINE P == StringEnd(authority)
           n == ParamsNumber(kind)
           f == [number |-> n, bytes |-> <<>>]
           S == IF authority = <<>> THEN <<>> ELSE <<[number |-> 1, bytes |-> authority]>>
<1>1. /\ Encodable(kind, authority) /\ buf \in Seq(Byte) /\ Len(buf) = Size(kind, authority)
  BY DEF Encoder
<1>2. P \in Nat /\ Len(buf) = P + 2 /\ at = P + 2
  BY <1>1, StringEndRange, SizeIs DEF Unwritten
<1>3. todo = <<f>> \o S
  BY <1>1, FieldsAre DEF Unwritten
<1> HIDE DEF P
<1>4. Head(todo) = f /\ Tail(todo) = S
  <2> HIDE DEF f
  <2>1. S \in Seq({S[1]})
    <3>1. CASE authority = <<>>
      BY <3>1, EmptySeq
    <3>2. CASE authority # <<>>
      BY <3>2
    <3>3. QED
      BY <3>1, <3>2
  <2> HIDE DEF S
  <2>2. QED
    BY <1>3, <2>1
<1>5. f.number = n /\ f.bytes = <<>> /\ Len(f.bytes) = 0
  OBVIOUS
<1>6. sov(0) = 1
  BY SovIsGroups
<1> HIDE DEF f, n, S
<1>7. /\ buf' = Put(Put(Put(buf, P + 2, <<>>), P + 1, VarintOf(0)), P, <<8 * n + 2>>)
      /\ at' = P
  <2>1. at - 0 = P + 2 /\ (P + 2) - 1 = P + 1 /\ (P + 1) - 1 = P
    BY <1>2
  <2>2. /\ buf' = Put(Put(Put(buf, at - 0, <<>>), (at - 0) - sov(0), VarintOf(0)),
                      ((at - 0) - sov(0)) - 1, <<8 * n + 2>>)
        /\ at' = ((at - 0) - sov(0)) - 1
    BY <1>4, <1>5, Zenon DEF WriteField
  <2>3. QED
    BY <1>6, <2>1, <2>2
<1>8. /\ todo' = S /\ UNCHANGED <<kind, authority>>
  BY <1>4 DEF WriteField
<1>9. buf' \in Seq(Byte) /\ Len(buf') = Len(buf) /\ ParamsAt(kind, buf', P)
  BY <1>1, <1>2, <1>7, ParamsWritten DEF n
<1>10. CASE authority = <<>>
  <2>1. P = 0
    BY <1>10 DEF P, StringEnd
  <2>2. Encodes(kind, authority, buf')
    BY <1>1, <1>9, <1>10 DEF Encodes, P
  <2>3. AllDone'
    BY <1>7, <1>8, <1>10, <2>1, <2>2 DEF AllDone, S
  <2>4. QED
    BY <1>2, <1>7, <1>9, <2>3
<1>11. CASE authority # <<>>
  <2>1. ParamsDone'
    BY <1>7, <1>8, <1>9, <1>11 DEF ParamsDone, S, P
  <2>2. QED
    BY <1>2, <1>7, <1>9, <2>1
<1>12. QED
  BY <1>10, <1>11

LEMMA WriteString ==
  ASSUME Encoder, pc = "write", NEW m, WriteField(m), authority # <<>>,
         todo = <<[number |-> 1, bytes |-> authority]>>, at = StringEnd(authority),
         HasParams(kind) => ParamsAt(kind, buf, at)
  PROVE  /\ buf' \in Seq(Byte) /\ Len(buf') = Len(buf) /\ at' \in Nat /\ AllDone'
<1> DEFINE P == StringEnd(authority)
           L == Len(authority)
           f == [number |-> 1, bytes |-> authority]
<1>1. /\ Encodable(kind, authority) /\ buf \in Seq(Byte) /\ Len(buf) = Size(kind, authority)
  BY DEF Encoder
<1>2. L \in Nat /\ sov(L) \in Nat /\ P = (1 + sov(L)) + L /\ P \in Nat
  BY <1>1, StringEndRange
<1>3. Head(todo) = f /\ Tail(todo) = <<>>
  OBVIOUS
<1>4. f.number = 1 /\ f.bytes = authority /\ Len(f.bytes) = L /\ 8 * 1 + 2 = 10
  OBVIOUS
<1> HIDE DEF f, L, P
<1>5. /\ buf' = Put(Put(Put(buf, 1 + sov(L), authority), 1, VarintOf(L)), 0, <<10>>)
      /\ at' = 0
  <2>1. at - L = 1 + sov(L) /\ (1 + sov(L)) - sov(L) = 1 /\ 1 - 1 = 0
    BY <1>2 DEF P
  <2>2. /\ buf' = Put(Put(Put(buf, at - L, authority), (at - L) - sov(L), VarintOf(L)),
                      ((at - L) - sov(L)) - 1, <<8 * 1 + 2>>)
        /\ at' = ((at - L) - sov(L)) - 1
    BY <1>3, <1>4, Zenon DEF WriteField
  <2>3. QED
    BY <1>4, <2>1, <2>2
<1>6. /\ buf' \in Seq(Byte) /\ Len(buf') = Len(buf) /\ StringAt(authority, buf')
      /\ \A p \in P + 1 .. Len(buf) : buf'[p] = buf[p]
  BY <1>1, <1>5, StringWritten DEF L, P
<1>7. todo' = <<>> /\ UNCHANGED <<kind, authority>>
  BY <1>3 DEF WriteField
<1>8. ASSUME HasParams(kind) PROVE ParamsAt(kind, buf', P)
  <2>1. Len(buf) = P + 2
    BY <1>1, <1>8, SizeIs DEF P
  <2>2. P + 1 \in P + 1 .. Len(buf) /\ P + 2 \in P + 1 .. Len(buf)
    BY <1>2, <2>1
  <2>3. ParamsAt(kind, buf, P)
    BY <1>8 DEF P
  <2>4. QED
    BY <1>6, <2>2, <2>3 DEF ParamsAt
<1>9. Encodes(kind, authority, buf')
  BY <1>1, <1>6, <1>8 DEF Encodes, P
<1>10. AllDone'
  BY <1>5, <1>7, <1>9 DEF AllDone
<1>11. QED
  BY <1>5, <1>6, <1>10

LEMMA WriteFieldInv == ASSUME CInv, NEW m, WriteField(m) PROVE CInv'
<1>1. Encoder /\ pc = "write" /\ todo # <<>>
  BY DEF WriteField, Encoding, CInv
<1>2. Encodable(kind, authority)
  BY <1>1 DEF Encoder
<1>3. buf' \in Seq(Byte) /\ Len(buf') = Len(buf) /\ at' \in Nat /\ (ParamsDone' \/ AllDone')
  <2>1. CASE AllDone
    BY <1>1, <2>1 DEF AllDone
  <2>2. CASE ParamsDone
    BY <1>1, <2>2, WriteString DEF ParamsDone
  <2>3. CASE Unwritten /\ HasParams(kind)
    BY <1>1, <2>3, WriteParams
  <2>4. CASE Unwritten /\ ~HasParams(kind)
    <3> DEFINE S == IF authority = <<>> THEN <<>> ELSE <<[number |-> 1, bytes |-> authority]>>
    <3>1. todo = <<>> \o S
      BY <1>2, <2>4, FieldsAre DEF Unwritten
    <3>2. authority # <<>> /\ todo = <<[number |-> 1, bytes |-> authority]>>
      BY <1>1, <3>1
    <3>3. at = StringEnd(authority)
      <4>1. Size(kind, authority) = StringEnd(authority) + (IF HasParams(kind) THEN 2 ELSE 0)
            /\ StringEnd(authority) \in Nat
        BY <1>2, SizeIs, StringEndRange
      <4>2. QED
        BY <2>4, <4>1 DEF Unwritten
    <3>4. QED
      BY <1>1, <2>4, <3>2, <3>3, WriteString
  <2>5. QED
    BY <1>1, <2>1, <2>2, <2>3, <2>4 DEF Encoder
<1>4. UNCHANGED <<kind, pc, error, base, end, caller, index, pre, authority, sent>>
  BY DEF WriteField, call
<1>5. Encoder'
  BY <1>1, <1>3, <1>4 DEF Encoder
<1>6. Encoding'
  BY <1>1, <1>4 DEF Encoding
<1>7. QED
  BY <1>3, <1>5, <1>6 DEF CInv

LEMMA EndMarshalInv ==
  ASSUME CInv, NEW m, EndMarshal(m)
  PROVE  CInv' /\ buf' = buf /\ buf \in Seq(Byte)
<1>1. Encoder /\ pc = "write" /\ todo = <<>>
  BY DEF EndMarshal, Encoding, CInv
<1>2. AllDone /\ buf \in Seq(Byte) /\ sent = <<authority>> /\ Encodable(kind, authority)
      /\ Len(buf) = Size(kind, authority)
  BY <1>1, NothingToWrite DEF Encoder
<1>3. Len(buf) \in Nat /\ Len(buf) < Half /\ at = 0
  BY <1>2, SizeIs DEF AllDone
<1>4. buf' = buf /\ end' = Len(buf)
  <2>1. Len(buf) - at = Len(buf)
    BY <1>3
  <2>2. SubSeq(buf, 1, Len(buf)) = buf
    BY <1>2
  <2>3. QED
    BY <2>1, <2>2 DEF EndMarshal
<1>5. /\ pc' = "loop" /\ authority' = <<>> /\ index' = 0 /\ pre' = 0 /\ scale' = 1 /\ value' = 0
      /\ field' = 0 /\ depth' = 0 /\ kind' = kind /\ error' = error /\ base' = 0 /\ caller' = -1
      /\ at' = at /\ sent' = sent
  BY <1>1 DEF EndMarshal, Encoder, encoder
<1>6. TypeOK'
  <2>1. authority' \in Seq(Byte)
    BY <1>5, EmptySeq
  <2>2. value' \in 0 .. 2 * Half - 1
    BY <1>5, WidthsAssumption
  <2>3. kind' \in Messages /\ error' \in Errors
    BY <1>1, <1>2, <1>5 DEF Encodable, Encoder
  <2>4. pc' \in Pcs
    BY <1>5 DEF Pcs
  <2>5. buf' \in Seq(Byte) /\ end' \in Int
    BY <1>2, <1>3, <1>4
  <2>6. /\ base' \in Int /\ caller' \in Int /\ index' \in Int /\ pre' \in Int
        /\ scale' \in Nat /\ field' \in Int /\ depth' \in Nat
    BY <1>5
  <2>7. QED
    BY <2>1, <2>2, <2>3, <2>4, <2>5, <2>6 DEF TypeOK, Errors
<1>7. InBounds'
  BY <1>2, <1>3, <1>4, <1>5 DEF InBounds, UnmarshalReads, SkipReads
<1>8. Positions'
  BY <1>2, <1>3, <1>4, <1>5 DEF Positions, SkipReads
<1>9. DInv'
  BY <1>5, <1>6, <1>7, <1>8 DEF DInv, Inv, Consumed, Progress, Skipping, SkipReads, Fits
<1>10. PICK a : a = authority
  OBVIOUS
<1>11. Resent(a)'
  <2>1. sent' = <<a>> /\ Encodable(kind', a) /\ Encodes(kind', a, buf')
    BY <1>2, <1>4, <1>5, <1>10 DEF AllDone
  <2>2. StartOfField' = 0
    BY <1>5 DEF StartOfField
  <2>3. a # <<>> \/ (a = <<>> /\ StringEnd(a) = 0)
    BY DEF StringEnd
  <2>4. QED
    BY <1>5, <2>1, <2>2, <2>3 DEF Resent
<1>12. Decoder'
  <2>1. sent' # <<>>
    BY <1>2, <1>5
  <2>2. QED
    BY <1>9, <1>11, <2>1 DEF Decoder
<1>13. ~Encoding'
  BY <1>5 DEF Encoding
<1>14. QED
  BY <1>2, <1>3, <1>4, <1>5, <1>12, <1>13 DEF CInv

LEMMA CodecStutters == ASSUME CInv, UNCHANGED vars PROVE CInv'
<1>1. /\ UNCHANGED <<buf, kind, pc, error, base, end, caller, index, pre, scale, value, field, depth>>
      /\ UNCHANGED <<authority, at, todo, sent>>
  BY DEF vars, decoder
<1>2. CASE Encoding
  <2>1. Encoder'
    BY <1>1, <1>2 DEF CInv, Encoder, Unwritten, ParamsDone, AllDone
  <2>2. QED
    BY <1>1, <1>2, <2>1 DEF CInv, Encoding
<1>3. CASE ~Encoding
  <2>1. Inv'
    BY <1>1, <1>3, StutterInv DEF CInv, Decoder, DInv, decoder
  <2>2. Consumed' /\ Fits'
    BY <1>1, <1>3 DEF CInv, Decoder, DInv, Consumed, Fits
  <2>3. Progress'
    BY <1>1, <1>3 DEF CInv, Decoder, DInv, Progress, Reading, HasRead, KnownTag, UnknownTag,
       SkipsFrom, SkipsValue, SkipsTo, Current
  <2>4. (caller # -1 /\ pc # "rejected" => Nested)'
    BY <1>1, <1>3 DEF CInv, Decoder, DInv, Nested, ParamsFrom
  <2>5. (sent # <<>> => \E a : Resent(a))'
    BY <1>1, <1>3 DEF CInv, Decoder, Resent, StartOfField
  <2>6. Decoder'
    BY <1>1, <1>3, <2>1, <2>2, <2>3, <2>4, <2>5 DEF CInv, Decoder, DInv
  <2>7. QED
    BY <1>1, <1>3, <2>6 DEF CInv, Encoding
<1>4. QED
  BY <1>2, <1>3

(***************************************************************************)
(* The theorems about the codec.                                           *)
(***************************************************************************)
(* Every generated Marshal function is one of its steps.                   *)
LEMMA CodecNextCases ==
  ASSUME CodecNext
  PROVE  \/ Next /\ UNCHANGED encoder
         \/ \E m : BeginMarshal(m)
         \/ \E m : WriteField(m)
         \/ \E m : EndMarshal(m)
         \/ Reuse
<1>1. ASSUME NEW m, Marshal(m)
      PROVE  (\E k : BeginMarshal(k)) \/ (\E k : WriteField(k)) \/ (\E k : EndMarshal(k))
  BY <1>1 DEF Marshal
<1>2. QED
  BY <1>1, Zenon DEF CodecNext, MarshalMsgUpdateParams, MarshalMsgUpdateParamsResponse,
     MarshalQueryParamsRequest, MarshalQueryParamsResponse, MarshalGenesisState, MarshalModule,
     MarshalParams

LEMMA CodecNextInv == ASSUME CInv, CodecNext PROVE CInv'
<1>1. ASSUME NEW m, BeginMarshal(m) PROVE CInv'
  BY <1>1, BeginMarshalInv
<1>2. ASSUME NEW m, WriteField(m) PROVE CInv'
  BY <1>2, WriteFieldInv
<1>3. ASSUME NEW m, EndMarshal(m) PROVE CInv'
  BY <1>3, EndMarshalInv
<1>4. QED
  BY <1>1, <1>2, <1>3, CodecNextCases, NextCodec, ReuseInv

(* The invariant of the codec holds for widths, inputs and authorities of  *)
(* any size.                                                               *)
THEOREM CodecInvariant == CodecSpec => []CInv
<1>1. CodecInit => CInv
  BY CodecInitInv
<1>2. CInv /\ [CodecNext]_vars => CInv'
  BY CodecNextInv, CodecStutters
<1>3. QED
  BY <1>1, <1>2, PTL DEF CodecSpec

(* Every variable keeps its type.                                          *)
THEOREM CodecTypes == CodecSpec => []CodecTypeOK
<1>1. ASSUME CInv PROVE CodecTypeOK
  <2>1. at \in Nat
    BY <1>1 DEF CInv
  <2>2. CASE Encoding
    <3>1. authority \in Seq(Byte) /\ (pc = "marshal" => sent = <<>>) /\ (pc = "write" => sent = <<authority>>)
      BY <1>1, <2>2 DEF CInv, Encoder, Encodable
    <3>2. QED
      BY <2>1, <2>2, <3>1 DEF CodecTypeOK, Encoding
  <2>3. CASE ~Encoding
    <3>1. TypeOK
      BY <1>1, <2>3 DEF CInv, Decoder, DInv, Inv
    <3>2. CASE sent # <<>>
      <4>1. PICK a : Resent(a)
        BY <1>1, <2>3, <3>2 DEF CInv, Decoder
      <4>2. sent = <<a>> /\ a \in Seq(Byte)
        BY <4>1 DEF Resent, Encodable
      <4>3. QED
        BY <2>1, <3>1, <4>2 DEF CodecTypeOK
    <3>3. QED
      BY <2>1, <3>1, <3>2 DEF CodecTypeOK
  <2>4. QED
    BY <2>2, <2>3
<1>2. QED
  BY <1>1, CodecInvariant, PTL

(* The functions stay within the buffer when they decode what they encoded *)
(* themselves, too.                                                        *)
THEOREM CodecInBounds == CodecSpec => []InBounds
<1>1. ASSUME CInv PROVE InBounds
  <2>1. CASE Encoding
    <3>1. base = 0 /\ end = 0 /\ index = 0 /\ pre = 0 /\ Len(buf) \in Nat
      BY <1>1, <2>1 DEF CInv, Encoder
    <3>2. pc \notin UnmarshalReads \cup SkipReads /\ pc # "accepted"
      BY <2>1 DEF Encoding, UnmarshalReads, SkipReads
    <3>3. QED
      BY <3>1, <3>2 DEF InBounds
  <2>2. CASE ~Encoding
    BY <1>1, <2>2 DEF CInv, Decoder, DInv, Inv
  <2>3. QED
    BY <2>1, <2>2
<1>2. QED
  BY <1>1, CodecInvariant, PTL

(* A message that was read from any bytes, or built with any authority, is *)
(* encoded into exactly the size computed for it, and what is encoded is   *)
(* accepted and gives the same message.                                    *)
THEOREM CodecRoundTrip == CodecSpec => []RoundTrip
<1>1. ASSUME CInv PROVE RoundTrip
  <2>1. ASSUME pc = "write", todo = <<>> PROVE at = 0
    <3>1. Encoder
      BY <1>1, <2>1 DEF CInv, Encoding
    <3>2. QED
      BY <2>1, <3>1, NothingToWrite DEF AllDone
  <2>2. ASSUME sent # <<>>, ~Encoding
        PROVE  pc # "rejected" /\ (pc = "accepted" => sent = <<authority>>)
    <3>1. DInv /\ \E a : Resent(a)
      BY <1>1, <2>2 DEF CInv, Decoder
    <3>2. PICK a : Resent(a)
      BY <3>1
    <3>3. ASSUME pc = "accepted" PROVE authority = a
      <4>1. StartOfField = Len(buf)
        <5>1. caller = -1
          BY <3>1, <3>3 DEF DInv, Progress
        <5>2. index = Len(buf)
          BY <3>1, <3>3 DEF DInv, Inv, InBounds
        <5>3. QED
          BY <3>3, <5>1, <5>2 DEF StartOfField
      <4>2. ASSUME a # <<>> PROVE Len(buf) # 0
        <5>1. Encodable(kind, a) /\ Encodes(kind, a, buf)
          BY <3>2 DEF Resent
        <5>2. StringEnd(a) \in 1 .. Len(buf)
          BY <4>2, <5>1, EncodedString
        <5>3. QED
          BY <5>2
      <4>3. QED
        BY <3>2, <4>1, <4>2 DEF Resent
    <3>4. QED
      BY <3>2, <3>3 DEF Resent
  <2>3. QED
    BY <2>1, <2>2 DEF RoundTrip, Encoding
<1>2. QED
  BY <1>1, CodecInvariant, PTL

(***************************************************************************)
(* The codec implements the grammar.                                       *)
(***************************************************************************)
(* The grammar's own copies of the definitions of the syntax are the same. *)
LEMMA GrammarBytes == Grammar!Byte = Byte /\ Grammar!Messages = Messages
BY DEF Byte, Grammar!Byte, Messages, Grammar!Messages

LEMMA GrammarFields == \A m, s, i, j : Grammar!IsField(m, s, i, j) <=> IsField(m, s, i, j)
BY DEF IsField, Grammar!IsField, Weight, Grammar!Weight, IsVarint, Grammar!IsVarint,
   Sums, Grammar!Sums, ValueOf, Grammar!ValueOf, Items, Grammar!Items,
   IsContent, Grammar!IsContent, Int64, Grammar!Int64, IsBytes, Grammar!IsBytes,
   IsBytesAt, Grammar!IsBytesAt, IsGroup, Grammar!IsGroup, IsEndGroup, Grammar!IsEndGroup,
   Splits, Grammar!Splits, IsParams, Grammar!IsParams, IsUnknownField, Grammar!IsUnknownField,
   FieldNumber, Grammar!FieldNumber, WireType, Grammar!WireType,
   StringField, Grammar!StringField, ParamsField, Grammar!ParamsField

LEMMA GrammarHolds ==
  \A m, old, s, i, j : Grammar!Holds(m, old, s, i, j) = Holds(m, old, s, i, j)
BY DEF Holds, Grammar!Holds, Weight, Grammar!Weight, IsVarint, Grammar!IsVarint,
   Sums, Grammar!Sums, ValueOf, Grammar!ValueOf, FieldNumber, Grammar!FieldNumber,
   WireType, Grammar!WireType, StringField, Grammar!StringField

(* What the reader of the grammar is, in the codec.                        *)
Verdict ==
  CASE Encoding -> "idle"
    [] pc \in {"accepted", "rejected"} -> pc
    [] OTHER -> "reading"

LEMMA Verdicts ==
  /\ Encoding => Verdict = "idle"
  /\ pc = "accepted" => Verdict = "accepted"
  /\ pc = "rejected" => Verdict = "rejected"
  /\ ~Encoding /\ pc \notin {"accepted", "rejected"} => Verdict = "reading"
BY DEF Verdict, Encoding

LEMMA VerdictsNext ==
  /\ Encoding' => Verdict' = "idle"
  /\ pc' = "accepted" => Verdict' = "accepted"
  /\ pc' = "rejected" => Verdict' = "rejected"
  /\ ~Encoding' /\ pc' \notin {"accepted", "rejected"} => Verdict' = "reading"
BY DEF Verdict, Encoding

LEMMA GrammarInit == ASSUME CodecInit PROVE Grammar!Init
<1>1. CInv
  BY CodecInitInv
<1>2. CASE Encoding
  <2>1. kind \in Messages
    BY <1>1, <1>2 DEF CInv, Encoder, Encodable
  <2>2. <<>> \in Seq(Byte)
    BY EmptySeq
  <2>3. Verdict = "idle"
    BY <1>2, Verdicts
  <2>4. QED
    BY <1>2, <2>1, <2>2, <2>3, GrammarBytes DEF Grammar!Init, Verdict
<1>3. CASE ~Encoding
  <2>1. pc = "loop" /\ authority = <<>> /\ StartOfField = 0
    BY <1>3 DEF CodecInit, Init, Unmarshalling, Encoding, StartOfField
  <2>2. kind \in Messages /\ buf \in Seq(Byte)
    BY <1>1, <1>3 DEF CInv, Decoder, DInv, Inv, TypeOK
  <2>3. Verdict = "reading"
    BY <1>3, <2>1, Verdicts
  <2>4. QED
    BY <1>3, <2>1, <2>2, <2>3, GrammarBytes DEF Grammar!Init, Verdict
<1>4. QED
  BY <1>2, <1>3

LEMMA GrammarDecodes ==
  ASSUME CInv, CInv', Next, UNCHANGED encoder
  PROVE  Grammar!Next \/ UNCHANGED Grammar!reader
<1>1. ~Encoding /\ DInv
  BY NextDecodes DEF CInv, Decoder
<1>2. /\ pc \notin {"accepted", "rejected"} /\ UNCHANGED <<buf, kind>> /\ DInv'
      /\ \/ pc' \notin {"accepted", "rejected"} /\ (Same \/ Takes)
         \/ pc' = "accepted" /\ Same /\ StartOfField = Len(buf)
         \/ pc' = "rejected" /\ Refuses
  BY <1>1, DecoderSteps
<1>3. ~Encoding'
  BY <1>2 DEF DInv, Inv, TypeOK, Pcs, UnmarshalReads, SkipReads, Encoding
<1>4. Verdict = "reading"
  BY <1>1, <1>2, Verdicts
<1>5. CASE pc' \notin {"accepted", "rejected"} /\ Same
  <2>1. Verdict' = "reading"
    BY <1>3, <1>5, VerdictsNext
  <2>2. UNCHANGED Grammar!reader
    BY <1>1, <1>2, <1>3, <1>4, <1>5, <2>1 DEF Grammar!reader, Verdict, Same
  <2>3. QED
    BY <2>2
<1>6. CASE pc' \notin {"accepted", "rejected"} /\ Takes
  <2>1. Verdict' = "reading"
    BY <1>3, <1>6, VerdictsNext
  <2>2. Grammar!TakeField
    BY <1>1, <1>2, <1>3, <1>4, <1>6, <2>1, GrammarFields, GrammarHolds
       DEF Grammar!TakeField, Verdict, Takes
  <2>3. QED
    BY <2>2 DEF Grammar!Next
<1>7. CASE pc' = "accepted" /\ Same /\ StartOfField = Len(buf)
  <2>1. Verdict' = "accepted"
    BY <1>7, VerdictsNext
  <2>2. Grammar!Accept
    BY <1>1, <1>2, <1>3, <1>4, <1>7, <2>1 DEF Grammar!Accept, Verdict, Same
  <2>3. QED
    BY <2>2 DEF Grammar!Next
<1>8. CASE pc' = "rejected" /\ Refuses
  <2>1. Verdict' = "rejected"
    BY <1>8, VerdictsNext
  <2>2. Grammar!Reject
    BY <1>1, <1>2, <1>3, <1>4, <1>8, <2>1, GrammarFields DEF Grammar!Reject, Verdict, Refuses, Same
  <2>3. QED
    BY <2>2 DEF Grammar!Next
<1>9. QED
  BY <1>2, <1>5, <1>6, <1>7, <1>8

LEMMA GrammarEncodes ==
  ASSUME NEW m, BeginMarshal(m) \/ WriteField(m)
  PROVE  UNCHANGED Grammar!reader
<1>1. Encoding /\ Encoding' /\ kind' = kind
  BY DEF BeginMarshal, WriteField, Encoding
<1>2. Verdict = "idle" /\ Verdict' = "idle"
  BY <1>1, Verdicts, VerdictsNext
<1>3. QED
  BY <1>1, <1>2 DEF Grammar!reader, Verdict

LEMMA GrammarReceives ==
  ASSUME CInv, CInv', NEW m, EndMarshal(m)
  PROVE  Grammar!Receive
<1>1. /\ Encoding /\ pc' = "loop" /\ ~Encoding' /\ kind' = kind /\ caller = -1 /\ caller' = -1
      /\ index' = 0 /\ authority' = <<>>
  BY DEF EndMarshal, Encoding, CInv, Encoder
<1>2. Verdict = "idle" /\ Verdict' = "reading"
  BY <1>1, Verdicts, VerdictsNext
<1>3. StartOfField' = 0
  BY <1>1 DEF StartOfField
<1>4. kind' \in Messages /\ buf' \in Seq(Byte)
  BY <1>1 DEF CInv, Decoder, DInv, Inv, TypeOK
<1>5. QED
  BY <1>1, <1>2, <1>3, <1>4, GrammarBytes DEF Grammar!Receive, Verdict

LEMMA GrammarForgets == ASSUME Reuse PROVE Grammar!Forget
<1>1. pc = "accepted" /\ ~Encoding /\ Encoding' /\ kind' = kind
  BY DEF Reuse, Encoding
<1>2. Verdict = "accepted" /\ Verdict' = "idle"
  BY <1>1, Verdicts, VerdictsNext
<1>3. QED
  BY <1>1, <1>2 DEF Grammar!Forget, Verdict

LEMMA GrammarStutters == ASSUME UNCHANGED vars PROVE UNCHANGED Grammar!reader
BY DEF vars, decoder, Grammar!reader, Encoding, StartOfField

LEMMA GrammarSteps ==
  ASSUME CInv, CInv', [CodecNext]_vars
  PROVE  [Grammar!Next]_(Grammar!reader)
<1>1. CASE Next /\ UNCHANGED encoder
  BY <1>1, GrammarDecodes
<1>2. ASSUME NEW m, BeginMarshal(m) \/ WriteField(m) PROVE UNCHANGED Grammar!reader
  BY <1>2, GrammarEncodes
<1>3. ASSUME NEW m, EndMarshal(m) PROVE Grammar!Next
  <2>1. Grammar!Receive
    BY <1>3, GrammarReceives
  <2>2. QED
    BY <2>1 DEF Grammar!Next
<1>4. CASE Reuse
  <2>1. Grammar!Forget
    BY <1>4, GrammarForgets
  <2>2. QED
    BY <2>1 DEF Grammar!Next
<1>5. CASE UNCHANGED vars
  BY <1>5, GrammarStutters
<1>6. QED
  BY <1>1, <1>2, <1>3, <1>4, <1>5, CodecNextCases

(* Decoding means what the grammar says, for widths, buffers and contents  *)
(* of any size: the codec takes exactly the fields of the grammar and      *)
(* refuses a message exactly where there is none.                          *)
THEOREM CodecImplementsGrammar == CodecSpec => ImplementsGrammar
<1>1. CodecInit => Grammar!Init
  BY GrammarInit
<1>2. CInv /\ CInv' /\ [CodecNext]_vars => [Grammar!Next]_(Grammar!reader)
  BY GrammarSteps
<1>3. QED
  BY <1>1, <1>2, CodecInvariant, PTL DEF CodecSpec, ImplementsGrammar, Grammar!Spec

(***************************************************************************)
(* Every call returns, encoding included: a message is decoded, encoded,   *)
(* written in up to two fields and decoded once more.                      *)
(***************************************************************************)
CallsLeft ==
  IF ~Encoding THEN IF sent = <<>> THEN 5 ELSE 0
  ELSE IF pc = "marshal" THEN 4 ELSE 1 + Len(todo)

(* The fields of a message are a sequence of at most two.                  *)
LEMMA FieldsLength ==
  ASSUME NEW m, NEW a, Encodable(m, a)
  PROVE  Len(Fields(m, a)) \in 0 .. 2 /\ \E S : Fields(m, a) \in Seq(S)
<1> DEFINE p == [number |-> ParamsNumber(m), bytes |-> <<>>]
           f == [number |-> 1, bytes |-> a]
           P == IF HasParams(m) THEN <<p>> ELSE <<>>
           S == IF a = <<>> THEN <<>> ELSE <<f>>
           both == Seq({p, f})
<1>1. Fields(m, a) = P \o S
  BY FieldsAre
<1> HIDE DEF p, f
<1>2. <<p>> \in both /\ <<f>> \in both /\ <<>> \in both /\ Len(<<p>>) = 1 /\ Len(<<f>>) = 1 /\ Len(<<>>) = 0
  OBVIOUS
<1>3. P \in both /\ (Len(P) = 0 \/ Len(P) = 1)
  <2>1. P = <<p>> \/ P = <<>>
    OBVIOUS
  <2> HIDE DEF P, both
  <2>2. QED
    BY <1>2, <2>1
<1>4. S \in both /\ (Len(S) = 0 \/ Len(S) = 1)
  <2>1. S = <<f>> \/ S = <<>>
    OBVIOUS
  <2> HIDE DEF S, both
  <2>2. QED
    BY <1>2, <2>1
<1> HIDE DEF P, S
<1>5. Fields(m, a) \in both /\ Len(Fields(m, a)) = Len(P) + Len(S)
  BY <1>1, <1>3, <1>4
<1>6. Len(Fields(m, a)) \in 0 .. 2
  <2> DEFINE x == Len(P)
             y == Len(S)
             n == Len(Fields(m, a))
  <2>1. (x = 0 \/ x = 1) /\ (y = 0 \/ y = 1) /\ n = x + y
    BY <1>3, <1>4, <1>5
  <2> HIDE DEF x, y, n
  <2>2. n \in 0 .. 2
    BY <2>1
  <2>3. QED
    BY <2>2 DEF n
<1>7. QED
  BY <1>5, <1>6

LEMMA TodoIs ==
  ASSUME Encoder, pc = "write"
  PROVE  Len(todo) \in 0 .. 2 /\ \E S : todo \in Seq(S)
<1>1. Encodable(kind, authority)
  BY DEF Encoder
<1>2. CASE Unwritten
  <2>1. todo = Fields(kind, authority)
    BY <1>2 DEF Unwritten
  <2>2. QED
    BY <1>1, <2>1, FieldsLength
<1>3. CASE ParamsDone
  <2> DEFINE f == [number |-> 1, bytes |-> authority]
  <2>1. todo = <<f>>
    BY <1>3 DEF ParamsDone
  <2> HIDE DEF f
  <2>2. todo \in Seq({f}) /\ Len(todo) = 1
    BY <2>1
  <2>3. QED
    BY <2>2
<1>4. CASE AllDone
  <2>1. todo = <<>>
    BY <1>4 DEF AllDone
  <2>2. todo \in Seq({}) /\ Len(todo) = 0
    BY <2>1
  <2>3. QED
    BY <2>2
<1>5. QED
  BY <1>2, <1>3, <1>4 DEF Encoder

LEMMA CallsLeftIs ==
  ASSUME CInv
  PROVE  CallsLeft \in 0 .. 5 /\ (Encoding => CallsLeft \in 1 .. 4)
<1>1. ASSUME pc = "write" PROVE Len(todo) \in 0 .. 2
  BY <1>1, TodoIs DEF CInv, Encoding
<1>2. CASE pc = "write"
  <2>1. CallsLeft = 1 + Len(todo)
    BY <1>2 DEF CallsLeft, Encoding
  <2> DEFINE n == Len(todo)
  <2>2. n \in 0 .. 2 /\ CallsLeft = 1 + n
    BY <1>1, <1>2, <2>1
  <2> HIDE DEF n
  <2>3. QED
    BY <2>2
<1>3. CASE pc # "write"
  BY <1>3 DEF CallsLeft, Encoding
<1>4. QED
  BY <1>2, <1>3

LEMMA CodecLess ==
  ASSUME CInv, CInv', CodecNext
  PROVE  \/ CallsLeft' < CallsLeft
         \/ CallsLeft' = CallsLeft /\ ~Encoding /\ StepsLeft' < StepsLeft
<1>1. CASE Next /\ UNCHANGED encoder
  <2>1. ~Encoding /\ DInv
    BY <1>1, NextDecodes DEF CInv, Decoder
  <2>2. DInv' /\ StepsLeft' < StepsLeft
    BY <1>1, <2>1, DecoderSteps, NextLess DEF DInv
  <2>3. ~Encoding'
    BY <2>2 DEF DInv, Inv, TypeOK, Pcs, UnmarshalReads, SkipReads, Encoding
  <2>4. CallsLeft' = CallsLeft
    BY <1>1, <2>1, <2>3 DEF CallsLeft, encoder
  <2>5. QED
    BY <2>1, <2>2, <2>4
<1>2. ASSUME NEW m, BeginMarshal(m) PROVE CallsLeft' < CallsLeft
  <2>1. Encoding /\ pc = "marshal" /\ pc' = "write" /\ Encoding'
    BY <1>2 DEF BeginMarshal, Encoding
  <2>2. Encoder'
    BY <2>1 DEF CInv
  <2>3. Len(todo') \in 0 .. 2
    <3>1. Encodable(kind', authority')
      BY <2>2 DEF Encoder
    <3>2. kind' = kind /\ authority' = authority /\ todo' = Fields(kind, authority)
      BY <1>2 DEF BeginMarshal
    <3>3. QED
      BY <3>1, <3>2, FieldsLength
  <2>4. CallsLeft = 4 /\ CallsLeft' = 1 + Len(todo')
    BY <2>1 DEF CallsLeft
  <2> DEFINE n == Len(todo')
  <2>5. n \in 0 .. 2 /\ CallsLeft = 4 /\ CallsLeft' = 1 + n
    BY <2>3, <2>4
  <2> HIDE DEF n
  <2>6. QED
    BY <2>5
<1>3. ASSUME NEW m, WriteField(m) PROVE CallsLeft' < CallsLeft
  <2>1. Encoding /\ pc = "write" /\ pc' = "write" /\ Encoding' /\ todo # <<>> /\ todo' = Tail(todo)
    BY <1>3 DEF WriteField, Encoding
  <2>2. PICK S : todo \in Seq(S)
    BY <2>1, TodoIs DEF CInv
  <2>3. Len(todo) \in Nat /\ Len(todo') = Len(todo) - 1
    BY <2>1, <2>2
  <2>4. QED
    BY <2>1, <2>3 DEF CallsLeft
<1>4. ASSUME NEW m, EndMarshal(m) PROVE CallsLeft' < CallsLeft
  <2>1. Encoding /\ pc = "write" /\ ~Encoding' /\ sent' = sent
    BY <1>4 DEF EndMarshal, Encoding, encoder
  <2>2. sent # <<>>
    BY <2>1 DEF CInv, Encoder
  <2>3. CallsLeft' = 0 /\ CallsLeft \in 1 .. 4
    BY <2>1, <2>2, CallsLeftIs DEF CallsLeft
  <2>4. QED
    BY <2>3
<1>5. CASE Reuse
  BY <1>5 DEF Reuse, CallsLeft, Encoding
<1>6. QED
  BY <1>1, <1>2, <1>3, <1>4, <1>5, CodecNextCases

(* Neither decoding nor encoding goes on for ever, whatever the bytes and  *)
(* whatever was encoded: each step leaves fewer calls, or as many and      *)
(* fewer steps of this one.  What is left of Terminates is that the code   *)
(* does take its next step.                                                *)
THEOREM CodecReturns ==
  CodecSpec => /\ [](CallsLeft \in 0 .. 5 /\ (~Encoding => StepsLeft \in Nat))
               /\ [][\/ CallsLeft' < CallsLeft
                     \/ CallsLeft' = CallsLeft /\ ~Encoding /\ StepsLeft' < StepsLeft]_vars
<1>1. CInv => CallsLeft \in 0 .. 5 /\ (~Encoding => StepsLeft \in Nat)
  BY CallsLeftIs, StepsLeftNat DEF CInv, Decoder, DInv
<1>2. CInv /\ CInv' /\ [CodecNext]_vars
        => [\/ CallsLeft' < CallsLeft
            \/ CallsLeft' = CallsLeft /\ ~Encoding /\ StepsLeft' < StepsLeft]_vars
  BY CodecLess
<1>3. QED
  BY <1>1, <1>2, CodecInvariant, PTL DEF CodecSpec

=============================================================================
