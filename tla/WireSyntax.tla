------------------------------ MODULE WireSyntax ------------------------------
(***************************************************************************)
(* The grammar of encoded messages: varints, items, groups, fields.        *)
(*                                                                         *)
(* A piece of the bytes s is given by the positions i and j before and at  *)
(* its end: it is s[i + 1], ..., s[j].                                     *)
(***************************************************************************)
EXTENDS WireFormat

(* Little-endian groups of bits, all but the last with the continuation    *)
(* bit, and no more of them than begin within the word.                    *)
IsVarint(s, i, j) ==
  /\ j \in i + 1 .. Len(s)
  /\ \A p \in i + 1 .. j : s[p] < High <=> p = j
  /\ Weight[j - i - 1] < 2 * Half

(* The sums of the first n groups behind i.                                *)
Sums(s, i) ==
  LET sum[n \in 0 .. Len(s) - i] ==
        IF n = 0 THEN 0 ELSE sum[n - 1] + (s[i + n] % High) * Weight[n - 1]
  IN  sum

ValueOf(s, i, j) == Sums(s, i)[j - i] % (2 * Half)

(* A length, and as many bytes from the position k on.                     *)
IsBytesAt(s, i, k, j) == IsVarint(s, i, k) /\ Int64(ValueOf(s, i, k)) = j - k
IsBytes(s, i, j) == \E k \in i + 1 .. j : IsBytesAt(s, i, k, j)

(* A piece is cut into parts: from the beginning, and from the end of each *)
(* part, a part leads to another cut until the end of the piece.  ends[a]  *)
(* is where the parts that begin at a end, always behind a.                *)
Splits(i, j, ends) ==
  \E cuts \in SUBSET (i .. j) :
    i \in cuts /\ \A a \in cuts : a = j \/ \E b \in cuts : b \in ends[a]

(* A field that is not known, or an item of a group: a tag and what its    *)
(* wire type calls for.  A group holds items up to the tag that ends it.   *)
IsEndGroup(s, i, j) == IsVarint(s, i, j) /\ WireType(ValueOf(s, i, j)) = 4

IsGroup(s, i, j, ends) == \E c \in i .. j : IsEndGroup(s, c, j) /\ Splits(i, c, ends)

IsContent(wire, s, i, j, ends) ==
  \/ wire = 0 /\ IsVarint(s, i, j)
  \/ wire = 1 /\ j = i + Wide
  \/ wire = 2 /\ IsBytes(s, i, j)
  \/ wire = 3 /\ IsGroup(s, i, j, ends)
  \/ wire = 5 /\ j = i + Narrow

(* The ends of the items that begin at each position.                      *)
Items(s) ==
  LET ends[i \in 0 .. Len(s)] ==
        {j \in i + 1 .. Len(s) :
          \E k \in i + 1 .. j :
            IsVarint(s, i, k) /\ IsContent(WireType(ValueOf(s, i, k)), s, k, j, ends)}
  IN  ends

IsUnknownField(s, i, j) ==
  /\ \E k \in i + 1 .. j : IsVarint(s, i, k) /\ FieldNumber(ValueOf(s, i, k)) > 0
  /\ j \in Items(s)[i]

(* Params has no field of its own.                                         *)
IsParams(s, i, j) ==
  Splits(i, j, [a \in i .. j |-> {b \in a + 1 .. j : IsUnknownField(s, a, b)}])

(* A field of the message m: of a known field the length and the contents, *)
(* which for Params are a message of their own.                            *)
IsField(m, s, i, j) ==
  \E t \in i + 1 .. j :
    /\ IsVarint(s, i, t)
    /\ LET tag == ValueOf(s, i, t)
           n == FieldNumber(tag)
       IN /\ n > 0
          /\ IF StringField(m, n) \/ ParamsField(m, n)
               THEN /\ WireType(tag) = 2
                    /\ \E k \in t + 1 .. j :
                         IsBytesAt(s, t, k, j) /\ (ParamsField(m, n) => IsParams(s, k, j))
               ELSE j \in Items(s)[i]

(* What is read once the field from i to j is taken.                       *)
Holds(m, old, s, i, j) ==
  LET t == CHOOSE t \in i + 1 .. j : IsVarint(s, i, t)
      k == CHOOSE k \in t + 1 .. j : IsVarint(s, t, k)
  IN  IF StringField(m, FieldNumber(ValueOf(s, i, t))) THEN SubSeq(s, k + 1, j) ELSE old

=============================================================================
