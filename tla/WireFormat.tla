------------------------------ MODULE WireFormat ------------------------------
(***************************************************************************)
(* The protobuf encoding of the messages of x/stablecoin, as the generated *)
(* files src/chain/x/stablecoin/types/*.pb.go have it: integers of seven   *)
(* bits to the byte, tags, lengths, and the fields of each message.        *)
(*                                                                         *)
(* The widths are constants: a byte is below 2 * High (High is 2^7 in the  *)
(* code), int64 is below Half (2^63), int32 below TagHalf (2^31).          *)
(***************************************************************************)
EXTENDS Integers, Sequences

CONSTANTS
  High,          \* the continuation bit of a byte
  Half,          \* one more than the largest int
  TagHalf,       \* one more than the largest field number
  Wide, Narrow   \* bytes of a fixed64 and of a fixed32

ASSUME WidthsAssumption ==
  /\ High \in Nat /\ High >= 8
  /\ Half \in Nat /\ Half > High
  /\ TagHalf \in Nat /\ TagHalf > 0
  /\ Wide \in 0 .. Half - 1 /\ Narrow \in 0 .. Half - 1

Byte == 0 .. 2 * High - 1

(* What the k-th group of a varint counts, the first being the 0-th: the   *)
(* code's shift is a multiple of seven.                                    *)
Weight[k \in Nat] == IF k = 0 THEN 1 ELSE High * Weight[k - 1]

(* What a uint64 is as an int64, and the sum of two lengths as an int.     *)
Int64(x) == IF x < Half THEN x ELSE x - 2 * Half
Plus(a, b) == IF a + b < Half THEN a + b ELSE a + b - 2 * Half

(* int32(wire >> 3) and wire & 0x7.                                        *)
FieldNumber(wire) ==
  LET n == (wire \div 8) % (2 * TagHalf) IN IF n < TagHalf THEN n ELSE n - 2 * TagHalf
WireType(wire) == wire % 8

(* The structs.  Params has no fields, and so a message is known by the    *)
(* contents of its authority, which is empty where there is none.          *)
Messages == {"MsgUpdateParams", "MsgUpdateParamsResponse", "QueryParamsRequest",
             "QueryParamsResponse", "GenesisState", "Module", "Params"}

StringField(m, n) == n = 1 /\ m \in {"MsgUpdateParams", "Module"}
ParamsField(m, n) ==
  \/ n = 2 /\ m = "MsgUpdateParams"
  \/ n = 1 /\ m \in {"QueryParamsResponse", "GenesisState"}

(* The file of a message, which has its own skip function.                 *)
File(m) ==
  CASE m \in {"MsgUpdateParams", "MsgUpdateParamsResponse"}   -> "tx"
    [] m \in {"QueryParamsRequest", "QueryParamsResponse"}    -> "query"
    [] m = "GenesisState"                                     -> "genesis"
    [] m = "Module"                                           -> "module"
    [] m = "Params"                                           -> "params"

=============================================================================
