------------------------------- MODULE WireCodec -------------------------------
(***************************************************************************)
(* Marshal of the messages of x/stablecoin, which writes a buffer of the   *)
(* size it computed before from its end to its start, and the way of a     *)
(* message through both: whatever was decoded is encoded and decoded       *)
(* again.                                                                  *)
(***************************************************************************)
EXTENDS WireDecoder

CONSTANTS
  Group,       \* bits of a byte below the continuation bit, 7 in the code
  Authorities  \* contents of the authority of a message to be encoded

(* The powers of two.                                                      *)
Two[k \in Nat] == IF k = 0 THEN 1 ELSE 2 * Two[k - 1]

(* The tags of the known fields, 10 and 18, take one byte.                 *)
ASSUME GroupAssumption ==
  /\ Group \in Nat /\ Group > 0 /\ High = Two[Group]
  /\ High > 18 /\ TagHalf > 2

(* No buffer fills half of what an int counts.                             *)
ASSUME SizesAssumption ==
  /\ \A given \in Inputs : 2 * Len(given.bytes) < Half
  /\ \A a \in Authorities : a \in Seq(Byte) /\ 2 * Len(a) + 4 <= Half

VARIABLES
  at, todo,    \* where the bytes written so far begin, the fields still to be written
  sent         \* the authority of the message that was encoded, in a sequence; or <<>>

vars == <<decoder, at, todo, sent>>
encoder == <<at, todo, sent>>

(***************************************************************************)
(* Sizes and varints.                                                      *)
(***************************************************************************)
(* bits.Len64                                                              *)
Len64(x) == CHOOSE n \in 0 .. x : (\A k \in 0 .. n - 1 : Two[k] <= x) /\ Two[n] > x

(* x | 1 is x or x + 1, which is as long unless x is zero.                 *)
(* Mutant: a byte too many where the groups are full.                      *)
sovDown(x) == Len64(IF x = 0 THEN 1 ELSE x) \div Group + 1
sov(x) == (Len64(IF x = 0 THEN 1 ELSE x) + Group - 1) \div Group

(* The groups of v, the loop's count of them, not the size's.              *)
Groups(v) == CHOOSE n \in 1 .. v + 1 : v < Weight[n] /\ (n = 1 \/ v >= Weight[n - 1])

VarintOf(v) ==
  [i \in 1 .. Groups(v) |->
     ((v \div Weight[i - 1]) % High) + (IF i < Groups(v) THEN High ELSE 0)]

(* copy(dAtA[i:], bytes)                                                   *)
Put(b, i, bytes) ==
  [p \in DOMAIN b |-> IF p - i \in DOMAIN bytes THEN bytes[p - i] ELSE b[p]]

(***************************************************************************)
(* A message's fields from the last to the first, as Marshal writes them:  *)
(* Params always, which has no bytes, the authority unless it is empty.    *)
(***************************************************************************)
(* Mutant: an empty authority is written, but the size is without it.      *)
FieldsWithEmpty(m, a) ==
  LET params == {n \in 1 .. 2 : ParamsField(m, n)}
      strings == {n \in 1 .. 2 : StringField(m, n)}
  IN  (IF params = {} THEN <<>> ELSE <<[number |-> CHOOSE n \in params : TRUE, bytes |-> <<>>]>>)
        \o (IF strings = {} THEN <<>> ELSE <<[number |-> 1, bytes |-> a]>>)

Fields(m, a) ==
  LET params == {n \in 1 .. 2 : ParamsField(m, n)}
      strings == {n \in 1 .. 2 : StringField(m, n) /\ a # <<>>}
  IN  (IF params = {} THEN <<>> ELSE <<[number |-> CHOOSE n \in params : TRUE, bytes |-> <<>>]>>)
        \o (IF strings = {} THEN <<>> ELSE <<[number |-> 1, bytes |-> a]>>)

Size(m, a) ==
  LET params == IF \E n \in 1 .. 2 : ParamsField(m, n) THEN 1 + 0 + sov(0) ELSE 0
      string == IF a # <<>> /\ StringField(m, 1) THEN 1 + Len(a) + sov(Len(a)) ELSE 0
  IN  string + params

(* Marshal: a buffer of that size, zero at first.                          *)
BeginMarshal(m) ==
  /\ pc = "marshal" /\ kind = m
  /\ buf' = [p \in 1 .. Size(m, authority) |-> 0]
  /\ at' = Size(m, authority) /\ todo' = Fields(m, authority)
  /\ sent' = <<authority>>
  /\ pc' = "write"
  /\ UNCHANGED <<kind, error, call, index, pre, varint, field, depth, authority>>

(* The bytes of the field, their number, and the tag, each before the last.*)
WriteField(m) ==
  /\ pc = "write" /\ kind = m /\ todo # <<>>
  /\ LET f == Head(todo)
         content == at - Len(f.bytes)
         length == content - sov(Len(f.bytes))
         tag == length - 1
     IN /\ buf' = Put(Put(Put(buf, content, f.bytes), length, VarintOf(Len(f.bytes))),
                      tag, <<8 * f.number + 2>>)
        /\ at' = tag
  /\ todo' = Tail(todo)
  /\ UNCHANGED <<kind, pc, error, call, index, pre, varint, field, depth, authority, sent>>

(* Marshal returns dAtA[:n], and the bytes are decoded into a new message. *)
EndMarshal(m) ==
  /\ pc = "write" /\ kind = m /\ todo = <<>>
  /\ buf' = SubSeq(buf, 1, Len(buf) - at)
  /\ pc' = "loop"
  /\ end' = Len(buf) - at /\ authority' = <<>>
  /\ index' = 0 /\ pre' = 0 /\ scale' = 1 /\ value' = 0 /\ field' = 0 /\ depth' = 0
  /\ UNCHANGED <<kind, error, base, caller, encoder>>

Marshal(m) == BeginMarshal(m) \/ WriteField(m) \/ EndMarshal(m)

MarshalMsgUpdateParams == Marshal("MsgUpdateParams")
MarshalMsgUpdateParamsResponse == Marshal("MsgUpdateParamsResponse")
MarshalQueryParamsRequest == Marshal("QueryParamsRequest")
MarshalQueryParamsResponse == Marshal("QueryParamsResponse")
MarshalGenesisState == Marshal("GenesisState")
MarshalModule == Marshal("Module")
MarshalParams == Marshal("Params")

(* Somebody encodes the message that was read.                             *)
Reuse ==
  /\ pc = "accepted" /\ sent = <<>>
  /\ pc' = "marshal"
  /\ buf' = <<>> /\ end' = 0 /\ index' = 0 /\ pre' = 0
  /\ UNCHANGED <<kind, error, base, caller, varint, field, depth, authority, encoder>>

CodecInit ==
  /\ \/ Init
     \/ \E m \in Messages, a \in Authorities :
          /\ (a # <<>> => StringField(m, 1))
          /\ buf = <<>> /\ kind = m /\ pc = "marshal" /\ error = "none"
          /\ base = 0 /\ end = 0 /\ caller = -1 /\ index = 0 /\ pre = 0
          /\ scale = 1 /\ value = 0 /\ field = 0 /\ depth = 0 /\ authority = a
  /\ at = 0 /\ todo = <<>> /\ sent = <<>>

CodecNext ==
  \/ Next /\ UNCHANGED encoder
  \/ MarshalMsgUpdateParams \/ MarshalMsgUpdateParamsResponse
  \/ MarshalQueryParamsRequest \/ MarshalQueryParamsResponse
  \/ MarshalGenesisState \/ MarshalModule \/ MarshalParams
  \/ Reuse

(* The functions are sequential code, which goes on until it returns.      *)
CodecSpec == CodecInit /\ [][CodecNext]_vars /\ WF_vars(CodecNext)

(***************************************************************************)
(* Properties                                                              *)
(***************************************************************************)
Encoding == pc \in {"marshal", "write"}

(* Every variable keeps its type.                                          *)
CodecTypeOK ==
  /\ Encoding \/ TypeOK
  /\ at \in Nat
  /\ sent = <<>> \/ (Len(sent) = 1 /\ sent[1] \in Seq(Byte))

(* What one function encodes the other accepts, and it is the same         *)
(* message, for a message read from any bytes, canonical or not; and the   *)
(* encoding fills exactly the size computed for it.                        *)
RoundTrip ==
  /\ (pc = "write" /\ todo = <<>>) => at = 0
  /\ (sent # <<>> /\ pc = "accepted") => sent = <<authority>>
  /\ sent # <<>> => pc # "rejected"

(* Decoding takes the fields of the grammar one by one: a field that is    *)
(* unknown or comes twice, a group, a length beyond the buffer, a message  *)
(* cut short mean what they mean there, and nothing else is refused.  The  *)
(* field being read is part of the rest until it is complete.              *)
StartOfField ==
  IF caller # -1 THEN caller ELSE IF pc \in {"loop", "accepted"} THEN index ELSE pre

Grammar == INSTANCE WireGrammar WITH
  verdict <- CASE Encoding -> "idle"
               [] pc \in {"accepted", "rejected"} -> pc
               [] OTHER -> "reading",
  message <- kind,
  bytes <- IF Encoding THEN <<>> ELSE buf,
  taken <- IF Encoding THEN 0 ELSE StartOfField,
  read <- IF Encoding THEN <<>> ELSE authority

ImplementsGrammar == Grammar!Spec

(* Every call returns, whatever the bytes: no field and no group is read   *)
(* again for ever.                                                         *)
Finished == pc = "rejected" \/ (pc = "accepted" /\ sent # <<>>)
Terminates == <>Finished

=============================================================================
