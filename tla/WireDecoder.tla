------------------------------ MODULE WireDecoder ------------------------------
(***************************************************************************)
(* Unmarshal of the messages of x/stablecoin, byte by byte: the loop over  *)
(* the fields, the loop over the bytes of a varint, the nested call for    *)
(* Params on a slice of the buffer, and the skip function that finds the   *)
(* end of an unknown field.                                                *)
(*                                                                         *)
(* Positions count from the start of the whole buffer.  Where the code     *)
(* counts from the start of a slice and tests for overflow, so does the    *)
(* model.  The five skip functions are the same text, and so are the       *)
(* Unmarshal functions but for their fields: Unmarshal and Skip are that   *)
(* text, and each generated function is an action of its own.              *)
(***************************************************************************)
EXTENDS WireFormat

CONSTANT Inputs      \* [message, bytes]: what is given to which Unmarshal

ASSUME InputsAssumption ==
  \A input \in Inputs :
    input.message \in Messages /\ input.bytes \in Seq(Byte) /\ Len(input.bytes) < Half

VARIABLES
  buf, kind,     \* the buffer and the message of the outermost call
  pc, error,     \* where the code is, and why it returned an error
  base, end,     \* the slice that the current call decodes
  caller,        \* preIndex of the call that waits for Params, -1 if none does
  index, pre,    \* iNdEx and preIndex
  scale, value,  \* the varint being read: 1 << shift, and its bits so far
  field,         \* number of the known field being read
  depth,         \* open groups of the field being skipped
  authority      \* the field of the message

input == <<buf, kind>>
call == <<base, end, caller>>
varint == <<scale, value>>
decoder == <<buf, kind, pc, error, base, end, caller, index, pre, scale, value, field, depth,
             authority>>

(* A call on a new message; Unmarshal itself resets nothing.               *)
Unmarshalling(m, bytes, at) ==
  /\ buf = bytes /\ kind = m
  /\ pc = at /\ error = "none"
  /\ base = 0 /\ end = Len(bytes) /\ caller = -1
  /\ index = 0 /\ pre = 0
  /\ scale = 1 /\ value = 0 /\ field = 0 /\ depth = 0
  /\ authority = <<>>

Init == \E given \in Inputs : Unmarshalling(given.message, given.bytes, "loop")

Current == IF caller = -1 THEN kind ELSE "Params"

Reject(why) ==
  /\ pc' = "rejected" /\ error' = why
  /\ UNCHANGED <<input, call, index, pre, varint, field, depth, authority>>

(***************************************************************************)
(* The loop over the bytes of a varint.  The shift is tested before the    *)
(* end of the slice, and bits beyond the word are lost.                    *)
(***************************************************************************)
UnmarshalReads == {"tag", "length"}
SkipReads == {"skipTag", "skipVarint", "skipLength"}

AfterVarint == [tag |-> "tagRead", length |-> "lengthRead", skipTag |-> "skipTagRead",
                skipVarint |-> "skipEnd", skipLength |-> "skipLengthRead"]

StartVarint(at) == pc' = at /\ scale' = 1 /\ value' = 0

Overflow(reads) == pc \in reads /\ scale >= 2 * Half /\ Reject("overflow")

(* Mutant: one byte too many.                                              *)
InputLeftOrOne == index <= end
InputLeft == index < end

OutOfInput(reads) == pc \in reads /\ scale < 2 * Half /\ ~InputLeft /\ Reject("eof")

ReadByte(reads) ==
  /\ pc \in reads /\ scale < 2 * Half /\ InputLeft
  /\ LET b == buf[index + 1] IN
       /\ value' = (value + (b % High) * scale) % (2 * Half)
       /\ pc' = IF b < High THEN AfterVarint[pc] ELSE pc
  /\ index' = index + 1 /\ scale' = scale * High
  /\ UNCHANGED <<input, error, call, pre, field, depth, authority>>

ReadVarint(reads) == Overflow(reads) \/ OutOfInput(reads) \/ ReadByte(reads)

(***************************************************************************)
(* The loop over the fields.                                               *)
(***************************************************************************)
BeginField ==
  /\ pc = "loop" /\ index < end
  /\ pre' = index
  /\ StartVarint("tag")
  /\ UNCHANGED <<input, error, call, index, field, depth, authority>>

IllegalTag == WireType(value) = 4 \/ FieldNumber(value) <= 0

Known(n) == StringField(Current, n) \/ ParamsField(Current, n)

RejectTag ==
  /\ pc = "tagRead"
  /\ \/ IllegalTag
     \/ Known(FieldNumber(value)) /\ WireType(value) # 2
  /\ Reject("tag")

KnownField ==
  /\ pc = "tagRead" /\ ~IllegalTag
  /\ Known(FieldNumber(value)) /\ WireType(value) = 2
  /\ field' = FieldNumber(value)
  /\ StartVarint("length")
  /\ UNCHANGED <<input, error, call, index, pre, depth, authority>>

UnknownField ==
  /\ pc = "tagRead" /\ ~IllegalTag
  /\ ~Known(FieldNumber(value))
  /\ index' = pre /\ depth' = 0
  /\ pc' = "skipLoop"
  /\ UNCHANGED <<input, error, call, pre, varint, field, authority>>

(* postIndex, from the start of the slice, and its three tests.            *)
PostIndex == Plus(index - base, Int64(value))
(* Mutant: the sum is not tested for overflow.                             *)
LengthFitsUnlessNegative == Int64(value) >= 0 /\ base + PostIndex <= end
LengthFits == Int64(value) >= 0 /\ PostIndex >= 0 /\ base + PostIndex <= end

RejectLength ==
  /\ pc = "lengthRead" /\ ~LengthFits
  /\ Reject(IF Int64(value) < 0 \/ PostIndex < 0 THEN "length" ELSE "eof")

TakeString ==
  /\ pc = "lengthRead" /\ LengthFits /\ StringField(Current, field)
  /\ authority' = SubSeq(buf, index + 1, base + PostIndex)
  /\ index' = base + PostIndex
  /\ pc' = "loop"
  /\ UNCHANGED <<input, error, call, pre, varint, field, depth>>

(* m.Params.Unmarshal(dAtA[iNdEx:postIndex])                               *)
EnterParams ==
  /\ pc = "lengthRead" /\ LengthFits /\ ParamsField(Current, field)
  /\ caller' = pre /\ base' = index /\ end' = base + PostIndex
  /\ pc' = "loop"
  /\ UNCHANGED <<input, error, index, pre, varint, field, depth, authority>>

(* The nested call returns, and iNdEx becomes postIndex.                   *)
LeaveParams ==
  /\ pc = "loop" /\ index >= end /\ caller # -1
  /\ index' = end /\ pre' = caller
  /\ base' = 0 /\ end' = Len(buf) /\ caller' = -1
  /\ UNCHANGED <<input, pc, error, varint, field, depth, authority>>

(* The code tests iNdEx > l once more here; InBounds says it never is.     *)
Accept ==
  /\ pc = "loop" /\ index >= end /\ caller = -1
  /\ pc' = "accepted"
  /\ UNCHANGED <<input, error, call, index, pre, varint, field, depth, authority>>

UnmarshalStep ==
  \/ BeginField \/ ReadVarint(UnmarshalReads)
  \/ RejectTag \/ KnownField \/ UnknownField
  \/ RejectLength \/ TakeString \/ EnterParams
  \/ LeaveParams \/ Accept

(***************************************************************************)
(* Skipping an unknown field, groups by counting them.  What a field       *)
(* claims to be long may end beyond the slice; the caller tests that.      *)
(***************************************************************************)
SkipBegin ==
  /\ pc = "skipLoop" /\ index < end
  /\ StartVarint("skipTag")
  /\ UNCHANGED <<input, error, call, index, pre, field, depth, authority>>

SkipOutOfInput == pc = "skipLoop" /\ index >= end /\ Reject("eof")

Advance(n) == pre + Plus(index - pre, n)

RejectSkip ==
  \/ /\ pc = "skipTagRead" /\ WireType(value) \in {6, 7}
     /\ Reject("tag")
  \/ /\ pc = "skipTagRead" /\ WireType(value) = 4 /\ depth = 0
     /\ Reject("end of group")
  \/ /\ pc = "skipLengthRead" /\ Int64(value) < 0
     /\ Reject("length")

SkipValue ==
  /\ pc = "skipTagRead" /\ WireType(value) \in {0, 2}
  /\ StartVarint(IF WireType(value) = 0 THEN "skipVarint" ELSE "skipLength")
  /\ UNCHANGED <<input, error, call, index, pre, field, depth, authority>>

SkipFixed ==
  /\ pc = "skipTagRead" /\ WireType(value) \in {1, 5}
  /\ index' = Advance(IF WireType(value) = 1 THEN Wide ELSE Narrow)
  /\ pc' = "skipEnd"
  /\ UNCHANGED <<input, error, call, pre, varint, field, depth, authority>>

SkipBytes ==
  /\ pc = "skipLengthRead" /\ Int64(value) >= 0
  /\ index' = Advance(Int64(value))
  /\ pc' = "skipEnd"
  /\ UNCHANGED <<input, error, call, pre, varint, field, depth, authority>>

SkipGroup ==
  /\ pc = "skipTagRead"
  /\ \/ /\ WireType(value) = 3
        /\ depth' = depth + 1
     \/ /\ WireType(value) = 4 /\ depth > 0
        /\ depth' = depth - 1
  /\ pc' = "skipEnd"
  /\ UNCHANGED <<input, error, call, index, pre, varint, field, authority>>

(* Mutant: the end of one group is taken for the end of the field.         *)
SkipFurtherOnce ==
  /\ pc = "skipEnd" /\ index >= pre /\ depth > 1
  /\ pc' = "skipLoop"
  /\ UNCHANGED <<input, error, call, index, pre, varint, field, depth, authority>>

SkipFurther ==
  /\ pc = "skipEnd" /\ index >= pre /\ depth > 0
  /\ pc' = "skipLoop"
  /\ UNCHANGED <<input, error, call, index, pre, varint, field, depth, authority>>

(* The skip function returns iNdEx - preIndex, and its caller adds it.     *)
Skipped == Plus(pre - base, index - pre)
(* Mutant: the caller does not test the end of the slice.                  *)
SkipFitsAnyway == index >= pre /\ Skipped >= 0
SkipFits == index >= pre /\ Skipped >= 0 /\ base + Skipped <= end

(* Mutant: the field that was skipped is read again.                       *)
SkipReturnsNothing ==
  /\ pc = "skipEnd" /\ depth = 0 /\ SkipFits
  /\ index' = pre
  /\ pc' = "loop"
  /\ UNCHANGED <<input, error, call, pre, varint, field, depth, authority>>

SkipReturn ==
  /\ pc = "skipEnd" /\ depth = 0 /\ SkipFits
  /\ index' = base + Skipped
  /\ pc' = "loop"
  /\ UNCHANGED <<input, error, call, pre, varint, field, depth, authority>>

RejectSkipped ==
  /\ pc = "skipEnd"
  /\ index < pre \/ (depth = 0 /\ ~SkipFits)
  /\ Reject(IF index < pre \/ Skipped < 0 THEN "length" ELSE "eof")

SkipStep ==
  \/ SkipBegin \/ SkipOutOfInput \/ ReadVarint(SkipReads)
  \/ RejectSkip \/ SkipValue \/ SkipFixed \/ SkipBytes \/ SkipGroup
  \/ SkipFurther \/ SkipReturn \/ RejectSkipped

(***************************************************************************)
(* The generated functions.                                                *)
(***************************************************************************)
Unmarshal(m) == Current = m /\ UnmarshalStep
Skip(file) == File(Current) = file /\ SkipStep

UnmarshalMsgUpdateParams == Unmarshal("MsgUpdateParams")
UnmarshalMsgUpdateParamsResponse == Unmarshal("MsgUpdateParamsResponse")
UnmarshalQueryParamsRequest == Unmarshal("QueryParamsRequest")
UnmarshalQueryParamsResponse == Unmarshal("QueryParamsResponse")
UnmarshalGenesisState == Unmarshal("GenesisState")
UnmarshalModule == Unmarshal("Module")
UnmarshalParams == Unmarshal("Params")

skipTx == Skip("tx")
skipQuery == Skip("query")
skipGenesis == Skip("genesis")
skipModule == Skip("module")
skipParams == Skip("params")

Next ==
  \/ UnmarshalMsgUpdateParams \/ UnmarshalMsgUpdateParamsResponse
  \/ UnmarshalQueryParamsRequest \/ UnmarshalQueryParamsResponse
  \/ UnmarshalGenesisState \/ UnmarshalModule \/ UnmarshalParams
  \/ skipTx \/ skipQuery \/ skipGenesis \/ skipModule \/ skipParams

Spec == Init /\ [][Next]_decoder

(***************************************************************************)
(* Properties                                                              *)
(***************************************************************************)
Pcs == {"loop", "tagRead", "lengthRead", "skipLoop", "skipTagRead", "skipLengthRead",
        "skipEnd", "accepted", "rejected"} \cup UnmarshalReads \cup SkipReads

(* Every variable keeps its type.                                          *)
TypeOK ==
  /\ buf \in Seq(Byte) /\ kind \in Messages
  /\ pc \in Pcs
  /\ error \in {"none", "overflow", "eof", "tag", "length", "end of group"}
  /\ base \in Int /\ end \in Int /\ caller \in Int /\ index \in Int /\ pre \in Int
  /\ scale \in Nat /\ value \in 0 .. 2 * Half - 1
  /\ field \in Int /\ depth \in Nat
  /\ authority \in Seq(Byte)

(* No bytes make the decoder leave the buffer, so that the generated code  *)
(* never panics: the slice being decoded lies in the buffer, the field     *)
(* being decoded in the slice, and so does every byte that is read,        *)
(* however lengths and positions overflow.  What is accepted has been      *)
(* read to its end.                                                        *)
InBounds ==
  /\ 0 <= base /\ base <= end /\ end <= Len(buf)
  /\ pc \notin {"loop", "accepted"} => base <= pre /\ pre <= end
  /\ pc \notin {"skipEnd", "skipLoop", "rejected"} => base <= index /\ index <= end
  /\ pc \in UnmarshalReads \cup SkipReads /\ InputLeft => index + 1 \in DOMAIN buf
  /\ pc = "accepted" => index = Len(buf)

=============================================================================
