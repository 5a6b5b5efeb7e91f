------------------------------ MODULE WireGrammar ------------------------------
(***************************************************************************)
(* What decoding a message means, without loops, nested calls or counters: *)
(* a message is a sequence of fields as the grammar has them; a reader     *)
(* takes one whole field after the other, keeps the last authority, and    *)
(* refuses the message at the first bytes that are no field.  WireCodec    *)
(* implements it.                                                          *)
(***************************************************************************)
EXTENDS WireSyntax

VARIABLES
  verdict,     \* "idle", "reading", "accepted" or "rejected"
  message,     \* which message is expected
  bytes,       \* what it is to be read from
  taken,       \* how many of the bytes are taken
  read         \* the authority read so far

reader == <<verdict, message, bytes, taken, read>>

Init ==
  /\ verdict \in {"idle", "reading"} /\ message \in Messages
  /\ bytes \in Seq(Byte) /\ taken = 0 /\ read = <<>>

Receive ==
  /\ verdict = "idle"
  /\ verdict' = "reading" /\ message' \in Messages /\ bytes' \in Seq(Byte)
  /\ taken' = 0 /\ read' = <<>>

TakeField ==
  /\ verdict = "reading"
  /\ taken' \in taken + 1 .. Len(bytes)
  /\ IsField(message, bytes, taken, taken')
  /\ read' = Holds(message, read, bytes, taken, taken')
  /\ UNCHANGED <<verdict, message, bytes>>

Accept ==
  /\ verdict = "reading" /\ taken = Len(bytes)
  /\ verdict' = "accepted"
  /\ UNCHANGED <<message, bytes, taken, read>>

Reject ==
  /\ verdict = "reading" /\ verdict' = "rejected"
  /\ taken < Len(bytes)
  /\ \A j \in taken + 1 .. Len(bytes) : ~IsField(message, bytes, taken, j)
  /\ UNCHANGED <<message, bytes, taken, read>>

(* The message is no longer needed.                                        *)
Forget ==
  /\ verdict = "accepted"
  /\ verdict' = "idle" /\ bytes' = <<>> /\ taken' = 0 /\ read' = <<>>
  /\ UNCHANGED message

Next == Receive \/ TakeField \/ Accept \/ Reject \/ Forget

Spec == Init /\ [][Next]_reader

=============================================================================
