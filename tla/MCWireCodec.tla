------------------------------ MODULE MCWireCodec ------------------------------
(***************************************************************************)
(* Instances of WireCodec for model checking.  A byte has five bits and    *)
(* the continuation bit, an int twelve, a field number six, so that three  *)
(* bytes overflow a varint, and a fixed64 two bytes.                       *)
(***************************************************************************)
EXTENDS WireCodec

(* Every short buffer of the bytes that matter: 0, 1, 10 and 18 (tags of   *)
(* the known fields), 8, 16 (the same fields with another wire type), 24,  *)
(* 25, 26, 27, 28, 29, 30 (field 3 with each wire type), 31, 32, 63 (the   *)
(* largest group, alone and with the continuation bit).                    *)
All == {0, 1, 2, 8, 10, 18, 24, 25, 26, 27, 28, 29, 30, 31, 32, 63}
Some == {0, 1, 10, 18, 26, 27, 28, 63}

Upto(S, n) == UNION {[1 .. k -> S] : k \in 0 .. n}

Of(m, bytes) == {[message |-> m, bytes |-> b] : b \in bytes}

MCInputs ==
  Of("MsgUpdateParams", Upto(All, 3) \cup Upto(Some, 4) \cup Upto({1, 10, 18, 27, 28}, 5))
    \cup UNION {Of(m, Upto({0, 1, 10, 26, 27, 28, 31, 63}, 3)) : m \in Messages}

(* Authorities whose length takes one byte, up to the longest one, and two.*)
MCAuthorities == {<<>>, <<10>>, <<63, 63>>, [i \in 1 .. 31 |-> i], [i \in 1 .. 32 |-> i]}

=============================================================================
