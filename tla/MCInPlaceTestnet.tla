--------------------------- MODULE MCInPlaceTestnet ---------------------------
(* Instances of InPlaceTestnet for model checking.                         *)
EXTENDS InPlaceTestnet

CONSTANTS v1, v2, k1, k2, k3, a1, a2

MCOperators == {v1, v2}
MCKeys == {k1, k2, k3}
MCAccounts == {a1, a2}

(* The default of the flag, one account, one twice, a bad entry at the end.*)
MCFundLists == {<<Empty>>, <<a1>>, <<a1, a1>>, <<a2, Empty>>}

=============================================================================
