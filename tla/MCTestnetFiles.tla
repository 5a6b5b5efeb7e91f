---------------------------- MODULE MCTestnetFiles ----------------------------
(* Instances of TestnetFiles for model checking.                           *)
EXTENDS TestnetFiles

(* One entry that is no integer, a negative one, a stake within and one    *)
(* beyond the balance.                                                     *)
MCTexts == {Invalid, -1, 200, 600}
MCSoundTexts == {Invalid, 200, 300}

(* The default ports, one port for all nodes and one for each of two.      *)
MCPortLists == {<<>>, <<47222>>, <<47222, 50434>>}
MCSomePorts == {<<>>, <<47222>>}

=============================================================================
