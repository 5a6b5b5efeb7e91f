-------------------------- MODULE MCZeroHeightExport --------------------------
(* Instances of ZeroHeightExport for model checking; the configurations    *)
(* give the constants.                                                     *)
EXTENDS ZeroHeightExport

=============================================================================
