---------------------------- MODULE MCScaffoldMerge ----------------------------
(* Instances of ScaffoldMerge for model checking.                          *)
EXTENDS ScaffoldMerge

=============================================================================
