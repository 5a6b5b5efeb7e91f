--------------------------- MODULE MCModuleAccounts ----------------------------
(* Instances of ModuleAccounts for model checking.                         *)
EXTENDS ModuleAccounts

=============================================================================
