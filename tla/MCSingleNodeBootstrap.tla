------------------------- MODULE MCSingleNodeBootstrap -------------------------
(* Instances of SingleNodeBootstrap for model checking.                    *)
EXTENDS SingleNodeBootstrap

=============================================================================
