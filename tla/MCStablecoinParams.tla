--------------------------- MODULE MCStablecoinParams ---------------------------
(* Instances of StablecoinParams for model checking.                       *)
EXTENDS StablecoinParams

CONSTANTS stablecoin, bank, gov, alice

MCModules == {stablecoin, bank}
MCSigners == {gov, alice}

=============================================================================
