\* The default authority, over chains that follow one another.
CONSTANTS
  stablecoin = stablecoin  bank = bank  gov = gov  alice = alice  Malformed = Malformed
  Modules <- MCModules
  Signers <- MCSigners
  Stablecoin = stablecoin
  Gov = gov
  Configured = Malformed
  MaxTxs = 2
  MaxChains = 2
SPECIFICATION ParamsSpec
INVARIANTS ParamsTypeOK StoredByGenesisOrAuthority PanicCause
CHECK_DEADLOCK FALSE
