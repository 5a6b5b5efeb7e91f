\* Every message from short buffers of every kind, and from its own encoding.
CONSTANTS
  Group = 5
  High = 32
  Half = 2048
  TagHalf = 32
  Wide = 2
  Narrow = 1
  Inputs <- MCInputs
  Authorities <- MCAuthorities
SPECIFICATION CodecSpec
INVARIANTS CodecTypeOK InBounds RoundTrip
PROPERTIES ImplementsGrammar Terminates
CHECK_DEADLOCK FALSE
