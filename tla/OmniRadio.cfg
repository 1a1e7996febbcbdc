CONSTANTS
  HE_BITLEN = 3
  RINGS_SZ = 7
  Slots = 2
  Durations = {170, 1250, 2675}
SPECIFICATION Spec
INVARIANTS
  RingFaithful
  Decodes
  PrintedIntact
