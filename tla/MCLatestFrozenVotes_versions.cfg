CONSTANTS
  Pubkeys = {a}
  Blocks <- MCBlocks
  MaxRoot = 2
SPECIFICATION Spec
INVARIANT EveryVersionIsDelivered
