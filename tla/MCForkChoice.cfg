CONSTANTS
  Blocks <- MCBlocks
  ParentOf <- MCParentOf
  RootBlock <- MCRoot
  Validators <- MCValidators
  EpochStakes <- MCStakes
  SlotsPerEpoch = 2
SPECIFICATION Spec
INVARIANTS TypeOK WeightsAreExact BestSlotIsHeaviest ConfirmedUpToRoot NeverPanics InvalidDownward 
PROPERTY ConfirmationIsFinal
