CONSTANTS
  Blocks <- MCBlocks
  ParentOf <- MCParentOf
  RootBlock <- MCRoot
  Validators = {}
  EpochStakes <- MCStakes
  SlotsPerEpoch = 4
  ConfirmedKeys <- ConfirmOther
  SampledKeys <- SampleAny
SPECIFICATION ClusterSpec
INVARIANTS ClusterTypeOK NeverPanics ConfirmedVersionWins DuplicateIsExcluded DeadConfirmedIsReported
CHECK_DEADLOCK FALSE
