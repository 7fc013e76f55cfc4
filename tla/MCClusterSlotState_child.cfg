CONSTANTS
  Blocks <- MCBlocks
  ParentOf <- MCParentOf
  RootBlock <- MCRoot
  Validators = {}
  EpochStakes <- MCStakes
  SlotsPerEpoch = 4
  ConfirmedKeys <- ConfirmChild
  SampledKeys <- SampleOther
SPECIFICATION ClusterSpec
PROPERTY ConfirmedIsNeverPurged
CHECK_DEADLOCK FALSE
