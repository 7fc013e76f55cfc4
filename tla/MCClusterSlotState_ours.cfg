CONSTANTS
  Blocks <- MCBlocks
  ParentOf <- MCParentOf
  RootBlock <- MCRoot
  Validators = {}
  EpochStakes <- MCStakes
  SlotsPerEpoch = 4
  ConfirmedKeys <- ConfirmOurs
  SampledKeys <- SampleAny
SPECIFICATION ClusterSpec
INVARIANTS ConfirmedVersionStands ConfirmationIsRecorded
PROPERTY ConfirmedIsNeverPurged
CHECK_DEADLOCK FALSE
