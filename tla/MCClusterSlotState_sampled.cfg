CONSTANTS
  Blocks <- MCBlocks
  ParentOf <- MCParentOf
  RootBlock <- MCRoot
  Validators = {}
  EpochStakes <- MCStakes
  SlotsPerEpoch = 4
  ConfirmedKeys <- ConfirmNone
  SampledKeys <- SampleOurs
SPECIFICATION ClusterSpec
INVARIANTS OnlyConfirmationSkipsMarking
CHECK_DEADLOCK FALSE
