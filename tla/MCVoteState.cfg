\* Vote and UpdateVoteState instructions mixed: three-deep stack, three SlotHashes,
\* short epochs.
SPECIFICATION Spec
CONSTANTS
  MAX_LOCKOUT_HISTORY = 3
  Pow2 <- MCPow2
  MAX_EPOCH_CREDITS_HISTORY = 2
  MAX_ENTRIES = 3
  SLOTS_PER_EPOCH = 2
  MaxSlot = 5
  VoteInputs <- Votes
  UpdateInputs <- Updates
INVARIANTS TypeOK TowerWellFormed VotesOnThisFork CreditsChained UpdateAgreesWithVote
PROPERTIES NeverBackwards LockoutsKept
CHECK_DEADLOCK FALSE
