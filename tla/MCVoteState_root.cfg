\* Is the root of an accepted update on this fork?
SPECIFICATION Spec
CONSTANTS
  MAX_LOCKOUT_HISTORY = 2
  Pow2 <- MCPow2
  MAX_EPOCH_CREDITS_HISTORY = 2
  MAX_ENTRIES = 3
  SLOTS_PER_EPOCH = 2
  MaxSlot = 5
  VoteInputs <- Votes
  UpdateInputs <- Updates
INVARIANT RootOnThisFork
CHECK_DEADLOCK FALSE
