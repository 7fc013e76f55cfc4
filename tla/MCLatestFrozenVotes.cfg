CONSTANTS
  Pubkeys = {a}
  Blocks <- MCBlocks
  MaxRoot = 2
SPECIFICATION Spec
INVARIANTS TypeOK GossipVoteCounts WaitingVotesAreUnfrozen LatestVoteIsDelivered
PROPERTY LatestVotesAdvance
