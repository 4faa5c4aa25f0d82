SPECIFICATION Spec
CONSTANTS
  Blocks = 3
  Replies <- MCReplies
  Configs <- MCConfigs
  QueueRoom = 2
INVARIANT TypeOK
INVARIANT EditedWhole
INVARIANT CountCoversHolders
PROPERTY OurBlocksStay
PROPERTY ImplementsAtomicReplies
PROPERTY PassedOverForAReason
