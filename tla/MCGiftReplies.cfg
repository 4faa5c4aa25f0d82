SPECIFICATION Spec
CONSTANTS
  i1 = i1
  i2 = i2
  p1 = p1
  p2 = p2
  u2 = u2
  Size = 1
  Id <- MCId
  NoId = NoId
  NoArg = 0
  Username = {}
  Peer = {p1, p2}
  MaxUsernames = 0
  Arg = {0, p1, p2, u2}
  Count = {}
  Requests <- MCRequests
  Configs <- MCConfigs
  Scope <- MCScope
  AsUser <- MCAsUser
SYMMETRY Symmetry
INVARIANT TypeOK
INVARIANT OnlyEntitledRewrites
INVARIANT TransferNamesNoOther
