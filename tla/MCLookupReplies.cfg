SPECIFICATION Spec
CONSTANTS
  i1 = i1
  i2 = i2
  i3 = i3
  ann = ann
  bob = bob
  Size = 2
  Id <- MCId
  NoId = NoId
  NoArg = 0
  Username = {ann, bob}
  Peer = {}
  MaxUsernames = 2
  Arg = {0, 1, 2, ann, bob}
  Count = {1, 2}
  Requests <- MCRequests
  Configs <- MCConfigs
  Scope <- MCScope
  AsUser <- MCAsUser
SYMMETRY Symmetry
VIEW WithoutHistory
INVARIANT NoDuplicateIds
INVARIANT FactCountIsOwn
INVARIANT ClosedRingHoldsAtMostOne
PROPERTY ForgottenForAReason
PROPERTY ImplementsNotedRequests
