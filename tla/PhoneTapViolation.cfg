SPECIFICATION Spec
CONSTANTS
  i1 = i1
  i2 = i2
  i3 = i3
  ann = ann
  bob = bob
  Size = 2
  Id = {i1}
  NoId = NoId
  NoArg = 0
  Username = {ann, bob}
  Peer = {}
  MaxUsernames = 2
  Arg = {0, 1, 2, ann, bob}
  Count = {1, 2}
  Requests <- PhoneTap
  Configs <- MCConfigs
  Scope <- MCScope
  AsUser <- MCAsUser
INVARIANT EveryPhoneTapAnswered
