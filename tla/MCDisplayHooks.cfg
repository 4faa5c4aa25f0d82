SPECIFICATION Spec
CONSTANTS
  me = me
  bob = bob
  meow = meow
  User = {me, bob}
  Accounts = {me}
  Value = {meow}
  Nothing = Nothing
  Null = Null
  Configs <- MCConfigs
INVARIANTS
  TypeOK
  ForcedAsAsked
  OthersAreShownAsTheyAre
PROPERTIES
  NotifiesBeforeWrites
  NullOnlyInRace
