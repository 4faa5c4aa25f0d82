SPECIFICATION SplicesSpec
CONSTANTS
  Text <- MCText
  Replies <- MCReplies
  Configs <- MCConfigs
  ExtrasLimit = 2
  RebuildLimit = 2
  StageRoom = 46
  GiftRoom = 10
  Reloads = 2
  UserReplies <- MCUserReplies
  NameLists <- MCNameLists
  Names = {"ann", "bob"}
  Blank = ""
  Slots = 2
  ChangedRoom = 30
INVARIANTS
  TypeOK
  RenderedWhole
  ExtrasReachAll
  RebuildReachesAll
  UsersTypeOK
  UsersRenderedWhole
  ListIsShown
