SPECIFICATION Spec
CONSTANTS
  cat = cat
  dog = dog
  fox = fox
  bear = bear
  none = none
  Emoji = {cat, dog, fox}
  Sticker = {bear}
  Nothing = none
  Slots = 2
  ListRoom = 1
  Defaults <- MCDefaults
  Configs <- MCConfigs
  Requests <- MCRequests
  Replies <- MCReplies
INVARIANTS
  TypeOK
  SentWhole
  CacheGenuine
  SeenIsEmbedded
  EmbeddedIsGenuineOrOwn
  AutoloadCaches
