SPECIFICATION Spec
CONSTANTS
  cat = cat
  dog = dog
  fox = fox
  bear = bear
  none = none
  Emoji = {cat, dog, fox}
  Sticker = {bear}
  Nothing = none
  Slots = 2
  ListRoom = 1
  Defaults <- MCDefaults
  Configs <- JustSwapping
  Requests <- MCRequests
  Replies <- OnePage
INVARIANT
  NeverSwapped
