SPECIFICATION Spec
CONSTANTS
  Keys <- MCKeys
  Order <- MCOrder
  Drivers <- MCDrivers
  Grouped <- MCGrouped
  Rendered <- MCRendered
  Hooks <- MCHooks
  Creation <- MCCreation
  Present <- MCPresent
  Contents <- MCContents
  FirstSecond = 5
INVARIANT TypeOK
INVARIANT CodeFollowsFlags
PROPERTY ChangedTextTakesEffect
VIEW InUseNow
