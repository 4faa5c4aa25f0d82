SPECIFICATION Spec
CONSTANTS
  bytePatch = bytePatch
  otherPatch = otherPatch
  Releases = 1
  Builds = 1
  Patches <- MCPatches
  Binary <- MCBinary
INVARIANT ReportedActiveIsWrapped
