SPECIFICATION Spec
CONSTANTS
  bytePatch = bytePatch
  otherPatch = otherPatch
  Releases = 3
  Builds = 2
  Patches <- MCPatches
  Binary <- MCBinary
INVARIANTS
  TypeOK
  ClientSurvives
  LiveReloadRunsBundledDll
  RestoredWhenUninstalled
PROPERTY NewestSurvivesInstall
