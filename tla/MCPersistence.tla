----------------------------- MODULE MCPersistence -----------------------------
\* The bounds are in the cfg: two releases of Telegram after the first, one new
\* build of the DLL, one byte patch and one other patch.
EXTENDS Persistence

CONSTANTS bytePatch, otherPatch

MCPatches == {bytePatch, otherPatch}
MCBinary == {bytePatch}
=============================================================================
