----------------------------- MODULE ReplySplices -----------------------------
(***************************************************************************)
(* The replies pg_apply_response edits word by word: pages of saved gifts  *)
(* and replies with the own account.  One thread handles one reply at a    *)
(* time.  The two kinds of rewriters read different globals, so the        *)
(* watcher's stores into the ones the reply at hand does not look at are   *)
(* left out.                                                               *)
(***************************************************************************)
EXTENDS GiftSplice, UsernameSplice

SplicesInit == Init /\ UsersInit

SplicesNext ==
  \/ at = "idle" /\ Next /\ UNCHANGED userVars
  \/ step = "idle" /\ UsersNext /\ UNCHANGED vars

SplicesSpec == SplicesInit /\ [][SplicesNext]_<<vars, userVars>>
=============================================================================
