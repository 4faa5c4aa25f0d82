---------------------------- MODULE MCConfigReload ----------------------------
(* ConfigReload with a group of two patches, two hooks, of which this client *)
(* lacks one, and the rendered patch of the credits.                         *)
EXTENDS ConfigReload

MCKeys == <<"acc", "stars", "starsAmount", "ton", "badge", "phone">>
MCOrder == <<"phone", "setFlags", "credits", "acc1", "acc2">>
MCDrivers == [acc1 |-> {"acc"}, acc2 |-> {"acc"}, phone |-> {"phone"},
              setFlags |-> {"badge"}, credits |-> {"stars", "ton"}]
MCGrouped == {"acc2"}
MCRendered == {"credits"}
MCHooks == {"phone", "setFlags"}
MCCreation == <<"phone", "setFlags">>
MCPresent == {"acc1", "acc2", "setFlags", "credits"}
MCContents == { <<"badge", "ton">>, <<"acc", "stars", "starsAmount">> }

\* A state without what will be set again before it is looked at: the locals of a
\* thread that is past them, and the bytes rendered for a patch nobody is at.
InUse(t) ==
  [size |-> IF pc[t] = "read" THEN size[t] ELSE 0,
   text |-> IF pc[t] = "load" \/ (t = "watcher" /\ pc[t] \in Applying) THEN text[t] ELSE Missing,
   want |-> IF pc[t] \in Applying THEN want[t] ELSE {}]
Writing(t) == pc[t] \in {"search", "match", "capture", "write"} /\ Current(t) \in Rendered
InUseNow ==
  <<guiVars, pc, idx, InUse("main"), InUse("watcher"), last, flags,
    IF Writing("main") \/ Writing("watcher") THEN rendered ELSE Unknown,
    code, searched, site, captured, hookVars, met>>
=============================================================================
