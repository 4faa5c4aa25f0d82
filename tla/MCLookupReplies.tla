--------------------------- MODULE MCLookupReplies ---------------------------
(* ReplyTracking with the lookups: phone, usernames, fact check.            *)
EXTENDS TrackedRequests, TLC

CONSTANTS i1, i2, i3, ann, bob

MCId == {i1, i2, i3}

LookupFlags == {"msg", "phone", "fact", "names"}

On == [on |-> LookupFlags, mode |-> [spoof |-> "all", unique |-> "all"], list |-> <<ann, bob>>]
Off == [on |-> {"msg", "names"}, mode |-> [spoof |-> "all", unique |-> "all"], list |-> <<>>]

MCConfigs == {On, Off}

Ask(k, s, w) == [kind |-> k, self |-> s, what |-> w]

MCRequests ==
  { Ask("phoneInfo", TRUE, NoArg), Ask("usernameInfo", FALSE, bob),
    Ask("factCheck", FALSE, 1), Ask("factCheck", FALSE, 2) }

PhoneTap == {Ask("phoneInfo", TRUE, NoArg)}

\* Nobody is asked to be given anything.
MCAsUser == <<>>

MCScope == {"phone", "fragment", "fact", "names", "coll"}

\* No action looks at the histories, and no property of this run does.
WithoutHistory == <<watcherVars, ring, engineVars, request>>

Symmetry == Permutations(MCId)
=============================================================================
