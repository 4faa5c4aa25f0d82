---------------------------- MODULE MCDisplayHooks ----------------------------
(* DisplayHooks with the own account and one other user.                    *)
EXTENDS DisplayHooks

CONSTANTS me, bob, meow

\* The first has texts and the second has not.
Mine ==
  [on |-> {"badge", "premium", "verify", "rating", "phone", "hidePhone", "userid"},
   mode |-> [badge |-> "onlySelf", verify |-> "all", rating |-> "onlySelf",
             channel |-> "allExceptSelf"],
   value |-> [verify |-> meow, rating |-> meow, channel |-> meow, phone |-> meow, userid |-> meow]]

Others ==
  [Mine EXCEPT !.on = {"verify", "rating", "channel", "phone", "hidePhone", "fragment"},
               !.mode.verify = "allExceptSelf",
               !.value.verify = Nothing, !.value.rating = Nothing, !.value.phone = Nothing]

Off == [Others EXCEPT !.on = {}]

MCConfigs == {Mine, Others, Off}
=============================================================================
