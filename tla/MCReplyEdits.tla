----------------------------- MODULE MCReplyEdits -----------------------------
(* ReplyEdits with a few replies of each kind, roomy and tight.            *)
EXTENDS ReplyEdits

Reply(k, e, n) == [kind |-> k, elements |-> e, slack |-> n]

MCReplies ==
  { Reply("appConfig", <<"notBlocked">>, 0), Reply("appConfig", <<"own">>, 1),
    Reply("starGifts", <<"gift", "alien">>, 1), Reply("starGifts", <<"gift">>, 1),
    Reply("config", <<"own">>, 0), Reply("asked", <<"own">>, 0) }

MCConfigs == {Feature, {"monetization"}}
=============================================================================
