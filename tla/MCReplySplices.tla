----------------------------- MODULE MCReplySplices -----------------------------
(* Pages of up to three gifts, and replies of up to two users. *)
EXTENDS ReplySplices

G(kind, own) == [kind |-> kind, own |-> own, sticker |-> "document"]

Bare == G("regular", {})
Full == G("regular", {"from_id", "message", "limited", "can_export_at", "gift_num"})
Cold == G("regular", {"can_transfer_at", "transfer_stars", "auction", "title"})
Upgraded == G("unique", {"from_id", "can_export_at"})
Unknown == G("alien", {"gift_num"})
NoDocument == [Bare EXCEPT !.sticker = "documentEmpty"]

Page(gifts, slack, holds) == [gifts |-> gifts, slack |-> slack, ref |-> holds]

MCReplies ==
  { Page(<<>>, 0, 1), Page(<<Bare>>, 90, 2), Page(<<Bare, Full>>, 0, 1),
    Page(<<Cold, Upgraded, Full>>, 90, 1), Page(<<Bare, Cold, Bare>>, 90, 1),
    Page(<<NoDocument, Full>>, 8, 1), Page(<<Cold, Unknown, Bare>>, 3, 1) }

MCConfigs ==
  { InOrder \cup {"spoof"},
    {"spoof", "message", "limited", "unique", "owner_id"},
    {"transfer_stars", "gift_num", "unique", "host_id"} }

U(has, status) == [has |-> has, status |-> status]
Users(boxed, users, slack, holds) ==
  [boxed |-> boxed, users |-> users, slack |-> slack, ref |-> holds]

Friend == U({"first_name", "usernames"}, "emojiStatusEmpty")
Unnamed == U({"self", "first_name", "restriction_reason", "color"}, "emojiStatusEmpty")
Named == U({"self", "restriction_reason", "emoji_status", "usernames"}, "emojiStatus")
Busy == U({"self", "emoji_status", "color"}, "until")
Cleared == U({"self", "emoji_status"}, "emojiStatusEmpty")
Odd == U({"self", "emoji_status"}, "alien")
OddNamed == U({"self", "emoji_status", "usernames"}, "alien")

MCUserReplies ==
  { Users(TRUE, <<Friend, Unnamed>>, 0, 1), Users(TRUE, <<Named, Friend>>, 0, 1),
    Users(TRUE, <<Busy, Friend, Friend, Friend>>, 9, 1),
    Users(TRUE, <<Cleared, Friend>>, 9, 2), Users(TRUE, <<Cleared, Friend>>, 9, 1),
    Users(TRUE, <<Friend>>, 9, 1), Users(TRUE, <<Odd>>, 9, 1),
    Users(TRUE, <<OddNamed, Friend>>, 9, 1), Users(FALSE, <<Busy, Friend>>, 9, 1) }

MCNameLists == {<<>>, <<"ann">>, <<"bob", "ann", "bob">>}

MCText == STRING
=============================================================================
