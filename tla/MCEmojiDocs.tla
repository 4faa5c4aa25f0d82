----------------------------- MODULE MCEmojiDocs -----------------------------
(* EmojiDocs with three emoji for two slots, and one gift with its sticker.  *)
EXTENDS EmojiDocs

CONSTANTS cat, dog, fox, bear, none

\* The spoof names the emoji that is also the model.
Building == [on |-> {"unique", "transfer", "hidden", "offline", "nophone"},
             model |-> cat, symbol |-> dog, sticker |-> none, list |-> <<>>]
Swapping == [on |-> {"unique", "spoof", "hidden", "typing", "offline", "nophone"},
             model |-> cat, symbol |-> fox, sticker |-> cat, list |-> <<dog, cat>>]

MCConfigs == {Building, Swapping}
MCDefaults == <<fox>>

Ask(kind, list, bit, shared) == [kind |-> kind, ids |-> list, bit |-> bit, shared |-> shared]

MCRequests ==
  { Ask("getEmojiDocs", <<fox>>, FALSE, FALSE), Ask("getEmojiDocs", <<>>, FALSE, TRUE),
    Ask("updateStatus", <<>>, FALSE, TRUE), Ask("addContact", <<>>, TRUE, FALSE),
    Ask("setTyping", <<>>, FALSE, FALSE) }

Docs(set) == [kind |-> "docs", docs |-> set, stickers |-> <<>>, shared |-> FALSE]
Page(stickers, shared) ==
  [kind |-> "page", docs |-> {}, stickers |-> stickers, shared |-> shared]
Transfer == [kind |-> "transfer", docs |-> {}, stickers |-> <<>>, shared |-> FALSE]

MCReplies == {Docs({dog, fox}), Page(<<bear>>, FALSE), Page(<<bear>>, TRUE), Transfer}

OnePage == {Page(<<bear>>, FALSE)}
JustSwapping == {Swapping}
=============================================================================
