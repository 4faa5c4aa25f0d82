---------------------------- MODULE MCGiftReplies ----------------------------
(* ReplyTracking with the gift features: two modes, value, form, transfer. *)
EXTENDS ReplyTracking, TLC

CONSTANTS i1, i2, p1, p2, u2

MCId == {i1, i2}

GiftFlags == {"spoof", "unique", "transfer"}

\* All on for the own profile and the others; the modes turned, unique gifts off.
Targeted == [on |-> GiftFlags, mode |-> [spoof |-> "self", unique |-> "others"], list |-> <<>>]
Turned == [on |-> GiftFlags \ {"unique"}, mode |-> [spoof |-> "others", unique |-> "all"], list |-> <<>>]

MCConfigs == {Targeted, Turned}

Ask(k, s, w) == [kind |-> k, self |-> s, what |-> w]

MCRequests ==
  { Ask("savedGifts", FALSE, NoArg),
    Ask("paymentForm", FALSE, NoArg),
    Ask("transferGift", FALSE, p1), Ask("transferGift", FALSE, p2) }

\* p1 is a user, p2 a channel that has its number in common with the user u2.
MCAsUser == (p1 :> p1) @@ (p2 :> u2)

\* Gifts of the own profile only, and a look at another's.
SelfOnly == {[on |-> {"spoof", "unique"}, mode |-> [spoof |-> "self", unique |-> "self"],
              list |-> <<>>]}
OthersGifts == {Ask("savedGifts", FALSE, NoArg)}

MCScope == ModeRing \cup {"transfer"}

Symmetry == Permutations(MCId)
=============================================================================
