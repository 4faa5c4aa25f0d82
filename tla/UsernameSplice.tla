---------------------------- MODULE UsernameSplice ----------------------------
(***************************************************************************)
(* What pg_custom_usernames does to a reply with the own account: it finds *)
(* the account's list of usernames in the words, or the place where one    *)
(* would be, builds the list of the configuration and puts it there.  The  *)
(* watcher clears and fills that list meanwhile.                           *)
(*                                                                         *)
(* The words are those of TLWalker; both flags words of a user are one.    *)
(* The feature's switch is read once, on entry: switched off is an empty   *)
(* list here.                                                              *)
(***************************************************************************)
EXTENDS TLWalker, SequencesExt

CONSTANTS
  UserReplies,   \* the replies with users Telegram may receive
  NameLists,     \* the lists of usernames the GUI may write
  Names,         \* the usernames in them
  Blank,         \* an entry of the array that has been cleared
  Slots,         \* PG_MAX_CUSTOM_USERNAMES
  ChangedRoom    \* the words that may have to be staged

\* A user of a reply: the fields it has; what its emoji status is.
UserField == {"self", "first_name", "restriction_reason", "emoji_status", "usernames", "color"}
User == [has : SUBSET UserField, status : {"emojiStatus", "emojiStatusEmpty", "until", "alien"}]

Static == -1   \* the count of a grown copy, which every rewriter takes for shared

ASSUME SlotsAssumption == Slots \in 1 .. MaxElements /\ ChangedRoom \in Nat
ASSUME NamesAssumption ==
  /\ Blank \notin Names /\ NameLists \subseteq Seq(Names)
  /\ "genuine" \notin Names \cup {Blank}
ASSUME UserTextAssumption ==
  UserField \cup Names \cup {Blank} \cup
    {"own", "id", "about", "alien", "editable", "active", "until"} \subseteq Text

\* The own account is in a reply once; a reply is no longer than a vector may be.
ASSUME UserRepliesAssumption ==
  /\ UserReplies \subseteq [boxed : BOOLEAN, users : Seq(User), slack : Nat, ref : {1, 2}]
  /\ \A r \in UserReplies : \A i, j \in DOMAIN r.users :
       "self" \in r.users[i].has /\ "self" \in r.users[j].has => i = j
  /\ \A r \in UserReplies : Len(r.users) <= MaxElements

VARIABLES
  entries,   \* g_custom_usernames
  count,     \* g_custom_usernames_count
  list,      \* the list the watcher is loading or has loaded
  loader,    \* where the watcher is: "asleep", "clear", "reset", "fill"
  got,       \* the reply, as Telegram received it
  body,      \* its words
  space,     \* the capacity of its vector
  holders,   \* its reference count
  noted,     \* is its id in g_custom_username_req_ring?
  at,        \* where the MTProto thread is
  target,    \* where the list of the own account is or would be
  built,     \* pg_cu_build_vector: the words so far
  shown,     \* history: the list the own account has been given
  steady,    \* history: no reload since the reply came
  refused    \* history: was there no memory or no room to stage?

watcherVars == <<entries, count, list, loader>>
userReply == <<got, body, space, holders, noted>>
userVars == <<watcherVars, userReply, at, target, built, shown, steady, refused>>

----------------------------------------------------------------------------
(* A reply in words, as the server sends it and as it is meant to become.  *)

Genuine == <<"genuine">>   \* stands for the list a user came with

NameWords(name, first) ==
  <<Ctor("username"), FlagsWord(IF first THEN {"editable", "active"} ELSE {"active"}), Data(name)>>

NamesWords(names) ==
  <<VectorId, Number(Len(names))>>
  \o FlattenSeq([k \in DOMAIN names |-> NameWords(names[k], k = 1)])

StatusWords(status) ==
  CASE status = "alien" -> <<Ctor("alien"), Data("own")>>
    [] status = "emojiStatusEmpty" -> <<Ctor("emojiStatusEmpty")>>
    [] status = "until" -> <<Ctor("emojiStatus"), FlagsWord({"until"}), Data("own"), Data("own")>>
    [] OTHER -> <<Ctor("emojiStatus"), FlagsWord({}), Data("own")>>

\* A user with its own list of usernames, or the one it was given.
UserWords(u, names) ==
  LET bits == u.has \cup (IF names = Genuine THEN {} ELSE {"usernames"})
      Optional(f, ws) == IF f \in bits THEN ws ELSE <<>>
  IN <<Ctor("user"), FlagsWord(bits), Data("id")>>
     \o Optional("first_name", <<Data("own")>>)
     \o Optional("restriction_reason", <<VectorId, Number(1), Ctor("restrictionReason"), Data("own")>>)
     \o Optional("emoji_status", StatusWords(u.status))
     \o Optional("usernames", NamesWords(IF names = Genuine THEN <<"own">> ELSE names))
     \o Optional("color", <<Data("own")>>)

\* users.userFull, or the bare vector that answers users.getUsers.
ReplyWords(reply, names) ==
  (IF reply.boxed THEN <<Ctor("userFull"), Data("about")>> ELSE <<>>)
  \o <<VectorId, Number(Len(reply.users))>>
  \o FlattenSeq([i \in DOMAIN reply.users |->
                   UserWords(reply.users[i],
                             IF "self" \in reply.users[i].has THEN names ELSE Genuine)])

----------------------------------------------------------------------------
(* pg_cu_find_self_username_target.                                        *)

NoTarget == [from |-> 0, to |-> 0, flags |-> 0]

IsWord(ws, p, w) == p \in DOMAIN ws /\ ws[p] = w

\* pg_cu_usernames_span: the end of the usernames from p on, 0 if they are none.
NamesEnd(ws, p, n) ==
  IF /\ p + 3 * n <= Len(ws) + 1
     /\ \A k \in 0 .. n - 1 : ws[p + 3 * k] = Ctor("username")
    THEN p + 3 * n ELSE 0

\* The lists of usernames that begin between a user and the next.
NextUser(ws, i) == Earliest({k \in i + 1 .. Len(ws) : ws[k] = Ctor("user")} \cup {Len(ws) + 1})

ListsOf(ws, i) ==
  {j \in i + 2 .. NextUser(ws, i) - 2 :
     ws[j] = VectorId /\ ws[j + 1].n > 0 /\ NamesEnd(ws, j + 2, ws[j + 1].n) # 0}

Replace(ws, i) ==
  LET j == Earliest(ListsOf(ws, i))
  IN IF j = 0 THEN NoTarget
     ELSE [from |-> j, to |-> NamesEnd(ws, j + 2, ws[j + 1].n), flags |-> i + 1]

\* pg_tl_skip_string and the rest: where a field ends that begins at p if the user
\* has it; 0 when it is not what it should be, or an earlier one was not.
SkipName(ws, p, has) == IF "first_name" \in has THEN p + 1 ELSE p

AreReasons(ws, p) ==
  /\ IsWord(ws, p, VectorId)
  /\ \A k \in 0 .. ws[p + 1].n - 1 : IsWord(ws, p + 2 + 2 * k, Ctor("restrictionReason"))

SkipReasons(ws, p, has) ==
  IF "restriction_reason" \notin has THEN p
  ELSE IF AreReasons(ws, p) THEN p + 2 + 2 * ws[p + 1].n ELSE 0

\* Faulty: the optional end of a status is forgotten.
SkipStatusShort(ws, p, has) ==
  IF p = 0 \/ "emoji_status" \notin has THEN p
  ELSE CASE IsWord(ws, p, Ctor("emojiStatusEmpty")) -> p + 1
         [] IsWord(ws, p, Ctor("emojiStatus")) -> p + 3
         [] OTHER -> 0

SkipStatus(ws, p, has) ==
  IF p = 0 \/ "emoji_status" \notin has THEN p
  ELSE CASE IsWord(ws, p, Ctor("emojiStatusEmpty")) -> p + 1
         [] IsWord(ws, p, Ctor("emojiStatus")) ->
              p + 3 + Cardinality({"until"} \cap ws[p + 1].bits)
         [] OTHER -> 0

Insert(ws, i) ==
  LET has == ws[i + 1].bits
      place == SkipStatus(ws, SkipReasons(ws, SkipName(ws, i + 3, has), has), has)
  IN IF place = 0 THEN NoTarget ELSE [from |-> place, to |-> place, flags |-> i + 1]

TargetOf(ws, i) == IF "usernames" \in ws[i + 1].bits THEN Replace(ws, i) ELSE Insert(ws, i)

\* The first user that is the own account and has a place for the list.
FindTarget(ws) ==
  LET i == Earliest({k \in 1 .. Len(ws) - 2 : /\ ws[k] = Ctor("user")
                                              /\ "self" \in ws[k + 1].bits
                                              /\ TargetOf(ws, k) # NoTarget})
  IN IF i = 0 THEN NoTarget ELSE TargetOf(ws, i)

----------------------------------------------------------------------------
(* pg_custom_usernames and pg_cu_build_vector.                             *)

EnterUsernames ==
  /\ at = "enter"
  /\ noted' = (noted /\ count = 0)
  /\ target' = IF count > 0 /\ noted /\ holders = 1 THEN FindTarget(body) ELSE NoTarget
  /\ at' = IF target' = NoTarget THEN "done" ELSE "head"
  /\ UNCHANGED <<watcherVars, got, body, space, holders, built, shown, steady, refused>>

\* The number of usernames is read here ...
PutHead ==
  /\ at = "head"
  /\ built' = <<VectorId, Number(count)>>
  /\ at' = "names"
  /\ UNCHANGED <<watcherVars, userReply, target, shown, steady, refused>>

BuiltNames == (Len(built) - 2) \div 3

\* ... and again before each of them.
PutName ==
  /\ at = "names"
  /\ IF BuiltNames < count
       THEN built' = built \o NameWords(entries[BuiltNames + 1], BuiltNames = 0) /\ at' = at
       ELSE built' = built /\ at' = "splice"
  /\ UNCHANGED <<watcherVars, userReply, target, shown, steady, refused>>

WithBit(ws) == [ws EXCEPT ![target.flags] = FlagsWord(@.bits \cup {"usernames"})]

\* The tail slides to either side, the list goes into the gap, and the bit is set.
Tried ==
  WithBit(SubSeq(body, 1, target.from - 1) \o built \o SubSeq(body, target.to, Len(body)))

\* Faulty: the bit stays.
RevertedButBit ==
  SubSeq(Tried, 1, target.from - 1) \o SubSeq(body, target.from, Len(body))

\* The revert: the bit if it was set here, and the words that were staged.
Reverted ==
  LET whole == SubSeq(Tried, 1, target.from - 1) \o SubSeq(body, target.from, Len(body))
  IN IF target.from = target.to
       THEN [whole EXCEPT ![target.flags] = FlagsWord(@.bits \ {"usernames"})]
       ELSE whole

\* patchgram_tl_validate: any object, and nothing behind it.
Validate(ws) == LET r == Walk(ws) IN r.err = 0 /\ r.pos = Len(ws) + 1

NamesIn(ws) == [k \in 1 .. (Len(ws) - 2) \div 3 |-> ws[3 * k + 2].name]

Stages == Len(body) + 1 - target.from <= ChangedRoom

\* Validate, then publish the new size or revert; a tail too long stays.
SettleNames ==
  /\ refused' = ~Stages
  /\ IF Stages /\ Validate(Tried) THEN body' = Tried /\ shown' = NamesIn(built)
     ELSE body' = (IF Stages THEN Reverted ELSE body) /\ shown' = shown

\* The vector grows if it must, and is static from then on; without memory the
\* reply stays.
SpliceNames ==
  /\ at = "splice"
  /\ \/ Len(Tried) <= space /\ SettleNames /\ UNCHANGED <<space, holders>>
     \/ Len(Tried) > space /\ SettleNames /\ space' = Len(Tried) /\ holders' = Static
     \/ Len(Tried) > space /\ refused' = TRUE /\ UNCHANGED <<body, shown, space, holders>>
  /\ at' = "done" /\ built' = <<>> /\ target' = NoTarget
  /\ UNCHANGED <<watcherVars, got, noted, steady>>

----------------------------------------------------------------------------
(* Telegram.                                                               *)

NoReply == [boxed |-> FALSE, users |-> <<>>, slack |-> 0, ref |-> 1]

\* What of a list the array has room for.
Fitting(names) == SubSeq(names, 1, IF Len(names) < Slots THEN Len(names) ELSE Slots)
Entries(names) == [k \in 1 .. Slots |-> IF k \in DOMAIN names THEN names[k] ELSE Blank]

\* A reply to a request that was noted.  It meets whatever list was loaded last,
\* and the next load may begin at once.
ReceiveUsers(r, names) ==
  /\ at = "idle"
  /\ got' = r /\ body' = ReplyWords(r, Genuine)
  /\ space' = Len(body') + r.slack /\ holders' = r.ref
  /\ noted' = TRUE
  /\ list' = names /\ entries' = Entries(Fitting(names)) /\ count' = Len(Fitting(names))
  /\ at' = "enter" /\ steady' = TRUE
  /\ UNCHANGED <<loader, target, built, shown, refused>>

\* A paused session walks its queue again; the note is gone by then.
WalkUsersAgain ==
  /\ at = "done"
  /\ at' = "enter"
  /\ UNCHANGED <<watcherVars, userReply, target, built, shown, steady, refused>>

\* Between two replies nothing looks at the list.
DispatchUsers ==
  /\ at = "done" /\ at' = "idle"
  /\ entries' = Entries(<<>>) /\ count' = 0 /\ list' = <<>> /\ loader' = "asleep"
  /\ got' = NoReply /\ body' = <<>> /\ space' = 0 /\ holders' = 1 /\ noted' = FALSE
  /\ shown' = Genuine /\ steady' = TRUE /\ refused' = FALSE
  /\ UNCHANGED <<target, built>>

----------------------------------------------------------------------------
(* The watcher: the stores of pg_config_load into the list.                *)

Unread == UNCHANGED <<got, body, space, holders, at, target, built, shown, refused>>

LoadNames(names) ==
  /\ at # "idle" /\ loader = "asleep"
  /\ list' = names /\ loader' = "clear" /\ steady' = FALSE
  /\ UNCHANGED <<entries, count, noted>> /\ Unread

\* The memset.
ClearNames ==
  /\ loader = "clear"
  /\ entries' = Entries(<<>>) /\ loader' = "reset"
  /\ UNCHANGED <<count, list, noted, steady>> /\ Unread

ResetCount ==
  /\ loader = "reset"
  /\ count' = 0 /\ loader' = "fill"
  /\ UNCHANGED <<entries, list, noted, steady>> /\ Unread

\* Faulty: the array has no end.
FillNameUnbounded ==
  /\ loader = "fill" /\ count < Len(list)
  /\ entries' = [entries EXCEPT ![count + 1] = list[count + 1]] /\ count' = count + 1
  /\ UNCHANGED <<list, loader, noted, steady>> /\ Unread

FillName ==
  /\ loader = "fill" /\ count < Len(list) /\ count < Slots
  /\ entries' = [entries EXCEPT ![count + 1] = list[count + 1]] /\ count' = count + 1
  /\ UNCHANGED <<list, loader, noted, steady>> /\ Unread

\* With no usernames nothing is noted any more.
EndLoad ==
  /\ loader = "fill" /\ ~(count < Len(list) /\ count < Slots)
  /\ noted' = (noted /\ count > 0) /\ loader' = "asleep"
  /\ UNCHANGED <<entries, count, list, steady>> /\ Unread

----------------------------------------------------------------------------

UsersInit ==
  /\ entries = Entries(<<>>) /\ count = 0 /\ list = <<>> /\ loader = "asleep"
  /\ got = NoReply /\ body = <<>> /\ space = 0 /\ holders = 1 /\ noted = FALSE
  /\ at = "idle" /\ target = NoTarget /\ built = <<>>
  /\ shown = Genuine /\ steady = TRUE /\ refused = FALSE

UsersNext ==
  \/ \E r \in UserReplies, names \in NameLists : ReceiveUsers(r, names)
  \/ EnterUsernames
  \/ PutHead
  \/ PutName
  \/ SpliceNames
  \/ WalkUsersAgain
  \/ DispatchUsers
  \/ \E names \in NameLists : LoadNames(names)
  \/ ClearNames
  \/ ResetCount
  \/ FillName
  \/ EndLoad

----------------------------------------------------------------------------
(* Properties.                                                             *)

\* Every variable has its type; what the reply publishes fits in its vector.
UsersTypeOK ==
  /\ entries \in [1 .. Slots -> Names \cup {Blank}] /\ count \in 0 .. Slots
  /\ list \in NameLists \cup {<<>>} /\ loader \in {"asleep", "clear", "reset", "fill"}
  /\ got \in UserReplies \cup {NoReply} /\ body \in Seq(Word)
  /\ space \in Nat /\ Len(body) <= space /\ holders \in {1, 2, Static} /\ noted \in BOOLEAN
  /\ at \in {"idle", "enter", "head", "names", "splice", "done"}
  /\ built \in Seq(Word) /\ {steady, refused} \subseteq BOOLEAN

\* "Always validate the spliced buffer and REVERT byte-identically": between any two
\* steps the reply is the genuine one, or the genuine one with the own account's list
\* replaced as a whole, its bit set and its count right; every other user is as it
\* came.  A list whose count and names were read on two sides of a reload never stays.
UsersRenderedWhole == at # "idle" => body = ReplyWords(got, shown)

\* A list can be put into this reply: the walker of the validator reads it to the
\* end, and the own account is in it.
Rewritable(r) ==
  /\ r.boxed /\ r.ref = 1
  /\ \A i \in DOMAIN r.users : "emoji_status" \in r.users[i].has => r.users[i].status # "alien"
  /\ \E i \in DOMAIN r.users : "self" \in r.users[i].has

\* The account shows the whole list of the configuration, in its order, whatever
\* fields stand before and behind the place, longer or shorter than its own, when no
\* reload came meanwhile and memory and room were there.
ListIsShown ==
  at = "done" /\ steady /\ ~refused /\ list # <<>> /\ Rewritable(got) =>
    shown = Fitting(list)
=============================================================================
