------------------------------ MODULE EmojiDocs ------------------------------
(***************************************************************************)
(* The way of a custom emoji's document into an upgraded gift.  The user   *)
(* chooses an emoji as model and one as symbol; pg_apply_request appends   *)
(* their ids to one messages.getCustomEmojiDocuments of Telegram's own;    *)
(* pg_unique_capture keeps their documents when a reply carries them; and  *)
(* pg_build_unique_blob embeds what was kept, or else the gift's sticker.  *)
(* With it the other edits and the drops of pg_apply_request.              *)
(*                                                                         *)
(* One thread handles requests and replies; the watcher stores into the    *)
(* configuration between any two of its steps.  The gift features' target  *)
(* mode is "all"; ReplyTracking has the others.                            *)
(***************************************************************************)
EXTENDS Integers, Sequences, FiniteSets

CONSTANTS
  Emoji,      \* ids of custom emoji
  Sticker,    \* ids of the stickers gifts come with
  Nothing,    \* the id 0
  Slots,      \* PG_UNIQUE_DOC_SLOTS
  ListRoom,   \* PG_MAX_HIDDEN_GIFTS
  Defaults,   \* the emoji of the hidden gifts that are built in
  Configs,    \* the configurations the GUI may write
  Requests,   \* the requests Telegram may make
  Replies     \* the replies it may receive, besides the one to our request

\* The bool that drops a kind of request, and the one that edits it in place.
DropFlag == [setTyping |-> "typing", saveDraft |-> "drafts", readHistory |-> "read",
             getSponsored |-> "adsTelegram", getPromoData |-> "adsProxy",
             getStories |-> "stories"]
EditFlag == [updateStatus |-> "offline", addContact |-> "nophone"]

FlagsOf(table) == {table[k] : k \in DOMAIN table}
Flag == {"spoof", "unique", "transfer", "hidden"} \cup FlagsOf(DropFlag) \cup FlagsOf(EditFlag)

Part == {"model", "symbol"}
EmojiOrNothing == Emoji \cup {Nothing}
Config == [on : SUBSET Flag, model : EmojiOrNothing, symbol : EmojiOrNothing,
           sticker : EmojiOrNothing, list : Seq(Emoji)]

\* A document's id is only good with the access hash the server gave it.
Doc == [id : Emoji \cup Sticker, hash : Emoji \cup Sticker]
Genuine(id) == [id |-> id, hash |-> id]
NoDoc == Genuine(Nothing)

Kind == DOMAIN DropFlag \cup DOMAIN EditFlag \cup {"getEmojiDocs"}
Request == [kind : Kind, ids : Seq(Emoji), bit : BOOLEAN, shared : BOOLEAN]
NoRequest == [kind |-> "none", ids |-> <<>>, bit |-> FALSE, shared |-> FALSE]

\* Documents on their own, a page of gifts, or the reply to a transfer.
Reply == [kind : {"docs", "page", "transfer"}, docs : SUBSET Emoji,
          stickers : Seq(Sticker), shared : BOOLEAN]
NoReply == [kind |-> "none", docs |-> {}, stickers |-> <<>>, shared |-> FALSE]

ASSUME SlotsAssumption == Slots \in Nat \ {0}
ASSUME IdsAssumption == Nothing \notin Emoji \cup Sticker /\ Emoji \cap Sticker = {}
ASSUME ListAssumption == ListRoom \in Nat /\ Defaults \in Seq(Emoji) /\ Len(Defaults) <= ListRoom
ASSUME ConfigsAssumption == Configs \subseteq Config
ASSUME TrafficAssumption == Requests \subseteq Request /\ Replies \subseteq Reply

VARIABLES
  live,      \* the configuration globals, as the engine reads them
  target,    \* the configuration being loaded by the watcher
  pc,        \* the watcher's position in Program, 0 when it sleeps
  step,      \* where the engine thread is
  request,   \* the request it is at or was at last
  body,      \* the ids, their count and the bit that request says now
  ids,       \* the ids gathered for the append
  next,      \* the hidden gift the gathering is at
  done,      \* g_autoload_done
  reply,     \* the reply it is at
  page,      \* its gifts
  n,         \* the gift the rebuild is at
  wanted,    \* the two ids the capture read
  blob,      \* the model document of the gift being built
  cache,     \* g_unique_doc_ids, _len and _bytes
  stash,     \* g_transfer_src_doc
  out,       \* history: was the last request sent or dropped?
  extended,  \* history: the requests that went out with ids of ours
  answered,  \* history: has the reply to one of them been handled?
  seen,      \* history: the ids a reply carried while they were wanted
  quiet,     \* history: no reload since the engine turned to this request or reply
  steady     \* history: no reload since it gathered the ids it sent

watcherVars == <<live, target, pc>>
requestVars == <<request, body, ids, next, done>>
replyVars == <<reply, page, n, wanted, blob>>
keptVars == <<cache, stash>>
history == <<out, extended, answered, seen, quiet, steady>>
vars == <<watcherVars, step, requestVars, replyVars, keptVars, history>>

On(f) == f \in live.on
NoWant == [p \in Part |-> Nothing]

----------------------------------------------------------------------------
(* The watcher: the stores of pg_config_load, in source order.             *)

Program ==
  << "spoof", "sticker", "unique", "model", "symbol", "transfer",
     "hidden", "clear", "fill", "defaults",
     "offline", "typing", "drafts", "read", "nophone", "adsTelegram", "adsProxy",
     "stories" >>

AtStore(x) == pc # 0 /\ Program[pc] = x

\* The fake transfer also needs the unique gifts, as they are in memory.
Loads(f) == f \in target.on /\ (f = "transfer" => On("unique"))

\* Stores that change nothing are passed over.
Changes(k) ==
  LET x == Program[k]
  IN CASE x \in Flag -> Loads(x) # On(x)
       [] x \in Part \cup {"sticker"} -> live[x] # target[x]
       [] OTHER -> TRUE

Advance ==
  \/ /\ pc' \in {k \in DOMAIN Program : k > pc /\ Changes(k)'}
     /\ \A k \in pc + 1 .. pc' - 1 : ~Changes(k)'
  \/ pc' = 0 /\ \A k \in pc + 1 .. Len(Program) : ~Changes(k)'

Engine == <<step, requestVars, replyVars, keptVars>>
Loading == UNCHANGED <<Engine, history>>

BeginReload(c) ==
  /\ pc = 0
  /\ target' = c /\ live' = live
  /\ Advance
  /\ quiet' = FALSE /\ steady' = FALSE
  /\ UNCHANGED <<Engine, out, extended, answered, seen>>

LoadFlag(f) ==
  /\ AtStore(f)
  /\ live' = [live EXCEPT !.on = IF Loads(f) THEN @ \cup {f} ELSE @ \ {f}]
  /\ target' = target /\ Advance /\ Loading

LoadId(x) ==
  /\ AtStore(x)
  /\ live' = [live EXCEPT ![x] = target[x]]
  /\ target' = target /\ Advance /\ Loading

ClearList ==
  /\ AtStore("clear")
  /\ live' = [live EXCEPT !.list = <<>>]
  /\ target' = target /\ Advance /\ Loading

\* Faulty: the list is filled past its end.
FillListUnbounded ==
  /\ AtStore("fill") /\ target' = target
  /\ IF Len(live.list) < Len(target.list)
       THEN live' = [live EXCEPT !.list = Append(@, target.list[Len(@) + 1])] /\ pc' = pc
       ELSE live' = live /\ Advance
  /\ Loading

\* One hidden gift of the payload after another becomes visible.
FillList ==
  /\ AtStore("fill") /\ target' = target
  /\ IF Len(live.list) < Len(target.list) /\ Len(live.list) < ListRoom
       THEN live' = [live EXCEPT !.list = Append(@, target.list[Len(@) + 1])] /\ pc' = pc
       ELSE live' = live /\ Advance
  /\ Loading

\* The built-in gifts become visible together.
UseDefaults ==
  /\ AtStore("defaults")
  /\ live' = IF On("hidden") /\ live.list = <<>> THEN [live EXCEPT !.list = Defaults] ELSE live
  /\ target' = target /\ Advance /\ Loading

Watcher ==
  \/ \E c \in Configs : BeginReload(c)
  \/ \E f \in Flag : LoadFlag(f)
  \/ \E x \in Part \cup {"sticker"} : LoadId(x)
  \/ ClearList
  \/ FillList
  \/ UseDefaults

----------------------------------------------------------------------------
(* Requests: pg_apply_request.                                             *)

AsSubmitted(r) == [ids |-> r.ids, count |-> Len(r.ids), bit |-> r.bit]
NoBody == AsSubmitted(NoRequest)

SendPrepared(r) ==
  /\ step = "idle"
  /\ request' = r /\ body' = AsSubmitted(r) /\ ids' = <<>> /\ next' = 1
  /\ step' = IF r.kind = "getEmojiDocs" THEN "gate" ELSE "edit"
  /\ out' = "none" /\ quiet' = (pc = 0)
  /\ UNCHANGED <<watcherVars, done, replyVars, keptVars, extended, answered, seen, steady>>

\* The original sendPrepared queues the request.
Queue == out' = "sent" /\ step' = "idle"

\* account.updateStatus says offline, contacts.addContact does not share the
\* phone number; a buffer somebody else holds is not written to.
EditInPlace ==
  /\ step = "edit" /\ request.kind \in DOMAIN EditFlag
  /\ body' = IF On(EditFlag[request.kind]) /\ ~request.shared
               THEN [body EXCEPT !.bit = request.kind = "updateStatus"] ELSE body
  /\ Queue
  /\ UNCHANGED <<watcherVars, request, ids, next, done, replyVars, keptVars,
                 extended, answered, seen, quiet, steady>>

\* A dropped request is not queued, so Telegram never sends it again.
Drop ==
  /\ step = "edit" /\ request.kind \in DOMAIN DropFlag
  /\ IF On(DropFlag[request.kind]) THEN out' = "dropped" /\ step' = "idle" ELSE Queue
  /\ UNCHANGED <<watcherVars, requestVars, replyVars, keptVars,
                 extended, answered, seen, quiet, steady>>

Gathering(label) ==
  /\ step' = label
  /\ UNCHANGED <<watcherVars, request, body, done, replyVars, keptVars,
                 out, extended, answered, seen, quiet>>

\* Once in a session, and only for a feature that embeds emoji.
AutoloadGate ==
  /\ step = "gate"
  /\ IF ~done /\ (On("unique") \/ On("spoof") \/ On("hidden"))
       THEN step' = "unique" /\ out' = out /\ steady' = (pc = 0)
       ELSE Queue /\ steady' = steady
  /\ UNCHANGED <<watcherVars, requestVars, replyVars, keptVars, extended, answered, seen, quiet>>

Gathered(id) == IF id = Nothing THEN ids ELSE Append(ids, id)

GatherUnique ==
  /\ step = "unique"
  /\ Gathering(IF On("unique") THEN "askModel" ELSE "askSticker")
  /\ UNCHANGED <<ids, next, steady>>

AskLabel == [model |-> "askModel", symbol |-> "askSymbol"]

\* Faulty: the symbol is only asked for if there is no model.
GatherPartOr(p) ==
  /\ step = AskLabel[p]
  /\ ids' = Gathered(live[p])
  /\ Gathering(IF p = "model" /\ live[p] = Nothing THEN "askSymbol" ELSE "askSticker")
  /\ UNCHANGED <<next, steady>>

GatherPart(p) ==
  /\ step = AskLabel[p]
  /\ ids' = Gathered(live[p])
  /\ Gathering(IF p = "model" THEN "askSymbol" ELSE "askSticker")
  /\ UNCHANGED <<next, steady>>

GatherSticker ==
  /\ step = "askSticker"
  /\ ids' = IF On("spoof") THEN Gathered(live.sticker) ELSE ids
  /\ Gathering("hidden")
  /\ UNCHANGED <<next, steady>>

GatherHidden ==
  /\ step = "hidden"
  /\ Gathering(IF On("hidden") THEN "list" ELSE "append")
  /\ UNCHANGED <<ids, next, steady>>

\* The list may be cleared and filled again while the loop goes through it.
GatherList ==
  /\ step = "list"
  /\ IF next \in DOMAIN live.list
       THEN ids' = Append(ids, live.list[next]) /\ next' = next + 1 /\ Gathering("list")
       ELSE ids' = ids /\ next' = 1 /\ Gathering("append")
  /\ UNCHANGED steady

\* Faulty: the word in front of the ids is forgotten.
ExtendedUncounted == [body EXCEPT !.ids = @ \o ids]

\* pg_autoload_append_emoji: behind the last id; the count, and the length.
Extended == [body EXCEPT !.ids = @ \o ids, !.count = @ + Len(ids)]

AppendIds ==
  /\ step = "append" /\ ids # <<>> /\ ~request.shared
  /\ body' = Extended /\ done' = TRUE
  /\ extended' = Append(extended, SubSeq(Extended.ids, 1, Extended.count))
  /\ ids' = <<>> /\ next' = next
  /\ Queue
  /\ UNCHANGED <<watcherVars, request, replyVars, keptVars, answered, seen, quiet, steady>>

\* Nothing to append, a buffer of others, or no memory: the next request will do.
KeepIds ==
  /\ step = "append"
  /\ ids' = <<>>
  /\ Queue
  /\ UNCHANGED <<watcherVars, request, body, next, done, replyVars, keptVars,
                 extended, answered, seen, quiet, steady>>

----------------------------------------------------------------------------
(* Replies: pg_gift_spoof, as far as it touches stickers.                  *)

Idle(label) ==
  /\ step' = label
  /\ UNCHANGED <<watcherVars, requestVars, out, quiet, steady>>

RegularGift(doc) == [sticker |-> doc, model |-> NoDoc, symbol |-> NoDoc]
IsRegular(g) == g.model = NoDoc

Receive(r) ==
  /\ step = "idle"
  /\ reply' = r
  /\ page' = [i \in DOMAIN r.stickers |-> RegularGift(Genuine(r.stickers[i]))]
  /\ request' = NoRequest /\ body' = NoBody
  /\ step' = "spoof" /\ out' = "none" /\ quiet' = (pc = 0)
  /\ UNCHANGED <<watcherVars, ids, next, done, n, wanted, blob, keptVars,
                 extended, answered, seen, steady>>

\* The server knows every document it is asked for.
Answer(asked) == [kind |-> "docs", docs |-> {asked[k] : k \in DOMAIN asked},
                  stickers |-> <<>>, shared |-> FALSE]

SpoofGate ==
  /\ step = "spoof"
  /\ Idle(IF On("spoof") /\ reply.kind = "page" /\ ~reply.shared THEN "swap" ELSE "want")
  /\ UNCHANGED <<replyVars, keptVars, extended, answered, seen>>

\* A regular gift's sticker gets another id and keeps its access hash.
SwapStickers ==
  /\ step = "swap"
  /\ page' = [i \in DOMAIN page |->
                IF IsRegular(page[i]) /\ live.sticker # Nothing
                  THEN [page[i] EXCEPT !.sticker = [id |-> live.sticker, hash |-> @.hash]]
                  ELSE page[i]]
  /\ Idle("want")
  /\ UNCHANGED <<reply, n, wanted, blob, keptVars, extended, answered, seen>>

----------------------------------------------------------------------------
(* pg_unique_capture.                                                      *)

\* Faulty: any reply will do.
CarriesDocsAnyway(r) == r.kind \in {"docs", "page"}

\* A bare vector of documents, a sticker set, or a preview of an upgrade.
CarriesDocs(r) == r.kind = "docs"

DocsInReply == {Genuine(id) : id \in reply.docs} \cup {page[i].sticker : i \in DOMAIN page}

WantModel ==
  /\ step = "want"
  /\ IF On("unique")
       THEN wanted' = [wanted EXCEPT !["model"] = live.model] /\ Idle("wantSymbol")
       ELSE wanted' = wanted /\ Idle("rebuild")
  /\ UNCHANGED <<reply, page, n, blob, keptVars, extended, answered, seen>>

WantSymbol ==
  /\ step = "wantSymbol"
  /\ wanted' = [wanted EXCEPT !["symbol"] = live.symbol]
  /\ IF CarriesDocs(reply) /\ wanted' # NoWant THEN Idle("keepModel") ELSE Idle("rebuild")
  /\ seen' = IF reply.kind = "docs" THEN seen \cup ({wanted'[p] : p \in Part} \cap reply.docs)
                                    ELSE seen
  /\ UNCHANGED <<reply, page, n, blob, keptVars, extended, answered>>

\* pg_unique_captured_doc: the slot that has the document, if one has.
SlotsOf(id) == {s \in 1 .. Slots : id # Nothing /\ cache[s].id = id}
Captured(id) == SlotsOf(id) # {}

\* Faulty: a slot is only free when all are.
FirstFreeOrFirst == 1

\* pg_unique_store_doc: a free slot, or the first one.  The slot of the id itself
\* was looked for and not found.
SlotToTake ==
  IF \E s \in 1 .. Slots : cache[s] = NoDoc
    THEN CHOOSE s \in 1 .. Slots :
           cache[s] = NoDoc /\ \A q \in 1 .. s - 1 : cache[q] # NoDoc
    ELSE 1

KeepLabel == [model |-> "keepModel", symbol |-> "keepSymbol"]

KeepDoc(p) ==
  /\ step = KeepLabel[p]
  /\ LET found == {d \in DocsInReply : d.id = wanted[p]}
     IN \E d \in found \cup {NoDoc} :
          /\ d = NoDoc <=> found = {} \/ Captured(wanted[p])
          /\ cache' = IF d = NoDoc THEN cache ELSE [cache EXCEPT ![SlotToTake] = d]
  /\ Idle(IF p = "model" THEN "keepSymbol" ELSE "rebuild")
  /\ UNCHANGED <<replyVars, stash, extended, answered, seen>>

----------------------------------------------------------------------------
(* pg_gift_unique_rebuild and pg_fake_transfer.                            *)

\* From the last regular gift to the first.
RegularBelow(k) == {i \in DOMAIN page : i < k /\ IsRegular(page[i])}
Last(set) == CHOOSE i \in set : \A j \in set : j <= i

BeginRebuild ==
  /\ step = "rebuild" /\ wanted' = NoWant
  /\ IF On("unique") /\ reply.kind = "page" /\ ~reply.shared /\ RegularBelow(Len(page) + 1) # {}
       THEN n' = Last(RegularBelow(Len(page) + 1)) /\ Idle("stash")
       ELSE n' = n /\ Idle("transfer")
  /\ UNCHANGED <<reply, page, blob, keptVars, extended, answered, seen>>

\* The first gift's sticker, for the message of a faked transfer.
StashSticker ==
  /\ step = "stash"
  /\ stash' = IF On("transfer")
                THEN page[CHOOSE i \in RegularBelow(n + 1) : RegularBelow(i) = {}].sticker
                ELSE stash
  /\ Idle("putModel")
  /\ UNCHANGED <<replyVars, cache, extended, answered, seen>>

\* pg_unique_attr_doc: what was captured, or the gift's own sticker.
AttrDoc(id, own) == IF Captured(id) THEN cache[CHOOSE s \in SlotsOf(id) : TRUE] ELSE own

\* pg_build_unique_blob reads the model first ...
PutModel ==
  /\ step = "putModel"
  /\ blob' = AttrDoc(live.model, page[n].sticker)
  /\ Idle("putSymbol")
  /\ UNCHANGED <<reply, page, n, wanted, keptVars, extended, answered, seen>>

\* ... and then the symbol.  There may be no memory for the gift, which stays.
PutSymbol ==
  /\ step = "putSymbol"
  /\ \/ page' = [page EXCEPT ![n] = [sticker |-> @.sticker, model |-> blob,
                                     symbol |-> AttrDoc(live.symbol, @.sticker)]]
     \/ page' = page
  /\ IF RegularBelow(n) # {}
       THEN n' = Last(RegularBelow(n)) /\ Idle("putModel")
       ELSE n' = 1 /\ Idle("transfer")
  /\ blob' = NoDoc
  /\ UNCHANGED <<reply, wanted, keptVars, extended, answered, seen>>

\* The gift in the message that says the transfer has happened.
FakeTransfer ==
  /\ step = "transfer"
  /\ IF On("transfer") /\ reply.kind = "transfer" /\ page = <<>> /\ stash # NoDoc
       THEN page' = <<RegularGift(stash)>> /\ n' = 1 /\ Idle("putModel")
       ELSE page' = page /\ n' = n /\ Idle("done")
  /\ UNCHANGED <<reply, wanted, blob, keptVars, extended, answered, seen>>

\* A paused session walks its queue again; otherwise the reply is read.
WalkAgain ==
  /\ step = "done"
  /\ Idle("spoof")
  /\ UNCHANGED <<replyVars, keptVars, extended, answered, seen>>

Dispatch ==
  /\ step = "done"
  /\ reply' = NoReply /\ page' = <<>>
  /\ answered' = (answered \/ \E k \in DOMAIN extended : reply = Answer(extended[k]))
  /\ Idle("idle")
  /\ UNCHANGED <<n, wanted, blob, keptVars, extended, seen>>

----------------------------------------------------------------------------

\* The configuration as one load leaves it.
Loaded(c) ==
  [c EXCEPT !.on = IF "unique" \in @ THEN @ ELSE @ \ {"transfer"},
            !.list = IF "hidden" \in c.on /\ @ = <<>> THEN Defaults
                     ELSE [k \in DOMAIN @ \cap 1 .. ListRoom |-> @[k]]]

Init ==
  /\ live \in {Loaded(c) : c \in Configs} /\ target \in Configs /\ live = Loaded(target)
  /\ pc = 0 /\ step = "idle"
  /\ request = NoRequest /\ body = NoBody /\ ids = <<>> /\ next = 1 /\ done = FALSE
  /\ reply = NoReply /\ page = <<>> /\ n = 1 /\ wanted = NoWant /\ blob = NoDoc
  /\ cache = [s \in 1 .. Slots |-> NoDoc] /\ stash = NoDoc
  /\ out = "none" /\ extended = <<>> /\ answered = FALSE
  /\ seen = {} /\ quiet = TRUE /\ steady = FALSE

Thread ==
  \/ \E r \in Requests : SendPrepared(r)
  \/ EditInPlace
  \/ Drop
  \/ AutoloadGate
  \/ GatherUnique
  \/ \E p \in Part : GatherPart(p)
  \/ GatherSticker
  \/ GatherHidden
  \/ GatherList
  \/ AppendIds
  \/ KeepIds
  \/ \E r \in Replies : Receive(r)
  \/ \E k \in DOMAIN extended : Receive(Answer(extended[k]))
  \/ SpoofGate
  \/ SwapStickers
  \/ WantModel
  \/ WantSymbol
  \/ \E p \in Part : KeepDoc(p)
  \/ BeginRebuild
  \/ StashSticker
  \/ PutModel
  \/ PutSymbol
  \/ FakeTransfer
  \/ WalkAgain
  \/ Dispatch

Next == Watcher \/ Thread

Spec == Init /\ [][Next]_vars

----------------------------------------------------------------------------
(* Properties.                                                             *)

Step == {"idle", "edit", "gate", "unique", "askModel", "askSymbol", "askSticker",
         "hidden", "list", "append", "spoof", "swap", "want", "wantSymbol", "keepModel",
         "keepSymbol", "rebuild", "stash", "putModel", "putSymbol", "transfer", "done"}

AnyDoc == Doc \cup {NoDoc}
Gift == [sticker : Doc, model : AnyDoc, symbol : AnyDoc]

\* Every variable has its type.
TypeOK ==
  /\ live \in Config /\ target \in Configs /\ pc \in 0 .. Len(Program)
  /\ step \in Step
  /\ request \in Requests \cup {NoRequest}
  /\ body \in [ids : Seq(Emoji), count : Nat, bit : BOOLEAN]
  /\ ids \in Seq(Emoji) /\ next \in 1 .. ListRoom + 1 /\ done \in BOOLEAN
  /\ page \in Seq(Gift) /\ n \in Nat \ {0}
  /\ wanted \in [Part -> EmojiOrNothing] /\ blob \in AnyDoc
  /\ cache \in [1 .. Slots -> AnyDoc] /\ stash \in AnyDoc
  /\ out \in {"none", "sent", "dropped"} /\ extended \in Seq(Seq(Emoji))
  /\ seen \subseteq Emoji /\ answered \in BOOLEAN /\ quiet \in BOOLEAN /\ steady \in BOOLEAN

\* What a request leaves as.  Telegram's own ids come first and are all there, the
\* count says how many there are, a buffer somebody else holds says what it said,
\* and the ids of ours ride on one request of the session, whatever reloads come
\* while they are gathered and however often the append was refused before.
SentWhole ==
  /\ Len(extended) <= 1
  /\ out = "sent" =>
       /\ SubSeq(body.ids, 1, Len(request.ids)) = request.ids
       /\ body.count = Len(body.ids)
       /\ request.shared => body = AsSubmitted(request)
       /\ body.ids # request.ids => done /\ extended[1] = body.ids

\* The access hash of a cached document is its own: a page whose stickers were
\* given other ids is never taken for a source of documents.
CacheGenuine == \A s \in 1 .. Slots : cache[s].hash = cache[s].id

\* An emoji fits as long as the user has not had more of them than there are
\* slots: then the first slot is taken over and over.
RoomForAll == Cardinality(seen) <= Slots

\* "When the chosen model/symbol emoji's real doc has been seen ... the
\* unique-gift rebuild embeds THAT": in a page or message that was handled with no
\* reload every built gift has the documents of the chosen emoji if a reply ever
\* carried them while they were chosen, and its own sticker otherwise.
SeenIsEmbedded ==
  step = "done" /\ quiet /\ RoomForAll =>
    \A i \in DOMAIN page : ~IsRegular(page[i]) =>
       \A p \in Part :
          page[i][p] = IF live[p] \in seen THEN Genuine(live[p]) ELSE page[i].sticker

\* Whatever a reload does in between, a built gift has its own sticker or the
\* genuine document of an emoji.
EmbeddedIsGenuineOrOwn ==
  \A i \in DOMAIN page : ~IsRegular(page[i]) =>
     {page[i].model, page[i].symbol} \subseteq {Genuine(id) : id \in seen} \cup {page[i].sticker}

\* The append does what it is for: when the reply to the request that carried our
\* ids has been handled and nothing was reloaded since they were gathered, both
\* chosen documents are cached.
AutoloadCaches ==
  answered /\ steady /\ RoomForAll /\ On("unique") =>
    \A p \in Part : live[p] # Nothing => Captured(live[p])

\* "NEVER embeds a swapped-id, non-downloadable doc": no built gift has a document
\* whose id goes with another document's access hash.
NeverSwapped ==
  \A i \in DOMAIN page : ~IsRegular(page[i]) =>
     \A p \in Part : page[i][p].hash = page[i][p].id
=============================================================================
