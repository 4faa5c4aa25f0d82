------------------------------ MODULE GiftSplice ------------------------------
(***************************************************************************)
(* What pg_apply_response does to a page of saved gifts: pg_gift_spoof     *)
(* overwrites scalars in place, pg_gift_extras inserts missing fields into *)
(* every regular gift, and pg_gift_unique_rebuild replaces every regular   *)
(* gift by an upgraded one.  All three find their way with the walker, and *)
(* every change of length moves the words behind it.  The gift features'   *)
(* target mode is "all" here; ReplyTracking has the other one.             *)
(*                                                                         *)
(* words are the words the reply's vector publishes.  A page is a sequence *)
(* of gifts: the kind, the fields it came with, and whether its sticker is *)
(* a document.  A gift of an unknown constructor is "alien".               *)
(***************************************************************************)
EXTENDS TLWalker, SequencesExt

CONSTANTS
  Replies,       \* the pages Telegram may receive
  Configs,       \* the sets of features the GUI may switch on
  ExtrasLimit,   \* how many gifts get inserts, 128 in the code
  RebuildLimit,  \* PG_UNIQUE_MAX_GIFTS
  StageRoom,     \* the words a shifted tail may have to be staged
  GiftRoom,      \* the words a gift may have to be staged
  Reloads        \* bound: reloads while one reply is handled

\* The fields pg_gift_extras inserts, from the last place in a gift to the first.
Order == <<"gift_num", "transfer_stars", "message", "auction", "title", "limited">>
InOrder == {Order[k] : k \in DOMAIN Order}
InGift == {"auction", "title", "limited"}
Cooldown == {"can_export_at", "can_transfer_at"}
PeerFields == {"owner_id", "host_id"}

Field == InOrder \cup Cooldown \cup {"from_id"}
Feature == InOrder \cup PeerFields \cup {"spoof", "unique"}
Gift == [kind : {"regular", "unique", "alien"}, own : SUBSET Field,
         sticker : {"document", "documentEmpty"}]

\* What has been made of a gift: the fields that are ours, and these.
Made == InOrder \cup PeerFields \cup {"refunded", "past", "unique"}

STATIC == -1

ASSUME RepliesAssumption ==
  Replies \subseteq [gifts : Seq(Gift), slack : Nat, ref : {1, 2, STATIC}]
ASSUME ConfigsAssumption == Configs \subseteq SUBSET Feature
ASSUME GiftTextAssumption ==
  Field \cup Made \cup {"own", "ours", "doc", "stars", "id", "user", "alien"} \subseteq Text
ASSUME ReloadsAssumption == Reloads \in Nat
ASSUME LimitsAssumption ==
  /\ {ExtrasLimit, RebuildLimit, StageRoom, GiftRoom} \subseteq Nat \ {0}
  /\ RebuildLimit <= ExtrasLimit

VARIABLES
  live,      \* the features that are on
  reloads,   \* how often they changed since the reply came
  came,      \* the gifts of the page as Telegram received them
  words,     \* the reply
  room,      \* the capacity of its vector
  ref,       \* its reference count
  step,      \* where the MTProto thread is
  n,         \* the regular gift the loop is at, from 1
  wants,     \* pg_gift_extras: the features as it read them on entry
  spots,     \* pg_gift_extras: the splice points of gift n
  place,     \* pg_gift_extras: the field it is at, as a position in Order
  blob,      \* pg_build_unique_blob: the words so far
  made,      \* history: what has been made of each gift
  todo,      \* history: the gifts the rebuild set out to replace
  excused    \* history: did a loop meet what it must give in to?

config == <<live, reloads>>
reply == <<came, words, room, ref>>
loop == <<n, wants, spots, place, blob>>
history == <<made, todo, excused>>
vars == <<config, reply, step, loop, history>>

----------------------------------------------------------------------------
(* A page in words, as the server sends it and as it is meant to become.   *)

FieldWords(f, value) ==
  CASE f = "message" -> <<Ctor("textWithEntities"), Data(value), VectorId, Number(0)>>
    [] f = "auction" -> <<Data(value), Data(value), Data(value)>>
    [] f = "limited" -> <<Data(value), Data(value)>>
    [] f \in PeerFields \cup {"from_id"} -> <<Ctor("peer"), Data(value)>>
    [] OTHER -> <<Data(value)>>

Sticker(kind) == <<Ctor(kind), Data("doc")>>

UniqueHead(bits, id) == <<Ctor("starGiftUnique"), FlagsWord(bits), Data(id)>>
Attributes(sticker) == <<VectorId, Number(1), Ctor("starGiftAttribute")>> \o sticker

GiftWords(g, m) ==
  LET id == IF "refunded" \in m THEN "ours" ELSE "own"
      Optional(f) == IF f \in m THEN FieldWords(f, "ours")
                     ELSE IF f \in g.own THEN FieldWords(f, "own") ELSE <<>>
  IN CASE g.kind = "alien" -> <<Ctor("alien")>>
       [] g.kind = "unique" -> UniqueHead({}, id) \o Attributes(Sticker("document"))
       [] "unique" \in m ->
            UniqueHead(m \cap PeerFields, "ours") \o Optional("owner_id")
            \o Attributes(Sticker("document")) \o Optional("host_id")
       [] OTHER ->
            <<Ctor("starGift"), FlagsWord((g.own \cup m) \cap InGift), Data(id)>>
            \o Sticker(g.sticker) \o <<Data("stars")>>
            \o Optional("limited") \o Optional("title") \o Optional("auction")

SavedGiftWords(g, m) ==
  LET Value(f) == IF f \in m \/ (f = "from_id" /\ "refunded" \in m) THEN "ours"
                  ELSE IF f \in Cooldown /\ "past" \in m THEN "past" ELSE "own"
      Optional(f) == IF f \in g.own \cup m THEN FieldWords(f, Value(f)) ELSE <<>>
      bits == ((g.own \cup m) \ (InGift \cup PeerFields)) \ {"past", "unique"}
  IN <<Ctor("savedStarGift"), FlagsWord(bits)>> \o Optional("from_id")
     \o <<Data(IF "refunded" \in m THEN "ours" ELSE "own")>> \o GiftWords(g, m)
     \o Optional("message") \o Optional("can_export_at") \o Optional("transfer_stars")
     \o Optional("can_transfer_at") \o Optional("gift_num")

\* The page as words: one user stands for what follows the gifts.
PageWords(gifts, m) ==
  <<Ctor("savedStarGifts"), VectorId, Number(Len(gifts))>>
  \o FlattenSeq([i \in DOMAIN gifts |-> SavedGiftWords(gifts[i], m[i])])
  \o <<VectorId, Number(1), Ctor("user"), FlagsWord({}), Data("user")>>

----------------------------------------------------------------------------
(* The gifts of a page, by number.                                         *)

Untouched(gifts) == [i \in DOMAIN gifts |-> {}]

\* The walk ends at the first unknown constructor.
Visited == {i \in DOMAIN came : \A j \in 1 .. i - 1 : came[j].kind # "alien"}

Regular(m) == {i \in Visited : came[i].kind = "regular" /\ "unique" \notin m[i]}

\* Regular gifts with fewer than k regular ones before them.
Leading(m, k) == {i \in Regular(m) : Cardinality({j \in Regular(m) : j < i}) < k}

\* The k-th regular gift.
Nth(m, k) == CHOOSE i \in Leading(m, k) \ Leading(m, k - 1) : TRUE

MadeOf(i, set) == made' = [made EXCEPT ![i] = @ \cup set]

----------------------------------------------------------------------------
(* pg_gift_spoof: scalars that are there, overwritten during the walk.     *)

\* patchgram_gift_rewrite_field, for the fields told apart: gift_num and the
\* supply if configured, and date, sender, gift id and the refunded bit as one.
Overwrites(e, on) ==
  \/ e.ctor = "savedStarGift" /\ e.what \in {"flags", "date"}
  \/ e.ctor \in {"starGift", "starGiftUnique"} /\ e.what = "id"
  \/ "gift_num" \in on /\ Is(e, "savedStarGift", "gift_num")
  \/ "limited" \in on /\ e.ctor = "starGift"
     /\ e.what \in {"availability_remains", "availability_total"}

\* The sender: the peer's id is the only id that is visited in a from_id.
InSender(trace, k) ==
  Is(trace[k], "peer", "id") /\ Is(trace[k - 2], "savedStarGift", "from_id")

SpoofedAt(trace, on) ==
  {trace[k].at : k \in {j \in DOMAIN trace :
      trace[j].there = 1 /\ (Overwrites(trace[j], on) \/ InSender(trace, j))}}

Overwritten(at) ==
  [p \in DOMAIN words |->
     IF p \notin at THEN words[p]
     ELSE IF words[p].is = "flags" THEN FlagsWord(words[p].bits \cup {"refunded"})
     ELSE Data("ours")]

Spoofed(on) == Overwritten(SpoofedAt(Walk(words).trace, on))

\* What of a gift the spoof finds there to overwrite.
SpoofedOf(i, on) ==
  {"refunded"}
  \cup (IF came[i].kind = "alien" THEN {}
        ELSE (came[i].own \cup made[i]) \cap on \cap {"gift_num"})
  \cup (IF i \in Regular(made) THEN (came[i].own \cup made[i]) \cap on \cap {"limited"}
        ELSE {})

Spoof ==
  /\ step = "spoof"
  /\ IF "spoof" \in live /\ ref = 1
       THEN /\ words' = Spoofed(live)
            /\ made' = [i \in DOMAIN came |->
                          IF i \in Visited THEN made[i] \cup SpoofedOf(i, live) ELSE made[i]]
       ELSE UNCHANGED <<words, made>>
  /\ step' = "extras"
  /\ UNCHANGED <<config, came, room, ref, loop, todo, excused>>

----------------------------------------------------------------------------
(* pg_gift_extras.                                                         *)

\* The configuration is read once, on entry.
Wants == IF "spoof" \in live THEN live \cap InOrder ELSE live \cap {"transfer_stars"}

BeginExtras ==
  /\ step = "extras"
  /\ IF Wants # {} /\ ref = 1
       THEN wants' = Wants /\ step' = "find" /\ n' = 1
       ELSE wants' = {} /\ step' = "rebuild" /\ n' = n
  /\ excused' = FALSE
  /\ UNCHANGED <<config, reply, spots, place, blob, made, todo>>

\* Faulty: an absent field's place is the next field's.
CoolingAnyway(s) == IF "transfer_stars" \in wants THEN Cooldown ELSE {}

\* The cooldown: only fields that are there may be overwritten.
Cooling(s) ==
  IF "transfer_stars" \in wants THEN Cooldown \cap words[s.flags].bits ELSE {}

Cooled(s) ==
  [p \in DOMAIN words |->
     IF \E f \in Cooling(s) : s[f] = p THEN Data("past") ELSE words[p]]

FindNext ==
  /\ step = "find"
  /\ LET s == FindGift(words, n)
     IN IF n <= ExtrasLimit /\ s.found
          THEN /\ spots' = s /\ place' = 1 /\ step' = "insert"
               /\ words' = Cooled(s)
               /\ MadeOf(Nth(made, n), IF Cooling(s) = {} THEN {} ELSE {"past"})
          ELSE step' = "rebuild" /\ spots' = NotFound /\ UNCHANGED <<words, place, made>>
  /\ UNCHANGED <<config, came, room, ref, n, wants, blob, todo, excused>>

\* Faulty: the order a reader would put them in.
FieldAtLowFirst(k) == Order[Len(Order) + 1 - k]

FieldAt(k) == Order[k]

\* Where a field goes, as the walk before the first insert found it.
Spot(f) == IF f = "message" THEN spots.after ELSE spots[f]
FlagsSpot(f) == IF f \in InGift THEN spots.gift + 1 ELSE spots.flags

Put(f) == FieldWords(f, "ours")

\* pg_gift_insert_field: the tail moved up, the field in the gap, the bit set.
Opened(f) ==
  LET wide == SubSeq(words, 1, Spot(f) - 1) \o Put(f) \o SubSeq(words, Spot(f), Len(words))
  IN [wide EXCEPT ![FlagsSpot(f)] = FlagsWord(@.bits \cup {f})]

\* The revert: the bit again, and the staged tail; the size was never raised.
Closed(tried, f) ==
  LET whole == SubSeq(tried, 1, Spot(f) - 1) \o SubSeq(words, Spot(f), Len(words))
  IN [whole EXCEPT ![FlagsSpot(f)] = words[FlagsSpot(f)]]

\* The field is wanted, and its bit not set.
Lacks(f) == f \in wants /\ f \notin words[FlagsSpot(f)].bits

Stageable(f) == Len(words) + 1 - Spot(f) <= StageRoom

\* Validate, then publish the new size or revert.
InsertField(f) ==
  LET tried == Opened(f)
  IN IF ValidateTop(tried) THEN words' = tried /\ MadeOf(Nth(made, n), {f})
                           ELSE words' = Closed(tried, f) /\ made' = made

\* Faulty: the end of the fields goes unnoticed.
NextPlaceForever ==
  /\ place' = place + 1 /\ UNCHANGED <<step, n>>
  /\ UNCHANGED <<config, came, wants, spots, blob, todo>>

NextPlace ==
  /\ IF place < Len(Order) THEN place' = place + 1 /\ UNCHANGED <<step, n>>
                           ELSE place' = 1 /\ step' = "find" /\ n' = n + 1
  /\ UNCHANGED <<config, came, wants, spots, blob, todo>>

InsertInPlace ==
  LET f == FieldAt(place)
  IN /\ step = "insert" /\ Lacks(f) /\ Stageable(f)
     /\ Len(words) + Len(Put(f)) <= room
     /\ InsertField(f)
     /\ NextPlace
     /\ UNCHANGED <<room, ref, excused>>

\* pg_qvec_grow: a copy that is static from then on.
InsertGrown ==
  LET f == FieldAt(place)
  IN /\ step = "insert" /\ Lacks(f) /\ Stageable(f)
     /\ Len(words) + Len(Put(f)) > room
     /\ room' = Len(words) + Len(Put(f)) /\ ref' = STATIC
     /\ InsertField(f)
     /\ NextPlace
     /\ UNCHANGED excused

\* Not wanted, already there, too long a tail to stage, or no memory.
PassPlace ==
  LET f == FieldAt(place)
  IN /\ step = "insert"
     /\ ~Lacks(f) \/ ~Stageable(f) \/ Len(words) + Len(Put(f)) > room
     /\ excused' = (excused \/ Lacks(f))
     /\ NextPlace
     /\ UNCHANGED <<words, room, ref, made>>

----------------------------------------------------------------------------
(* pg_gift_unique_rebuild.                                                 *)

\* Gifts are counted in the words as they are now.
RegularCount ==
  Cardinality({k \in 1 .. RebuildLimit : FindGift(words, k).found})

BeginRebuild ==
  /\ step = "rebuild"
  /\ IF "unique" \in live /\ ref = 1 /\ RegularCount > 0
       THEN step' = "blob" /\ n' = RegularCount /\ todo' = Leading(made, RebuildLimit)
       ELSE step' = "done" /\ n' = 1 /\ todo' = {}
  /\ wants' = {} /\ excused' = FALSE
  /\ UNCHANGED <<config, reply, spots, place, blob, made>>

\* Faulty: the first gift is left out.
LastToSecond ==
  /\ IF n > 2 THEN n' = n - 1 /\ step' = "blob" ELSE n' = n /\ step' = "done"
  /\ UNCHANGED wants

\* From the last gift to the first.
LastToFirst ==
  /\ IF n > 1 THEN n' = n - 1 /\ step' = "blob" ELSE n' = n /\ step' = "done"
  /\ UNCHANGED wants

\* A gift with a document, and small enough to stage.
Replaceable(s) == s.found /\ s.doc > 0 /\ s.after - s.gift <= GiftRoom

\* pg_build_unique_blob, up to the flags word.
FlagBlob ==
  /\ step = "blob"
  /\ LET s == FindGift(words, n)
     IN IF Replaceable(s)
          THEN /\ spots' = s /\ step' = "owner"
               /\ blob' = UniqueHead(live \cap PeerFields, "ours")
               /\ UNCHANGED <<n, wants, excused>>
          ELSE /\ LastToFirst /\ UNCHANGED <<spots, blob>>
               /\ excused' = (excused \/ (s.found /\ s.doc > 0))
  /\ UNCHANGED <<config, reply, place, made, todo>>

\* The owner is read again, the attributes get copies of the gift's document.
OwnBlob ==
  /\ step = "owner"
  /\ blob' = blob \o (IF "owner_id" \in live THEN FieldWords("owner_id", "ours") ELSE <<>>)
             \o Attributes(SubSeq(words, spots.doc, spots.docEnd - 1))
  /\ step' = "splice"
  /\ UNCHANGED <<config, reply, n, wants, spots, place, history>>

\* So is the host.
Blob == blob \o (IF "host_id" \in live THEN FieldWords("host_id", "ours") ELSE <<>>)

Spliced(new) ==
  SubSeq(words, 1, spots.gift - 1) \o new \o SubSeq(words, spots.after, Len(words))

\* The revert: the tail slid back, the staged gift over the gap.
Unspliced(tried, new) ==
  SubSeq(tried, 1, spots.gift - 1) \o SubSeq(words, spots.gift, spots.after - 1)
  \o SubSeq(tried, spots.gift + Len(new), Len(tried))

\* Validate, then publish the new size or revert.  A reload while the blob was
\* built may have made it one no walker can read.
Settle(tried) ==
  IF ValidateTop(tried)
    THEN words' = tried /\ MadeOf(Nth(made, n), {"unique"} \cup blob[2].bits)
    ELSE words' = Unspliced(tried, Blob) /\ made' = made

\* The vector grows if it must; when there is no memory for that, the gift stays.
SpliceBlob ==
  /\ step = "splice"
  /\ LET tried == Spliced(Blob)
     IN \/ Len(tried) <= room /\ Settle(tried) /\ UNCHANGED <<room, ref, excused>>
        \/ /\ Len(tried) > room /\ Settle(tried)
           /\ room' = Len(tried) /\ ref' = STATIC /\ excused' = excused
        \/ Len(tried) > room /\ excused' = TRUE /\ UNCHANGED <<words, room, ref, made>>
  /\ LastToFirst
  /\ spots' = NotFound /\ blob' = <<>>
  /\ UNCHANGED <<config, came, place, todo>>

----------------------------------------------------------------------------
(* Telegram and the watcher.                                               *)

Receive(r) ==
  /\ step = "idle"
  /\ came' = r.gifts /\ made' = Untouched(r.gifts)
  /\ words' = PageWords(r.gifts, Untouched(r.gifts))
  /\ room' = Len(words') + r.slack /\ ref' = r.ref
  /\ step' = "spoof"
  /\ UNCHANGED <<config, loop, todo, excused>>

Rest == n' = 1 /\ wants' = {} /\ spots' = NotFound /\ place' = 1 /\ blob' = <<>>
        /\ todo' = {} /\ excused' = FALSE

\* A paused session walks its queue again; otherwise the reply is read.
WalkAgain ==
  /\ step = "done" /\ step' = "spoof"
  /\ Rest
  /\ UNCHANGED <<config, reply, made>>

Dispatch ==
  /\ step = "done" /\ step' = "idle"
  /\ Rest
  /\ came' = <<>> /\ words' = <<>> /\ room' = 0 /\ ref' = 1 /\ made' = <<>>
  /\ reloads' = 0 /\ live' = live

\* The watcher stores into the globals at any time.
Reload(c) ==
  /\ c # live /\ live' = c
  /\ step # "idle" /\ reloads < Reloads /\ reloads' = reloads + 1
  /\ excused' = (excused \/ step \in {"owner", "splice"})
  /\ UNCHANGED <<reply, step, loop, made, todo>>

----------------------------------------------------------------------------

Init ==
  /\ live \in Configs /\ reloads = 0
  /\ came = <<>> /\ words = <<>> /\ room = 0 /\ ref = 1
  /\ step = "idle"
  /\ n = 1 /\ wants = {} /\ spots = NotFound /\ place = 1 /\ blob = <<>>
  /\ made = <<>> /\ todo = {} /\ excused = FALSE

Next ==
  \/ \E r \in Replies : Receive(r)
  \/ Spoof
  \/ BeginExtras
  \/ FindNext
  \/ InsertInPlace
  \/ InsertGrown
  \/ PassPlace
  \/ BeginRebuild
  \/ FlagBlob
  \/ OwnBlob
  \/ SpliceBlob
  \/ WalkAgain
  \/ Dispatch
  \/ \E c \in Configs : Reload(c)

Spec == Init /\ [][Next]_vars

----------------------------------------------------------------------------
(* Properties.                                                             *)

\* Every variable has its type; what a reply publishes fits in its vector.
TypeOK ==
  /\ live \in Configs /\ reloads \in 0 .. Reloads
  /\ came \in Seq(Gift) /\ words \in Seq(Word)
  /\ room \in Nat /\ Len(words) <= room /\ ref \in {1, 2, STATIC}
  /\ step \in {"idle", "spoof", "extras", "find", "insert", "rebuild", "blob",
               "owner", "splice", "done"}
  /\ n \in 1 .. ExtrasLimit + 1 /\ wants \subseteq InOrder
  /\ place \in DOMAIN Order /\ blob \in Seq(Word)
  /\ made \in [DOMAIN came -> SUBSET Made]
  /\ todo \subseteq DOMAIN came /\ excused \in BOOLEAN

\* pg_gift_insert_field and pg_gift_unique_rebuild edit words at places found in
\* an earlier walk, while words move and the watcher stores.  Between any two of
\* their steps the reply is the page that was received, with whole edits of the
\* gifts they were meant for: never half an edit, nor one in the wrong gift, nor a
\* blob whose fields do not go with its flags, nor a trace of a reverted edit.
RenderedWhole == step # "idle" => words = PageWords(came, made)

\* "EVERY regular gift in a savedStarGifts response (not just the first)" gets
\* every field that was wanted when pg_gift_extras was entered, up to its limit,
\* unless memory or room was refused or the page has a constructor no walk passes.
ExtrasReachAll ==
  step = "rebuild" /\ ~excused /\ Visited = DOMAIN came =>
    \A i \in Leading(made, ExtrasLimit) :
       /\ wants \subseteq came[i].own \cup made[i]
       /\ "transfer_stars" \in wants /\ came[i].own \cap Cooldown # {} => "past" \in made[i]

\* A rebuild that was begun replaces every regular gift up to its limit, though
\* each replacement renumbers the regular gifts behind it, unless it was refused
\* memory or room, or a reload came while a gift was built.  A gift without a
\* document stays.
RebuildReachesAll ==
  step = "done" /\ ~excused /\ Visited = DOMAIN came =>
    \A i \in todo : "unique" \in made[i] \/ came[i].sticker = "documentEmpty"
=============================================================================
