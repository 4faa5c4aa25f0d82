---------------------------- MODULE EmojiDocsProofs ----------------------------
(***************************************************************************)
(* EmojiDocs keeps its types, sends requests whole, caches what it asked   *)
(* for, and embeds what it has seen, or the gift's own sticker, for any    *)
(* number of emoji, stickers, cache slots and hidden gifts, and for all    *)
(* configurations, requests and replies.                                   *)
(***************************************************************************)
EXTENDS EmojiDocs, FiniteSetTheorems, SequenceTheorems, WellFoundedInduction, TLAPS

USE DEF watcherVars, requestVars, replyVars, keptVars, history, Engine, Loading,
        Idle, Gathering, Queue

\* A function on the first numbers is a sequence.
LEMMA SeqOfFunction ==
  ASSUME NEW S, NEW m \in Nat, NEW f \in [1 .. m -> S]
  PROVE  f \in Seq(S) /\ Len(f) = m /\ DOMAIN f = 1 .. m
OBVIOUS

\* A set of numbers that is not empty has a least one.
LEMMA LeastExists ==
  ASSUME NEW T, T \subseteq Nat, T # {}
  PROVE  \E x \in T : \A y \in T : x <= y
<1>1. PICK x \in T : \A y \in T : ~ (<<y, x>> \in OpToRel(<, Nat))
  BY NatLessThanWellFounded, WFMin
<1>2. \A y \in T : ~(y < x)
  BY <1>1 DEF OpToRel
<1> QED
  BY <1>2

\* A bounded one has a greatest one.
LEMMA GreatestExists ==
  ASSUME NEW m \in Nat, NEW T, T \subseteq 0 .. m, T # {}
  PROVE  \E x \in T : \A y \in T : y <= x
<1> DEFINE Below == {m - y : y \in T}
<1>1. Below \subseteq Nat /\ Below # {}
  <2>1. \A y \in T : m - y \in Nat
    OBVIOUS
  <2>2. PICK y \in T : TRUE
    OBVIOUS
  <2>3. m - y \in Below
    OBVIOUS
  <2> QED
    BY <2>1, <2>3
<1>2. PICK z \in Below : \A y \in Below : z <= y
  BY <1>1, LeastExists
<1>3. PICK x \in T : z = m - x
  OBVIOUS
<1>4. \A y \in T : m - y \in Below
  OBVIOUS
<1> HIDE DEF Below
<1>5. \A y \in T : m - x <= m - y
  BY <1>2, <1>3, <1>4
<1> QED
  BY <1>5


----------------------------------------------------------------------------
(* Types.                                                                  *)

\* A reply is one of those Telegram may get, or the one to our request.
ReplyType == reply \in Reply \cup {NoReply}

\* The list of hidden gifts has not outgrown its arrays.
ListFits == Len(live.list) <= ListRoom

\* The rebuild is at a gift of the page.
AtGift ==
  /\ step \in {"stash", "putModel", "putSymbol"} => n \in DOMAIN page
  /\ step = "stash" => IsRegular(page[n])

\* A request says how many ids it has.
Counted == body.count = Len(body.ids)

TypeInv == TypeOK /\ ReplyType /\ ListFits /\ AtGift /\ Counted

\* A load leaves a configuration whose list fits.
LEMMA LoadedType ==
  ASSUME NEW c \in Config
  PROVE  Loaded(c) \in Config /\ Len(Loaded(c).list) <= ListRoom
<1> DEFINE cut == [k \in DOMAIN c.list \cap 1 .. ListRoom |-> c.list[k]]
<1>1. c.list \in Seq(Emoji) /\ c.on \subseteq Flag
  BY DEF Config
<1>2. cut \in Seq(Emoji) /\ Len(cut) <= ListRoom
  <2> DEFINE m == IF Len(c.list) < ListRoom THEN Len(c.list) ELSE ListRoom
  <2>1. m \in Nat /\ m <= ListRoom /\ DOMAIN c.list \cap 1 .. ListRoom = 1 .. m
    BY <1>1, ListAssumption
  <2>2. cut \in [1 .. m -> Emoji]
    BY <1>1, <2>1
  <2> HIDE DEF cut, m
  <2> QED
    BY <2>1, <2>2, SeqOfFunction, ListAssumption
<1> DEFINE flags == IF "unique" \in c.on THEN c.on ELSE c.on \ {"transfer"}
           list == IF "hidden" \in c.on /\ c.list = <<>> THEN Defaults ELSE cut
<1>3. flags \subseteq Flag
  BY <1>1
<1>4. list \in Seq(Emoji) /\ Len(list) <= ListRoom
  BY <1>1, <1>2, ListAssumption
<1>5. Loaded(c) = [c EXCEPT !.on = flags, !.list = list]
  BY DEF Loaded
<1> HIDE DEF cut, flags, list
<1> QED
  BY <1>3, <1>4, <1>5 DEF Config

\* The watcher never leaves its program.
LEMMA AdvanceType ==
  ASSUME Advance
  PROVE  pc' \in 0 .. Len(Program)
<1>1. Len(Program) = 18
  BY DEF Program
<1> QED
  BY <1>1 DEF Advance

\* Every configuration is loaded.
LEMMA InitType == Init => TypeInv
<1> SUFFICES ASSUME Init PROVE TypeInv
  OBVIOUS
<1>1. PICK c \in Configs : live = Loaded(c)
  BY DEF Init
<1>2. live \in Config /\ ListFits
  BY <1>1, LoadedType, ConfigsAssumption DEF ListFits
<1>3. NoDoc \in AnyDoc /\ NoWant \in [Part -> EmojiOrNothing]
  BY DEF AnyDoc, NoWant, EmojiOrNothing
<1>4. <<>> \in Seq(Emoji) /\ <<>> \in Seq(Seq(Emoji)) /\ <<>> \in Seq(Gift)
  BY EmptySeq
<1>5. NoBody \in [ids : Seq(Emoji), count : Nat, bit : BOOLEAN]
  BY <1>4 DEF NoBody, AsSubmitted, NoRequest
<1>6. 1 \in 1 .. ListRoom + 1 /\ 0 \in 0 .. Len(Program)
  BY ListAssumption DEF Program
<1>7. TypeOK
  <2>1. /\ live \in Config /\ target \in Configs /\ pc \in 0 .. Len(Program) /\ step \in Step
        /\ request \in Requests \cup {NoRequest} /\ ids \in Seq(Emoji) /\ next \in 1 .. ListRoom + 1
    BY <1>2, <1>4, <1>6 DEF Init, Step
  <2>2. /\ body \in [ids : Seq(Emoji), count : Nat, bit : BOOLEAN]
        /\ page \in Seq(Gift) /\ n \in Nat \ {0} /\ wanted \in [Part -> EmojiOrNothing]
        /\ blob \in AnyDoc /\ cache \in [1 .. Slots -> AnyDoc] /\ stash \in AnyDoc
        /\ extended \in Seq(Seq(Emoji)) /\ seen \subseteq Emoji
    BY <1>3, <1>4, <1>5 DEF Init
  <2>3. /\ done \in BOOLEAN /\ answered \in BOOLEAN /\ quiet \in BOOLEAN /\ steady \in BOOLEAN
        /\ out \in {"none", "sent", "dropped"}
    BY DEF Init
  <2> QED
    BY <2>1, <2>2, <2>3 DEF TypeOK
<1>8. Counted
  BY DEF Init, Counted, NoBody, AsSubmitted, NoRequest
<1> QED
  BY <1>2, <1>7, <1>8 DEF Init, TypeInv, ReplyType, AtGift

\* The stores of a reload keep the types, and the list within its arrays.
LEMMA WatcherType ==
  ASSUME TypeInv, Watcher
  PROVE  TypeInv'
<1>1. pc' \in 0 .. Len(Program)
  BY AdvanceType DEF Watcher, BeginReload, LoadFlag, LoadId, ClearList, FillList, UseDefaults,
                     TypeInv, TypeOK
<1>2. target \in Config /\ live \in Config
  BY ConfigsAssumption DEF TypeInv, TypeOK
<1>3. target' \in Configs
  BY DEF Watcher, BeginReload, LoadFlag, LoadId, ClearList, FillList, UseDefaults,
         TypeInv, TypeOK
<1>4. live' \in Config /\ ListFits'
  <2>1. CASE \E c \in Configs : BeginReload(c)
    BY <1>2, <2>1 DEF BeginReload, TypeInv, ListFits
  <2>2. CASE \E f \in Flag : LoadFlag(f)
    <3>1. PICK f \in Flag : LoadFlag(f)
      BY <2>2
    <3> DEFINE flags == IF Loads(f) THEN live.on \cup {f} ELSE live.on \ {f}
    <3>2. live.on \subseteq Flag
      BY <1>2 DEF Config
    <3>3. flags \subseteq Flag
      BY <3>2
    <3>4. live' = [live EXCEPT !.on = flags]
      BY <3>1 DEF LoadFlag
    <3> HIDE DEF flags
    <3> QED
      BY <1>2, <3>3, <3>4 DEF Config, TypeInv, ListFits
  <2>3. CASE \E x \in Part \cup {"sticker"} : LoadId(x)
    <3>1. PICK x \in Part \cup {"sticker"} : live' = [live EXCEPT ![x] = target[x]]
      BY <2>3 DEF LoadId
    <3>2. CASE x = "model"
      <4>1. live' = [live EXCEPT !.model = target.model]
        BY <3>1, <3>2
      <4>2. target.model \in EmojiOrNothing
        BY <1>2 DEF Config
      <4> QED
        BY <1>2, <4>1, <4>2 DEF Config, TypeInv, ListFits
    <3>3. CASE x = "symbol"
      <4>1. live' = [live EXCEPT !.symbol = target.symbol]
        BY <3>1, <3>3
      <4> QED
        BY <1>2, <4>1 DEF Config, TypeInv, ListFits
    <3>4. CASE x = "sticker"
      <4>1. live' = [live EXCEPT !.sticker = target.sticker]
        BY <3>1, <3>4
      <4> QED
        BY <1>2, <4>1 DEF Config, TypeInv, ListFits
    <3>5. x \in {"model", "symbol", "sticker"}
      BY DEF Part
    <3> QED
      BY <3>2, <3>3, <3>4, <3>5
  <2>4. CASE ClearList
    <3>1. <<>> \in Seq(Emoji) /\ Len(<<>>) = 0 /\ ListRoom \in Nat
      BY EmptySeq, ListAssumption
    <3>2. live' = [live EXCEPT !.list = <<>>]
      BY <2>4 DEF ClearList
    <3>3. live' \in Config /\ live'.list = <<>>
      BY <1>2, <3>1, <3>2 DEF Config
    <3> QED
      BY <3>1, <3>3 DEF ListFits
  <2>5. CASE FillList
    <3>1. live.list \in Seq(Emoji) /\ target.list \in Seq(Emoji)
      BY <1>2 DEF Config
    <3>2. CASE Len(live.list) < Len(target.list) /\ Len(live.list) < ListRoom
      <4>1. Len(live.list) + 1 \in 1 .. Len(target.list)
        BY <3>1, <3>2
      <4>2. target.list[Len(live.list) + 1] \in Emoji
        BY <3>1, <4>1, ElementOfSeq
      <4>3. PICK list : list = Append(live.list, target.list[Len(live.list) + 1])
        OBVIOUS
      <4>4. list \in Seq(Emoji) /\ Len(list) = Len(live.list) + 1
        BY <3>1, <4>2, <4>3, AppendProperties
      <4>5. live' = [live EXCEPT !.list = list]
        BY <2>5, <3>2, <4>3 DEF FillList
      <4>6. live' \in Config /\ live'.list = list
        BY <1>2, <4>4, <4>5 DEF Config
      <4> QED
        BY <3>1, <3>2, <4>4, <4>6, ListAssumption DEF ListFits
    <3>3. CASE ~(Len(live.list) < Len(target.list) /\ Len(live.list) < ListRoom)
      BY <1>2, <2>5, <3>3 DEF FillList, TypeInv, ListFits
    <3> QED
      BY <3>2, <3>3
  <2>6. CASE UseDefaults
    BY <1>2, <2>6, ListAssumption DEF UseDefaults, Config, TypeInv, ListFits
  <2> QED
    BY <2>1, <2>2, <2>3, <2>4, <2>5, <2>6 DEF Watcher
<1>5. UNCHANGED Engine /\ UNCHANGED <<out, extended, answered, seen>>
      /\ quiet' \in BOOLEAN /\ steady' \in BOOLEAN
  BY DEF Watcher, BeginReload, LoadFlag, LoadId, ClearList, FillList, UseDefaults,
         TypeInv, TypeOK
<1>6. TypeOK'
  BY <1>1, <1>3, <1>4, <1>5 DEF TypeInv, TypeOK
<1> QED
  BY <1>4, <1>5, <1>6 DEF TypeInv, ReplyType, AtGift, Counted, IsRegular

\* A part of a built gift is what was captured for an emoji, or the gift's own.
LEMMA AttrDocFrom ==
  ASSUME NEW id, NEW own
  PROVE  \/ AttrDoc(id, own) = own
         \/ \E s \in 1 .. Slots : AttrDoc(id, own) = cache[s] /\ cache[s].id = id /\ id # Nothing
<1>1. CASE Captured(id)
  <2> DEFINE slot == CHOOSE s \in SlotsOf(id) : TRUE
  <2>1. PICK s : s \in SlotsOf(id)
    BY <1>1 DEF Captured
  <2>2. slot \in SlotsOf(id)
    BY <2>1
  <2>3. AttrDoc(id, own) = cache[slot]
    BY <1>1 DEF AttrDoc
  <2> HIDE DEF slot
  <2> QED
    BY <2>2, <2>3 DEF SlotsOf
<1>2. CASE ~Captured(id)
  BY <1>2 DEF AttrDoc
<1> QED
  BY <1>1, <1>2

LEMMA AttrDocType ==
  ASSUME TypeInv, NEW id, NEW own \in AnyDoc
  PROVE  AttrDoc(id, own) \in AnyDoc
<1>1. \A s \in 1 .. Slots : cache[s] \in AnyDoc
  BY DEF TypeInv, TypeOK
<1> QED
  BY <1>1, AttrDocFrom

\* A document takes a slot of the cache.
LEMMA SlotToTakeType == SlotToTake \in 1 .. Slots
<1> DEFINE free == {s \in 1 .. Slots : cache[s] = NoDoc}
<1>1. CASE free = {}
  BY <1>1, SlotsAssumption DEF SlotToTake
<1>2. CASE free # {}
  <2>0. free \subseteq Nat
    BY SlotsAssumption
  <2>1. \E s \in free : \A q \in free : s <= q
    BY <1>2, <2>0, LeastExists
  <2>2. \E s \in 1 .. Slots : cache[s] = NoDoc /\ \A q \in 1 .. s - 1 : cache[q] # NoDoc
    BY <2>1, SlotsAssumption
  <2> QED
    BY <1>2, <2>2 DEF SlotToTake
<1> QED
  BY <1>1, <1>2

\* What a reply carries.
LEMMA ReplyParts ==
  ASSUME TypeInv
  PROVE  reply.docs \subseteq Emoji /\ reply.stickers \in Seq(Sticker)
<1>1. CASE reply \in Reply
  BY <1>1 DEF Reply
<1>2. CASE reply = NoReply
  <2>1. <<>> \in Seq(Sticker)
    BY EmptySeq
  <2> QED
    BY <1>2, <2>1 DEF NoReply
<1> QED
  BY <1>1, <1>2 DEF TypeInv, ReplyType

----------------------------------------------------------------------------

\* The steps of a request keep the types.
LEMMA SendPreparedType ==
  ASSUME TypeInv, NEW r \in Requests, SendPrepared(r)
  PROVE  TypeInv'
<1>1. r.ids \in Seq(Emoji) /\ Len(r.ids) \in Nat /\ r.bit \in BOOLEAN
  BY TrafficAssumption DEF Request
<1>2. body' \in [ids : Seq(Emoji), count : Nat, bit : BOOLEAN] /\ body'.count = Len(body'.ids)
  BY <1>1 DEF SendPrepared, AsSubmitted
<1>3. ids' \in Seq(Emoji) /\ next' \in 1 .. ListRoom + 1
  BY EmptySeq, ListAssumption DEF SendPrepared
<1>4. step' \in {"gate", "edit"} /\ quiet' \in BOOLEAN
  BY DEF SendPrepared
<1>5. TypeOK'
  BY <1>2, <1>3, <1>4 DEF SendPrepared, TypeInv, TypeOK, Step
<1> QED
  BY <1>2, <1>4, <1>5 DEF SendPrepared, TypeInv, ReplyType, ListFits, AtGift, Counted

LEMMA EditType ==
  ASSUME TypeInv, EditInPlace \/ Drop
  PROVE  TypeInv'
<1>1. body' \in [ids : Seq(Emoji), count : Nat, bit : BOOLEAN] /\ body'.count = Len(body'.ids)
  <2>1. CASE EditInPlace
    <3>1. body \in [ids : Seq(Emoji), count : Nat, bit : BOOLEAN] /\ body.count = Len(body.ids)
      BY DEF TypeInv, TypeOK, Counted
    <3>2. PICK b \in BOOLEAN : b = (request.kind = "updateStatus")
      OBVIOUS
    <3>3. body' = body \/ body' = [body EXCEPT !.bit = b]
      BY <2>1, <3>2 DEF EditInPlace
    <3> QED
      BY <3>1, <3>3
  <2>2. CASE Drop
    BY <2>2 DEF Drop, TypeInv, TypeOK, Counted
  <2> QED
    BY <2>1, <2>2
<1>2. step' = "idle" /\ out' \in {"sent", "dropped"}
  BY DEF EditInPlace, Drop
<1>3. UNCHANGED <<watcherVars, request, ids, next, done, replyVars, keptVars,
                  extended, answered, seen, quiet, steady>>
  BY DEF EditInPlace, Drop
<1>4. TypeOK'
  BY <1>1, <1>2, <1>3 DEF TypeInv, TypeOK, Step
<1> QED
  BY <1>1, <1>2, <1>3, <1>4 DEF TypeInv, ReplyType, ListFits, AtGift, Counted

LEMMA GateType ==
  ASSUME TypeInv, AutoloadGate
  PROVE  TypeInv'
<1>1. step' \in {"unique", "idle"} /\ out' \in {"none", "sent", "dropped"} /\ steady' \in BOOLEAN
  BY DEF AutoloadGate, TypeInv, TypeOK
<1>2. TypeOK'
  BY <1>1 DEF AutoloadGate, TypeInv, TypeOK, Step
<1> QED
  BY <1>1, <1>2 DEF AutoloadGate, TypeInv, ReplyType, ListFits, AtGift, Counted

LEMMA GatherType ==
  ASSUME TypeInv, GatherUnique \/ (\E p \in Part : GatherPart(p)) \/ GatherSticker \/ GatherHidden
                  \/ GatherList
  PROVE  TypeInv'
<1>1. /\ live \in Config /\ ids \in Seq(Emoji) /\ next \in 1 .. ListRoom + 1
      /\ live.model \in EmojiOrNothing /\ live.symbol \in EmojiOrNothing
      /\ live.sticker \in EmojiOrNothing /\ live.list \in Seq(Emoji)
  BY DEF TypeInv, TypeOK, Config
<1>2. ASSUME NEW id \in EmojiOrNothing PROVE Gathered(id) \in Seq(Emoji)
  <2>1. CASE id = Nothing
    BY <1>1, <2>1 DEF Gathered
  <2>2. CASE id # Nothing
    BY <1>1, <2>2, AppendProperties DEF Gathered, EmojiOrNothing
  <2> QED
    BY <2>1, <2>2
<1>3. ids' \in Seq(Emoji) /\ next' \in 1 .. ListRoom + 1
  <2>1. CASE GatherUnique \/ GatherHidden
    BY <1>1, <2>1 DEF GatherUnique, GatherHidden
  <2>2. ASSUME NEW p \in Part, GatherPart(p)
        PROVE  ids' \in Seq(Emoji) /\ next' \in 1 .. ListRoom + 1
    <3>1. live[p] \in EmojiOrNothing
      <4>1. CASE p = "model"
        BY <1>1, <4>1
      <4>2. CASE p = "symbol"
        BY <1>1, <4>2
      <4> QED
        BY <4>1, <4>2 DEF Part
    <3> QED
      BY <1>1, <1>2, <2>2, <3>1 DEF GatherPart
  <2>3. CASE GatherSticker
    BY <1>1, <1>2, <2>3 DEF GatherSticker
  <2>4. CASE GatherList
    <3>1. CASE next \in DOMAIN live.list
      <4>1. next <= Len(live.list) /\ live.list[next] \in Emoji /\ Len(live.list) \in Nat
        BY <1>1, <3>1
      <4>2. Append(ids, live.list[next]) \in Seq(Emoji)
        BY <1>1, <4>1, AppendProperties
      <4>3. next + 1 \in 1 .. ListRoom + 1
        BY <1>1, <4>1, ListAssumption DEF TypeInv, ListFits
      <4> QED
        BY <2>4, <3>1, <4>2, <4>3 DEF GatherList
    <3>2. CASE next \notin DOMAIN live.list
      BY <1>1, <2>4, <3>2, ListAssumption DEF GatherList
    <3> QED
      BY <3>1, <3>2
  <2> QED
    BY <2>1, <2>2, <2>3, <2>4
<1>4. step' \in {"askModel", "askSymbol", "askSticker", "hidden", "list", "append"}
  BY DEF GatherUnique, GatherPart, GatherSticker, GatherHidden, GatherList
<1>5. UNCHANGED <<watcherVars, request, body, done, replyVars, keptVars,
                  out, extended, answered, seen, quiet, steady>>
  BY DEF GatherUnique, GatherPart, GatherSticker, GatherHidden, GatherList
<1>6. TypeOK'
  BY <1>3, <1>4, <1>5 DEF TypeInv, TypeOK, Step
<1> QED
  BY <1>4, <1>5, <1>6 DEF TypeInv, ReplyType, ListFits, AtGift, Counted

\* The append puts ours behind theirs, and counts them.
LEMMA ExtendedParts ==
  ASSUME TypeInv
  PROVE  Extended = [ids |-> body.ids \o ids, count |-> body.count + Len(ids), bit |-> body.bit]
<1> DEFINE all == body.ids \o ids
           m == body.count + Len(ids)
           half == [body EXCEPT !.ids = all]
<1>1. Extended = [half EXCEPT !.count = m]
  BY DEF Extended
<1>2. body \in [ids : Seq(Emoji), count : Nat, bit : BOOLEAN]
  BY DEF TypeInv, TypeOK
<1> HIDE DEF all, m
<1>3. half = [ids |-> all, count |-> body.count, bit |-> body.bit]
  BY <1>2
<1> HIDE DEF half
<1>4. Extended = [ids |-> all, count |-> m, bit |-> body.bit]
  BY <1>1, <1>3
<1> QED
  BY <1>4 DEF all, m

LEMMA AppendType ==
  ASSUME TypeInv, AppendIds \/ KeepIds
  PROVE  TypeInv'
<1>1. /\ body \in [ids : Seq(Emoji), count : Nat, bit : BOOLEAN] /\ body.count = Len(body.ids)
      /\ ids \in Seq(Emoji) /\ extended \in Seq(Seq(Emoji)) /\ done \in BOOLEAN
  BY DEF TypeInv, TypeOK, Counted
<1>2. /\ body' \in [ids : Seq(Emoji), count : Nat, bit : BOOLEAN] /\ body'.count = Len(body'.ids)
      /\ extended' \in Seq(Seq(Emoji)) /\ done' \in BOOLEAN
  <2>1. CASE AppendIds
    <3> DEFINE all == body.ids \o ids
               m == body.count + Len(ids)
    <3>1. all \in Seq(Emoji) /\ Len(all) = m /\ m \in Nat
      BY <1>1, ConcatProperties
    <3>2. Extended = [ids |-> all, count |-> m, bit |-> body.bit]
      BY ExtendedParts
    <3> HIDE DEF all, m
    <3>3. SubSeq(all, 1, m) \in Seq(Emoji)
      BY <3>1, SubSeqProperties
    <3>4. Extended.ids = all /\ Extended.count = m
      BY <3>2
    <3>5. extended' = Append(extended, SubSeq(all, 1, m))
      BY <2>1, <3>4 DEF AppendIds
    <3>6. extended' \in Seq(Seq(Emoji))
      BY <1>1, <3>3, <3>5, AppendProperties
    <3>7. body' = [ids |-> all, count |-> m, bit |-> body.bit] /\ done' = TRUE
      BY <2>1, <3>2 DEF AppendIds
    <3> QED
      BY <1>1, <3>1, <3>6, <3>7
  <2>2. CASE KeepIds
    BY <1>1, <2>2 DEF KeepIds
  <2> QED
    BY <2>1, <2>2
<1>3. ids' \in Seq(Emoji)
  BY EmptySeq DEF AppendIds, KeepIds
<1>4. step' = "idle" /\ out' = "sent"
  BY DEF AppendIds, KeepIds
<1>5. UNCHANGED <<watcherVars, request, next, replyVars, keptVars, answered, seen, quiet, steady>>
  BY DEF AppendIds, KeepIds
<1>6. TypeOK'
  BY <1>2, <1>3, <1>4, <1>5 DEF TypeInv, TypeOK, Step
<1> QED
  BY <1>2, <1>4, <1>5, <1>6 DEF TypeInv, ReplyType, ListFits, AtGift, Counted

----------------------------------------------------------------------------

\* A reply's documents and a page's stickers are documents.
LEMMA PageParts ==
  ASSUME TypeInv
  PROVE  /\ page \in Seq(Gift) /\ DOMAIN page = 1 .. Len(page) /\ Len(page) \in Nat
         /\ \A i \in DOMAIN page : page[i] \in Gift /\ page[i].sticker \in Doc
<1>1. page \in Seq(Gift)
  BY DEF TypeInv, TypeOK
<1>2. DOMAIN page = 1 .. Len(page) /\ Len(page) \in Nat /\ \A i \in DOMAIN page : page[i] \in Gift
  BY <1>1
<1>3. \A g \in Gift : g.sticker \in Doc
  BY DEF Gift
<1> QED
  BY <1>1, <1>2, <1>3

\* A gift that is not upgraded has its sticker.
LEMMA RegularGiftType ==
  ASSUME NEW doc \in Doc
  PROVE  RegularGift(doc) \in Gift
BY DEF RegularGift, Gift, AnyDoc

\* The regular gifts in front of one are on the page, and one of them is last.
LEMMA LastRegular ==
  ASSUME TypeInv, NEW k, RegularBelow(k) # {}
  PROVE  Last(RegularBelow(k)) \in DOMAIN page /\ IsRegular(page[Last(RegularBelow(k))])
<1> DEFINE last == Last(RegularBelow(k))
<1>1. RegularBelow(k) \subseteq 0 .. Len(page) /\ Len(page) \in Nat
  BY PageParts DEF RegularBelow
<1>2. PICK i \in RegularBelow(k) : \A j \in RegularBelow(k) : j <= i
  BY <1>1, GreatestExists
<1>3. last \in RegularBelow(k)
  BY <1>2 DEF Last
<1> HIDE DEF last
<1>4. last \in DOMAIN page /\ IsRegular(page[last])
  BY <1>3 DEF RegularBelow
<1> QED
  BY <1>4 DEF last

\* The reply to a request of ours is one of those a session may get.
LEMMA AnswerType ==
  ASSUME TypeInv, NEW k \in DOMAIN extended
  PROVE  Answer(extended[k]) \in Reply
<1>1. extended[k] \in Seq(Emoji)
  BY DEF TypeInv, TypeOK
<1>2. {extended[k][j] : j \in DOMAIN extended[k]} \subseteq Emoji
  BY <1>1
<1>3. <<>> \in Seq(Sticker)
  BY EmptySeq
<1> QED
  BY <1>2, <1>3 DEF Answer, Reply

LEMMA ReceiveType ==
  ASSUME TypeInv, NEW r \in Reply, Receive(r)
  PROVE  TypeInv'
<1>1. r.stickers \in Seq(Sticker)
  BY DEF Reply
<1>2. page' \in Seq(Gift)
  <2>1. \A i \in DOMAIN r.stickers : RegularGift(Genuine(r.stickers[i])) \in Gift
    BY <1>1, RegularGiftType DEF Doc, Genuine
  <2>2. DOMAIN r.stickers = 1 .. Len(r.stickers) /\ Len(r.stickers) \in Nat
    BY <1>1
  <2>3. page' \in [1 .. Len(r.stickers) -> Gift]
    BY <2>1, <2>2 DEF Receive
  <2> QED
    BY <2>2, <2>3, SeqOfFunction
<1>3. body' \in [ids : Seq(Emoji), count : Nat, bit : BOOLEAN] /\ body'.count = Len(body'.ids)
  BY EmptySeq DEF Receive, NoBody, AsSubmitted, NoRequest
<1>4. step' = "spoof" /\ out' = "none" /\ quiet' \in BOOLEAN /\ request' = NoRequest
  BY DEF Receive
<1>5. UNCHANGED <<watcherVars, ids, next, done, n, wanted, blob, keptVars,
                  extended, answered, seen, steady>>
  BY DEF Receive
<1>6. TypeOK'
  BY <1>2, <1>3, <1>4, <1>5 DEF TypeInv, TypeOK, Step
<1>7. reply' = r
  BY DEF Receive
<1> QED
  BY <1>3, <1>4, <1>5, <1>6, <1>7 DEF TypeInv, ReplyType, ListFits, AtGift, Counted

LEMMA SwapType ==
  ASSUME TypeInv, SpoofGate \/ SwapStickers
  PROVE  TypeInv'
<1>1. page' \in Seq(Gift)
  <2>1. CASE SpoofGate
    BY <2>1, PageParts DEF SpoofGate
  <2>2. CASE SwapStickers
    <3> DEFINE swapped(g) == [g EXCEPT !.sticker = [id |-> live.sticker, hash |-> @.hash]]
    <3>1. live.sticker \in EmojiOrNothing
      BY DEF TypeInv, TypeOK, Config
    <3>2. ASSUME NEW g \in Gift, live.sticker # Nothing PROVE swapped(g) \in Gift
      <4>1. [id |-> live.sticker, hash |-> g.sticker.hash] \in Doc
        BY <3>1, <3>2 DEF EmojiOrNothing, Doc, Gift
      <4>2. PICK doc \in Doc : doc = [id |-> live.sticker, hash |-> g.sticker.hash]
        BY <4>1
      <4>3. swapped(g) = [g EXCEPT !.sticker = doc]
        BY <4>2
      <4> QED
        BY <4>3 DEF Gift
    <3>3. page' = [i \in DOMAIN page |-> IF IsRegular(page[i]) /\ live.sticker # Nothing
                                          THEN swapped(page[i]) ELSE page[i]]
      BY <2>2 DEF SwapStickers
    <3> HIDE DEF swapped
    <3>4. page' \in [1 .. Len(page) -> Gift]
      BY <3>2, <3>3, PageParts
    <3> QED
      BY <3>4, PageParts, SeqOfFunction
  <2> QED
    BY <2>1, <2>2
<1>2. step' \in {"swap", "want"}
  BY DEF SpoofGate, SwapStickers
<1>3. UNCHANGED <<watcherVars, requestVars, reply, n, wanted, blob, keptVars, history>>
  BY DEF SpoofGate, SwapStickers
<1>4. TypeOK'
  BY <1>1, <1>2, <1>3 DEF TypeInv, TypeOK, Step
<1> QED
  BY <1>2, <1>3, <1>4 DEF TypeInv, ReplyType, ListFits, AtGift, Counted

LEMMA WantType ==
  ASSUME TypeInv, WantModel \/ WantSymbol
  PROVE  TypeInv'
<1>1. wanted' \in [Part -> EmojiOrNothing]
  <2>1. live.model \in EmojiOrNothing /\ live.symbol \in EmojiOrNothing
    BY DEF TypeInv, TypeOK, Config
  <2>2. wanted \in [Part -> EmojiOrNothing]
    BY DEF TypeInv, TypeOK
  <2> QED
    BY <2>1, <2>2 DEF WantModel, WantSymbol
<1>2. seen' \subseteq Emoji
  BY ReplyParts DEF WantModel, WantSymbol, TypeInv, TypeOK
<1>3. step' \in {"wantSymbol", "rebuild", "keepModel"}
  BY DEF WantModel, WantSymbol
<1>4. UNCHANGED <<watcherVars, requestVars, reply, page, n, blob, keptVars,
                  out, extended, answered, quiet, steady>>
  BY DEF WantModel, WantSymbol
<1>5. TypeOK'
  BY <1>1, <1>2, <1>3, <1>4 DEF TypeInv, TypeOK, Step
<1> QED
  BY <1>3, <1>4, <1>5 DEF TypeInv, ReplyType, ListFits, AtGift, Counted

\* What a reply has is a document.
LEMMA DocsInReplyType ==
  ASSUME TypeInv
  PROVE  DocsInReply \subseteq Doc
BY PageParts, ReplyParts DEF DocsInReply, Genuine, Doc

LEMMA KeepDocType ==
  ASSUME TypeInv, NEW p \in Part, KeepDoc(p)
  PROVE  TypeInv'
<1>1. cache' \in [1 .. Slots -> AnyDoc]
  <2>1. PICK d \in DocsInReply \cup {NoDoc} :
               cache' = IF d = NoDoc THEN cache ELSE [cache EXCEPT ![SlotToTake] = d]
    BY DEF KeepDoc
  <2>2. d \in AnyDoc /\ cache \in [1 .. Slots -> AnyDoc]
    BY DocsInReplyType DEF AnyDoc, TypeInv, TypeOK
  <2> QED
    BY <2>1, <2>2, SlotToTakeType
<1>2. step' \in {"keepSymbol", "rebuild"}
  BY DEF KeepDoc
<1>3. UNCHANGED <<watcherVars, requestVars, replyVars, stash, history>>
  BY DEF KeepDoc
<1>4. TypeOK'
  BY <1>1, <1>2, <1>3 DEF TypeInv, TypeOK, Step
<1> QED
  BY <1>2, <1>3, <1>4 DEF TypeInv, ReplyType, ListFits, AtGift, Counted

LEMMA BeginRebuildType ==
  ASSUME TypeInv, BeginRebuild
  PROVE  TypeInv'
<1>1. /\ n' \in Nat \ {0}
      /\ step' \in {"stash", "transfer"}
      /\ step' = "stash" => n' \in DOMAIN page /\ IsRegular(page[n'])
  <2>1. CASE step' = "stash" /\ RegularBelow(Len(page) + 1) # {} /\ n' = Last(RegularBelow(Len(page) + 1))
    <3>1. n' \in DOMAIN page /\ IsRegular(page[n'])
      BY <2>1, LastRegular
    <3> QED
      BY <2>1, <3>1, PageParts
  <2>2. CASE step' = "transfer" /\ n' = n
    BY <2>2 DEF TypeInv, TypeOK
  <2> QED
    BY <2>1, <2>2 DEF BeginRebuild
<1>2. wanted' \in [Part -> EmojiOrNothing]
  BY DEF BeginRebuild, NoWant, EmojiOrNothing
<1>3. UNCHANGED <<watcherVars, requestVars, reply, page, blob, keptVars, history>>
  BY DEF BeginRebuild
<1>4. TypeOK'
  BY <1>1, <1>2, <1>3 DEF TypeInv, TypeOK, Step
<1> QED
  BY <1>1, <1>3, <1>4 DEF TypeInv, ReplyType, ListFits, AtGift, Counted, IsRegular

LEMMA StashType ==
  ASSUME TypeInv, StashSticker
  PROVE  TypeInv'
<1>1. stash' \in AnyDoc
  <2> DEFINE first == CHOOSE i \in RegularBelow(n + 1) : RegularBelow(i) = {}
  <2>1. n \in RegularBelow(n + 1)
    BY DEF StashSticker, TypeInv, TypeOK, AtGift, RegularBelow
  <2>2. RegularBelow(n + 1) \subseteq DOMAIN page /\ RegularBelow(n + 1) \subseteq Nat
    BY PageParts DEF RegularBelow
  <2>3. PICK i \in RegularBelow(n + 1) : \A j \in RegularBelow(n + 1) : i <= j
    BY <2>1, <2>2, LeastExists
  <2>4. RegularBelow(i) = {}
    <3>1. i \in Nat /\ i < n + 1 /\ n \in Nat /\ DOMAIN page \subseteq Nat
      BY <2>2, <2>3, PageParts DEF RegularBelow, TypeInv, TypeOK
    <3>2. ASSUME NEW j \in RegularBelow(i) PROVE FALSE
      <4>1. j \in RegularBelow(n + 1) /\ j < i /\ j \in Nat
        BY <3>1, <3>2 DEF RegularBelow
      <4>2. i <= j
        BY <2>3, <4>1
      <4> QED
        BY <3>1, <4>1, <4>2
    <3> QED
      BY <3>2
  <2>5. first \in RegularBelow(n + 1)
    BY <2>3, <2>4
  <2>6. stash' = (IF On("transfer") THEN page[first].sticker ELSE stash)
    BY DEF StashSticker
  <2> HIDE DEF first
  <2>7. page[first].sticker \in AnyDoc
    BY <2>2, <2>5, PageParts DEF AnyDoc
  <2> QED
    BY <2>6, <2>7 DEF TypeInv, TypeOK
<1>2. step = "stash" /\ step' = "putModel"
  BY DEF StashSticker
<1>3. UNCHANGED <<watcherVars, requestVars, replyVars, cache, history>>
  BY DEF StashSticker
<1>4. TypeOK'
  BY <1>1, <1>2, <1>3 DEF TypeInv, TypeOK, Step
<1> QED
  BY <1>2, <1>3, <1>4 DEF TypeInv, ReplyType, ListFits, AtGift, Counted

LEMMA PutModelType ==
  ASSUME TypeInv, PutModel
  PROVE  TypeInv'
<1>1. n \in DOMAIN page
  BY DEF PutModel, TypeInv, AtGift
<1>2. blob' \in AnyDoc
  BY <1>1, PageParts, AttrDocType DEF PutModel, AnyDoc
<1>3. step' = "putSymbol"
  BY DEF PutModel
<1>4. UNCHANGED <<watcherVars, requestVars, reply, page, n, wanted, keptVars, history>>
  BY DEF PutModel
<1>5. TypeOK'
  BY <1>2, <1>3, <1>4 DEF TypeInv, TypeOK, Step
<1> QED
  BY <1>1, <1>3, <1>4, <1>5 DEF TypeInv, ReplyType, ListFits, AtGift, Counted

LEMMA PutSymbolType ==
  ASSUME TypeInv, PutSymbol
  PROVE  TypeInv'
<1>1. n \in DOMAIN page
  BY DEF PutSymbol, TypeInv, AtGift
<1>2. page' \in Seq(Gift) /\ DOMAIN page' = DOMAIN page
  <2> DEFINE symbol == AttrDoc(live.symbol, page[n].sticker)
             gift == [sticker |-> page[n].sticker, model |-> blob, symbol |-> symbol]
  <2>1. symbol \in AnyDoc
    BY <1>1, PageParts, AttrDocType DEF AnyDoc
  <2>2. blob \in AnyDoc
    BY DEF TypeInv, TypeOK
  <2>3. page' = [page EXCEPT ![n] = gift] \/ page' = page
    BY <1>1 DEF PutSymbol
  <2> HIDE DEF symbol
  <2>4. gift \in Gift
    BY <1>1, <2>1, <2>2, PageParts DEF Gift
  <2> HIDE DEF gift
  <2> QED
    BY <1>1, <2>3, <2>4, PageParts
<1>3. /\ n' \in Nat \ {0}
      /\ step' \in {"putModel", "transfer"}
      /\ step' = "putModel" => n' \in DOMAIN page
  <2>1. CASE RegularBelow(n) # {}
    <3>1. n' \in DOMAIN page /\ step' = "putModel"
      BY <2>1, LastRegular DEF PutSymbol
    <3> QED
      BY <3>1, PageParts
  <2>2. CASE RegularBelow(n) = {}
    BY <2>2 DEF PutSymbol
  <2> QED
    BY <2>1, <2>2
<1>4. blob' \in AnyDoc
  BY DEF PutSymbol, AnyDoc
<1>5. UNCHANGED <<watcherVars, requestVars, reply, wanted, keptVars, history>>
  BY DEF PutSymbol
<1>6. TypeOK'
  BY <1>2, <1>3, <1>4, <1>5 DEF TypeInv, TypeOK, Step
<1> QED
  BY <1>2, <1>3, <1>5, <1>6 DEF TypeInv, ReplyType, ListFits, AtGift, Counted

LEMMA TransferType ==
  ASSUME TypeInv, FakeTransfer
  PROVE  TypeInv'
<1>1. CASE page' = <<RegularGift(stash)>> /\ n' = 1 /\ step' = "putModel" /\ stash # NoDoc
  <2>1. stash \in Doc
    BY <1>1 DEF TypeInv, TypeOK, AnyDoc
  <2>2. <<RegularGift(stash)>> \in Seq(Gift) /\ DOMAIN <<RegularGift(stash)>> = 1 .. 1
    BY <2>1, RegularGiftType
  <2>3. page' \in Seq(Gift) /\ n' \in DOMAIN page'
    BY <1>1, <2>2
  <2>4. UNCHANGED <<watcherVars, requestVars, reply, wanted, blob, keptVars, history>>
    BY DEF FakeTransfer
  <2>5. TypeOK'
    BY <1>1, <2>3, <2>4 DEF TypeInv, TypeOK, Step
  <2> QED
    BY <1>1, <2>3, <2>4, <2>5 DEF TypeInv, ReplyType, ListFits, AtGift, Counted
<1>2. CASE page' = page /\ n' = n /\ step' = "done"
  <2>1. UNCHANGED <<watcherVars, requestVars, reply, wanted, blob, keptVars, history>>
    BY DEF FakeTransfer
  <2>2. TypeOK'
    BY <1>2, <2>1 DEF TypeInv, TypeOK, Step
  <2> QED
    BY <1>2, <2>1, <2>2 DEF TypeInv, ReplyType, ListFits, AtGift, Counted
<1> QED
  BY <1>1, <1>2 DEF FakeTransfer

LEMMA DoneType ==
  ASSUME TypeInv, WalkAgain \/ Dispatch
  PROVE  TypeInv'
<1>1. page' \in Seq(Gift)
  BY EmptySeq DEF WalkAgain, Dispatch, TypeInv, TypeOK
<1>2. step' \in {"spoof", "idle"} /\ answered' \in BOOLEAN /\ reply' \in {reply, NoReply}
  BY DEF WalkAgain, Dispatch, TypeInv, TypeOK
<1>3. UNCHANGED <<watcherVars, requestVars, n, wanted, blob, keptVars,
                  out, extended, seen, quiet, steady>>
  BY DEF WalkAgain, Dispatch
<1>4. TypeOK'
  BY <1>1, <1>2, <1>3 DEF TypeInv, TypeOK, Step
<1> QED
  BY <1>2, <1>3, <1>4 DEF TypeInv, ReplyType, ListFits, AtGift, Counted

LEMMA StutterType == TypeInv /\ UNCHANGED vars => TypeInv'
BY DEF vars, TypeInv, TypeOK, ReplyType, ListFits, AtGift, Counted, IsRegular

\* Every step of either keeps the types.
LEMMA NextType == TypeInv /\ [Next]_vars => TypeInv'
<1> SUFFICES ASSUME TypeInv, [Next]_vars PROVE TypeInv'
  OBVIOUS
<1>1. CASE Watcher
  BY <1>1, WatcherType
<1>2. CASE \E r \in Requests : SendPrepared(r)
  BY <1>2, SendPreparedType
<1>3. CASE EditInPlace \/ Drop \/ AutoloadGate \/ AppendIds \/ KeepIds
  BY <1>3, EditType, GateType, AppendType
<1>4. CASE GatherUnique \/ (\E p \in Part : GatherPart(p)) \/ GatherSticker \/ GatherHidden
           \/ GatherList
  BY <1>4, GatherType
<1>5. CASE \E r \in Replies : Receive(r)
  BY <1>5, ReceiveType, TrafficAssumption
<1>6. CASE \E k \in DOMAIN extended : Receive(Answer(extended[k]))
  BY <1>6, AnswerType, ReceiveType
<1>7. CASE SpoofGate \/ SwapStickers \/ WantModel \/ WantSymbol
  BY <1>7, SwapType, WantType
<1>8. CASE \E p \in Part : KeepDoc(p)
  BY <1>8, KeepDocType
<1>9. CASE BeginRebuild \/ StashSticker \/ PutModel \/ PutSymbol \/ FakeTransfer
           \/ WalkAgain \/ Dispatch
  BY <1>9, BeginRebuildType, StashType, PutModelType, PutSymbolType, TransferType, DoneType
<1>10. CASE UNCHANGED vars
  BY <1>10, StutterType
<1> QED
  BY <1>1, <1>2, <1>3, <1>4, <1>5, <1>6, <1>7, <1>8, <1>9, <1>10 DEF Next, Thread

LEMMA TypesHold == Spec => []TypeInv
BY InitType, NextType, PTL DEF Spec

\* Every variable keeps its type, and the rebuild its place on the page.
THEOREM TypeCorrect == Spec => []TypeOK
BY TypesHold, PTL DEF TypeInv

----------------------------------------------------------------------------
(* What is cached is genuine, and so is what is embedded.                  *)

\* The documents of emoji that a reply carried while they were chosen.
SeenDocs == {Genuine(id) : id \in seen}

\* Nothing else gets into the cache.
CacheSeen == \A s \in 1 .. Slots : cache[s] \in SeenDocs \cup {NoDoc}

\* Only a page's stickers are swapped, and only a bare reply's documents are kept.
SwapsPages == step = "swap" => reply.kind = "page"
KeepsWanted ==
  step \in {"keepModel", "keepSymbol"} =>
    reply.kind = "docs" /\ \A p \in Part : wanted[p] \in reply.docs => wanted[p] \in seen

\* So where documents are kept from, no sticker has the id of an emoji.
StickersOwn == reply.kind = "docs" => \A i \in DOMAIN page : page[i].sticker.id \in Sticker

\* The model of the gift being built.
BlobSeen == step = "putSymbol" => blob \in SeenDocs \cup {page[n].sticker}

GenuineInv ==
  CacheSeen /\ SwapsPages /\ KeepsWanted /\ StickersOwn /\ BlobSeen /\ EmbeddedIsGenuineOrOwn

LEMMA InitGenuine == Init => GenuineInv
<1> SUFFICES ASSUME Init PROVE GenuineInv
  OBVIOUS
<1>1. DOMAIN page = {}
  BY DEF Init
<1>2. CacheSeen
  BY DEF Init, CacheSeen
<1> QED
  BY <1>1, <1>2 DEF Init, GenuineInv, SwapsPages, KeepsWanted, StickersOwn, BlobSeen,
                    EmbeddedIsGenuineOrOwn, NoReply

\* A step that changes none of this keeps the invariant.
LEMMA SameGenuine ==
  ASSUME GenuineInv, UNCHANGED <<reply, page, n, blob, wanted, cache, seen>>,
         step' = step \/ step' \notin {"swap", "keepModel", "keepSymbol", "putSymbol"}
  PROVE  GenuineInv'
BY DEF GenuineInv, CacheSeen, SwapsPages, KeepsWanted, StickersOwn, BlobSeen,
       EmbeddedIsGenuineOrOwn, SeenDocs, IsRegular

\* The watcher and the steps of a request change none of it.
LEMMA RequestGenuine ==
  ASSUME GenuineInv,
         \/ Watcher \/ (\E r \in Requests : SendPrepared(r)) \/ EditInPlace \/ Drop
         \/ AutoloadGate \/ GatherUnique \/ (\E p \in Part : GatherPart(p)) \/ GatherSticker
         \/ GatherHidden \/ GatherList \/ AppendIds \/ KeepIds
  PROVE  GenuineInv'
<1>1. CASE Watcher
  <2>1. UNCHANGED <<reply, page, n, blob, wanted, cache, seen, step>>
    BY <1>1 DEF Watcher, BeginReload, LoadFlag, LoadId, ClearList, FillList, UseDefaults
  <2> QED
    BY <2>1, SameGenuine
<1>2. CASE (\E r \in Requests : SendPrepared(r)) \/ EditInPlace \/ Drop \/ AutoloadGate
           \/ AppendIds \/ KeepIds
  <2>1. /\ UNCHANGED <<reply, page, n, blob, wanted, cache, seen>>
        /\ step' \in {"gate", "edit", "idle", "unique"}
    BY <1>2 DEF SendPrepared, EditInPlace, Drop, AutoloadGate, AppendIds, KeepIds
  <2> QED
    BY <2>1, SameGenuine
<1>3. CASE GatherUnique \/ (\E p \in Part : GatherPart(p)) \/ GatherSticker \/ GatherHidden
           \/ GatherList
  <2>1. /\ UNCHANGED <<reply, page, n, blob, wanted, cache, seen>>
        /\ step' \in {"askModel", "askSymbol", "askSticker", "hidden", "list", "append"}
    BY <1>3 DEF GatherUnique, GatherPart, GatherSticker, GatherHidden, GatherList
  <2> QED
    BY <2>1, SameGenuine
<1> QED
  BY <1>1, <1>2, <1>3

\* A page arrives with stickers of its own and nothing built.
LEMMA ReceiveGenuine ==
  ASSUME GenuineInv, NEW r \in Reply, Receive(r)
  PROVE  GenuineInv'
<1>1. r.stickers \in Seq(Sticker)
  BY DEF Reply
<1>2. DOMAIN page' = DOMAIN r.stickers
  BY DEF Receive
<1>3. ASSUME NEW i \in DOMAIN page' PROVE page'[i].sticker.id \in Sticker /\ page'[i].model = NoDoc
  <2>1. page'[i] = RegularGift(Genuine(r.stickers[i]))
    BY <1>2 DEF Receive
  <2>2. r.stickers[i] \in Sticker
    BY <1>1, <1>2
  <2> QED
    BY <2>1, <2>2 DEF RegularGift, Genuine
<1>4. step' = "spoof" /\ UNCHANGED <<cache, seen>>
  BY DEF Receive
<1> QED
  BY <1>3, <1>4 DEF GenuineInv, CacheSeen, SwapsPages, KeepsWanted, StickersOwn, BlobSeen,
                    EmbeddedIsGenuineOrOwn, SeenDocs, IsRegular

\* Another id goes to a regular gift, of a page.
LEMMA SwapGenuine ==
  ASSUME TypeInv, GenuineInv, SpoofGate \/ SwapStickers
  PROVE  GenuineInv'
<1>1. CASE SpoofGate
  BY <1>1 DEF SpoofGate, GenuineInv, CacheSeen, SwapsPages, KeepsWanted, StickersOwn, BlobSeen,
              EmbeddedIsGenuineOrOwn, SeenDocs, IsRegular
<1>2. CASE SwapStickers
  <2>1. reply.kind = "page" /\ reply' = reply /\ step' = "want" /\ UNCHANGED <<cache, seen>>
    BY <1>2 DEF SwapStickers, GenuineInv, SwapsPages
  <2>2. DOMAIN page' = DOMAIN page
    BY <1>2 DEF SwapStickers
  <2>3. ASSUME NEW i \in DOMAIN page, ~IsRegular(page'[i]) PROVE page'[i] = page[i]
    <3> DEFINE doc == [id |-> live.sticker, hash |-> page[i].sticker.hash]
    <3>1. page'[i] = page[i] \/ (page'[i] = [page[i] EXCEPT !.sticker = doc] /\ IsRegular(page[i]))
      BY <1>2 DEF SwapStickers
    <3> HIDE DEF doc
    <3>2. [page[i] EXCEPT !.sticker = doc].model = page[i].model
      BY PageParts DEF Gift
    <3> QED
      BY <2>3, <3>1, <3>2 DEF IsRegular
  <2>4. EmbeddedIsGenuineOrOwn'
    BY <2>1, <2>2, <2>3 DEF GenuineInv, EmbeddedIsGenuineOrOwn, IsRegular
  <2> QED
    BY <2>1, <2>4 DEF GenuineInv, CacheSeen, SwapsPages, KeepsWanted, StickersOwn, BlobSeen,
                      SeenDocs
<1> QED
  BY <1>1, <1>2

\* What is wanted and carried has been seen.
LEMMA WantGenuine ==
  ASSUME GenuineInv, WantModel \/ WantSymbol
  PROVE  GenuineInv'
<1>1. seen \subseteq seen' /\ UNCHANGED <<reply, page, n, blob, cache>>
  BY DEF WantModel, WantSymbol
<1>2. step' \in {"wantSymbol", "rebuild", "keepModel"}
  BY DEF WantModel, WantSymbol
<1>3. KeepsWanted'
  <2>1. CASE WantModel
    BY <2>1 DEF WantModel, KeepsWanted
  <2>2. CASE WantSymbol
    <3>1. step' = "keepModel" => reply.kind = "docs"
      BY <2>2 DEF WantSymbol, CarriesDocs
    <3>2. reply.kind = "docs" => \A p \in Part : wanted'[p] \in reply.docs => wanted'[p] \in seen'
      BY <2>2 DEF WantSymbol
    <3> QED
      BY <1>1, <1>2, <3>1, <3>2 DEF KeepsWanted
  <2> QED
    BY <2>1, <2>2
<1>4. SeenDocs \subseteq SeenDocs'
  BY <1>1 DEF SeenDocs
<1>5. CacheSeen'
  BY <1>1, <1>4 DEF GenuineInv, CacheSeen
<1>6. EmbeddedIsGenuineOrOwn'
  BY <1>1, <1>4 DEF GenuineInv, EmbeddedIsGenuineOrOwn, SeenDocs, IsRegular
<1> QED
  BY <1>1, <1>2, <1>3, <1>5, <1>6 DEF GenuineInv, SwapsPages, StickersOwn, BlobSeen

\* What is kept is the genuine document of what was wanted.
LEMMA KeepGenuine ==
  ASSUME TypeInv, GenuineInv, NEW p \in Part, KeepDoc(p)
  PROVE  GenuineInv'
<1>1. step \in {"keepModel", "keepSymbol"} /\ step' \in {"keepSymbol", "rebuild"}
  BY DEF KeepDoc, KeepLabel, Part
<1>2. UNCHANGED <<reply, page, n, blob, wanted, seen>>
  BY DEF KeepDoc
<1>3. reply.kind = "docs" /\ \A q \in Part : wanted[q] \in reply.docs => wanted[q] \in seen
  BY <1>1 DEF GenuineInv, KeepsWanted
<1>4. CacheSeen'
  <2>1. PICK d \in {x \in DocsInReply : x.id = wanted[p]} \cup {NoDoc} :
               cache' = IF d = NoDoc THEN cache ELSE [cache EXCEPT ![SlotToTake] = d]
    BY DEF KeepDoc
  <2>2. wanted[p] \notin Sticker
    BY IdsAssumption DEF TypeInv, TypeOK, EmojiOrNothing
  <2>3. \A i \in DOMAIN page : page[i].sticker.id \in Sticker
    BY <1>3 DEF GenuineInv, StickersOwn
  <2>4. d \in SeenDocs \cup {NoDoc}
    <3>1. CASE d \in DocsInReply /\ d.id = wanted[p]
      <4>1. PICK id \in reply.docs : d = Genuine(id)
        BY <2>2, <2>3, <3>1 DEF DocsInReply
      <4>2. id = wanted[p]
        BY <3>1, <4>1 DEF Genuine
      <4> QED
        BY <1>3, <4>1, <4>2 DEF SeenDocs
    <3> QED
      BY <2>1, <3>1
  <2>5. cache \in [1 .. Slots -> AnyDoc]
    BY DEF TypeInv, TypeOK
  <2>6. \A s \in 1 .. Slots : cache'[s] = cache[s] \/ cache'[s] = d
    BY <2>1, <2>5
  <2> QED
    BY <1>2, <2>4, <2>6 DEF GenuineInv, CacheSeen, SeenDocs
<1> QED
  BY <1>1, <1>2, <1>3, <1>4 DEF GenuineInv, SwapsPages, KeepsWanted, StickersOwn, BlobSeen,
                                EmbeddedIsGenuineOrOwn, SeenDocs, IsRegular

\* What is embedded is a document of the cache, or the gift's own.
LEMMA AttrDocGenuine ==
  ASSUME GenuineInv, NEW id, NEW own
  PROVE  AttrDoc(id, own) \in SeenDocs \cup {own}
<1>1. \A s \in 1 .. Slots : cache[s].id # Nothing => cache[s] \in SeenDocs
  BY DEF GenuineInv, CacheSeen, NoDoc, Genuine
<1> QED
  BY <1>1, AttrDocFrom

LEMMA BuildGenuine ==
  ASSUME TypeInv, GenuineInv,
         BeginRebuild \/ StashSticker \/ PutModel \/ PutSymbol \/ FakeTransfer
  PROVE  GenuineInv'
<1>1. CASE BeginRebuild \/ StashSticker
  <2>1. UNCHANGED <<reply, page, cache, seen>> /\ step' \in {"stash", "transfer", "putModel"}
    BY <1>1 DEF BeginRebuild, StashSticker
  <2> QED
    BY <2>1 DEF GenuineInv, CacheSeen, SwapsPages, KeepsWanted, StickersOwn, BlobSeen,
                EmbeddedIsGenuineOrOwn, SeenDocs, IsRegular
<1>2. CASE PutModel
  <2>1. UNCHANGED <<reply, page, n, cache, seen>> /\ step' = "putSymbol"
    BY <1>2 DEF PutModel
  <2>2. blob' \in SeenDocs \cup {page[n].sticker}
    BY <1>2, AttrDocGenuine DEF PutModel
  <2> QED
    BY <2>1, <2>2 DEF GenuineInv, CacheSeen, SwapsPages, KeepsWanted, StickersOwn, BlobSeen,
                      EmbeddedIsGenuineOrOwn, SeenDocs, IsRegular
<1>3. CASE PutSymbol
  <2> DEFINE symbol == AttrDoc(live.symbol, page[n].sticker)
             gift == [sticker |-> page[n].sticker, model |-> blob, symbol |-> symbol]
  <2>1. n \in DOMAIN page /\ blob \in SeenDocs \cup {page[n].sticker}
    BY <1>3 DEF PutSymbol, TypeInv, AtGift, GenuineInv, BlobSeen
  <2>2. symbol \in SeenDocs \cup {page[n].sticker}
    BY AttrDocGenuine
  <2>3. page' = [page EXCEPT ![n] = gift] \/ page' = page
    BY <1>3, <2>1 DEF PutSymbol
  <2>4. gift.sticker = page[n].sticker /\ gift.model = blob /\ gift.symbol = symbol
    OBVIOUS
  <2> HIDE DEF gift, symbol
  <2>5. DOMAIN page' = DOMAIN page /\ \A i \in DOMAIN page : page'[i] = page[i] \/ (i = n /\ page'[i] = gift)
    BY <2>1, <2>3, PageParts
  <2>6. UNCHANGED <<reply, cache, seen>> /\ step' \in {"putModel", "transfer"}
    BY <1>3 DEF PutSymbol
  <2>7. EmbeddedIsGenuineOrOwn'
    <3> SUFFICES ASSUME NEW i \in DOMAIN page, ~IsRegular(page'[i])
                 PROVE  {page'[i].model, page'[i].symbol} \subseteq SeenDocs \cup {page'[i].sticker}
      BY <2>5, <2>6 DEF EmbeddedIsGenuineOrOwn, SeenDocs, IsRegular
    <3>1. CASE page'[i] = page[i]
      BY <3>1 DEF GenuineInv, EmbeddedIsGenuineOrOwn, SeenDocs
    <3>2. CASE i = n /\ page'[i] = gift
      BY <2>1, <2>2, <2>4, <3>2
    <3> QED
      BY <2>5, <3>1, <3>2
  <2>8. StickersOwn'
    BY <2>1, <2>4, <2>5, <2>6 DEF GenuineInv, StickersOwn
  <2> QED
    BY <2>6, <2>7, <2>8 DEF GenuineInv, CacheSeen, SwapsPages, KeepsWanted, BlobSeen, SeenDocs
<1>4. CASE FakeTransfer
  <2>1. UNCHANGED <<reply, cache, seen>> /\ step' \in {"putModel", "done"}
    BY <1>4 DEF FakeTransfer
  <2>2. page' = page \/ (reply.kind = "transfer" /\ page' = <<RegularGift(stash)>>)
    BY <1>4 DEF FakeTransfer
  <2>3. \A i \in DOMAIN <<RegularGift(stash)>> : IsRegular(<<RegularGift(stash)>>[i])
    BY DEF RegularGift, IsRegular
  <2>4. EmbeddedIsGenuineOrOwn'
    BY <2>1, <2>2, <2>3 DEF GenuineInv, EmbeddedIsGenuineOrOwn, IsRegular
  <2>5. StickersOwn'
    BY <2>1, <2>2 DEF GenuineInv, StickersOwn
  <2> QED
    BY <2>1, <2>4, <2>5 DEF GenuineInv, CacheSeen, SwapsPages, KeepsWanted, BlobSeen, SeenDocs
<1> QED
  BY <1>1, <1>2, <1>3, <1>4

LEMMA DoneGenuine ==
  ASSUME GenuineInv, WalkAgain \/ Dispatch
  PROVE  GenuineInv'
<1>1. step' \in {"spoof", "idle"} /\ UNCHANGED <<cache, seen>>
  BY DEF WalkAgain, Dispatch
<1>2. UNCHANGED <<reply, page>> \/ DOMAIN page' = {}
  BY DEF WalkAgain, Dispatch
<1> QED
  BY <1>1, <1>2 DEF GenuineInv, CacheSeen, SwapsPages, KeepsWanted, StickersOwn, BlobSeen,
                    EmbeddedIsGenuineOrOwn, SeenDocs, IsRegular

LEMMA NextGenuine == TypeInv /\ GenuineInv /\ [Next]_vars => GenuineInv'
<1> SUFFICES ASSUME TypeInv, GenuineInv, [Next]_vars PROVE GenuineInv'
  OBVIOUS
<1>1. CASE \/ Watcher \/ (\E r \in Requests : SendPrepared(r)) \/ EditInPlace \/ Drop
           \/ AutoloadGate \/ GatherUnique \/ (\E p \in Part : GatherPart(p)) \/ GatherSticker
           \/ GatherHidden \/ GatherList \/ AppendIds \/ KeepIds
  BY <1>1, RequestGenuine
<1>2. CASE (\E r \in Replies : Receive(r)) \/ \E k \in DOMAIN extended : Receive(Answer(extended[k]))
  BY <1>2, ReceiveGenuine, AnswerType, TrafficAssumption
<1>3. CASE SpoofGate \/ SwapStickers \/ WantModel \/ WantSymbol
  BY <1>3, SwapGenuine, WantGenuine
<1>4. CASE \E p \in Part : KeepDoc(p)
  BY <1>4, KeepGenuine
<1>5. CASE BeginRebuild \/ StashSticker \/ PutModel \/ PutSymbol \/ FakeTransfer
           \/ WalkAgain \/ Dispatch
  BY <1>5, BuildGenuine, DoneGenuine
<1>6. CASE UNCHANGED vars
  BY <1>6, SameGenuine DEF vars
<1> QED
  BY <1>1, <1>2, <1>3, <1>4, <1>5, <1>6 DEF Next, Thread

LEMMA GenuineHolds == Spec => []GenuineInv
BY InitGenuine, NextGenuine, TypesHold, PTL DEF Spec

\* The access hash of a cached document is its own, whatever ids the configuration
\* has put into the stickers of the pages that went by.
THEOREM CacheGenuine_Always == Spec => []CacheGenuine
<1>1. GenuineInv => CacheGenuine
  BY DEF GenuineInv, CacheSeen, CacheGenuine, SeenDocs, NoDoc, Genuine
<1> QED
  BY <1>1, GenuineHolds, PTL

\* A built gift has its own sticker or the genuine document of an emoji that a
\* reply carried while it was chosen, whatever a reload does in between.
THEOREM EmbeddedIsGenuineOrOwn_Always == Spec => []EmbeddedIsGenuineOrOwn
BY GenuineHolds, PTL DEF GenuineInv

----------------------------------------------------------------------------
(* What a request leaves as.                                               *)

Preparing == {"edit", "gate", "unique", "askModel", "askSymbol", "askSticker",
              "hidden", "list", "append"}

\* Until it is queued a request is as it was submitted; the ids of ours are only
\* gathered as long as none have gone out.
SentInv ==
  /\ step \in Preparing => body = AsSubmitted(request)
  /\ step \in Preparing \ {"edit", "gate"} => ~done
  /\ Len(extended) = IF done THEN 1 ELSE 0
  /\ SentWhole

LEMMA InitSent == Init => SentInv
<1> SUFFICES ASSUME Init PROVE SentInv
  OBVIOUS
<1>1. Len(extended) = 0 /\ ~done /\ step = "idle" /\ out = "none"
  BY EmptySeq DEF Init
<1> QED
  BY <1>1 DEF SentInv, SentWhole, Preparing

\* A step that neither changes a request nor queues one.
LEMMA SameSent ==
  ASSUME SentInv, UNCHANGED <<request, body, done, extended, out>>,
         \/ step' \notin Preparing
         \/ step' = step
         \/ {step, step'} \subseteq Preparing \ {"edit", "gate"}
  PROVE  SentInv'
BY DEF SentInv, SentWhole, Preparing

\* A step that turns to a request or a reply.
LEMMA TurnSent ==
  ASSUME SentInv, UNCHANGED <<done, extended>>, out' = "none",
         step' \in Preparing => body' = AsSubmitted(request') /\ step' \in {"edit", "gate"}
  PROVE  SentInv'
BY DEF SentInv, SentWhole

\* A request that is queued as it was submitted, or with its bit changed in a
\* buffer of its own.
LEMMA QueueSent ==
  ASSUME TypeInv, SentInv, step \in Preparing, UNCHANGED <<request, done, extended>>, step' = "idle",
         body'.ids = body.ids, body'.count = body.count, request.shared => body' = body
  PROVE  SentInv'
<1>1. body = AsSubmitted(request) /\ body.ids \in Seq(Emoji) /\ body.count = Len(body.ids)
  BY DEF SentInv, TypeInv, TypeOK, Counted
<1>2. request.ids = body.ids
  BY <1>1 DEF AsSubmitted
<1>3. SubSeq(body.ids, 1, Len(body.ids)) = body.ids
  BY <1>1
<1> QED
  BY <1>1, <1>2, <1>3 DEF SentInv, SentWhole, Preparing

\* The ids of ours go behind those Telegram asked for, once.
LEMMA AppendSent ==
  ASSUME TypeInv, SentInv, AppendIds
  PROVE  SentInv'
<1> DEFINE all == body.ids \o ids
           m == body.count + Len(ids)
<1>1. /\ body \in [ids : Seq(Emoji), count : Nat, bit : BOOLEAN] /\ body.count = Len(body.ids)
      /\ ids \in Seq(Emoji) /\ extended \in Seq(Seq(Emoji))
  BY DEF TypeInv, TypeOK, Counted
<1>2. body = AsSubmitted(request) /\ Len(extended) = 0 /\ ~request.shared
  BY DEF SentInv, AppendIds, Preparing
<1>3. request.ids = body.ids
  BY <1>2 DEF AsSubmitted
<1>4. all \in Seq(Emoji) /\ Len(all) = m /\ m \in Nat
  BY <1>1, ConcatProperties
<1>5. SubSeq(all, 1, Len(body.ids)) = body.ids
  BY <1>1
<1>6. Extended.ids = all /\ Extended.count = m
  BY ExtendedParts
<1> HIDE DEF all, m
<1>7. SubSeq(all, 1, m) = all
  BY <1>4
<1>8. extended' = Append(extended, all) /\ body'.ids = all /\ body'.count = m
      /\ done' = TRUE /\ step' = "idle" /\ request' = request
  BY <1>6, <1>7 DEF AppendIds
<1>9. Len(extended') = 1 /\ extended'[1] = all
  BY <1>1, <1>2, <1>4, <1>8
<1> QED
  BY <1>2, <1>3, <1>4, <1>5, <1>8, <1>9 DEF SentInv, SentWhole, Preparing

LEMMA NextSent == TypeInv /\ SentInv /\ [Next]_vars => SentInv'
<1> SUFFICES ASSUME TypeInv, SentInv, [Next]_vars PROVE SentInv'
  OBVIOUS
<1>1. CASE Watcher
  <2>1. UNCHANGED <<request, body, done, extended, out, step>>
    BY <1>1 DEF Watcher, BeginReload, LoadFlag, LoadId, ClearList, FillList, UseDefaults
  <2> QED
    BY <2>1, SameSent
<1>2. CASE \E r \in Requests : SendPrepared(r)
  <2>1. /\ UNCHANGED <<done, extended>> /\ out' = "none" /\ body' = AsSubmitted(request')
        /\ step' \in {"edit", "gate"}
    BY <1>2 DEF SendPrepared
  <2> QED
    BY <2>1, TurnSent
<1>3. CASE (\E r \in Replies : Receive(r)) \/ \E k \in DOMAIN extended : Receive(Answer(extended[k]))
  <2>1. UNCHANGED <<done, extended>> /\ out' = "none" /\ step' = "spoof"
    BY <1>3 DEF Receive
  <2> QED
    BY <2>1, TurnSent DEF Preparing
<1>4. CASE EditInPlace
  <2>1. step \in Preparing /\ UNCHANGED <<request, done, extended>> /\ step' = "idle"
    BY <1>4 DEF EditInPlace, Preparing
  <2>2. PICK b : b = (request.kind = "updateStatus")
    OBVIOUS
  <2>3. body' = body \/ (body' = [body EXCEPT !.bit = b] /\ ~request.shared)
    BY <1>4, <2>2 DEF EditInPlace
  <2>4. body'.ids = body.ids /\ body'.count = body.count
    BY <2>3 DEF TypeInv, TypeOK
  <2> QED
    BY <2>1, <2>3, <2>4, QueueSent
<1>5. CASE Drop \/ KeepIds
  <2>1. step \in Preparing /\ UNCHANGED <<request, body, done, extended>> /\ step' = "idle"
    BY <1>5 DEF Drop, KeepIds, Preparing
  <2> QED
    BY <2>1, QueueSent
<1>6. CASE AutoloadGate
  <2>1. CASE step' = "idle"
    <3>1. step \in Preparing /\ UNCHANGED <<request, body, done, extended>>
      BY <1>6 DEF AutoloadGate, Preparing
    <3> QED
      BY <2>1, <3>1, QueueSent
  <2>2. CASE step' = "unique" /\ ~done /\ out' = out
    BY <1>6, <2>2 DEF AutoloadGate, SentInv, SentWhole, Preparing
  <2> QED
    BY <1>6, <2>1, <2>2 DEF AutoloadGate
<1>7. CASE GatherUnique \/ (\E p \in Part : GatherPart(p)) \/ GatherSticker \/ GatherHidden
           \/ GatherList
  <2>1. /\ UNCHANGED <<request, body, done, extended, out>>
        /\ step' \in Preparing \ {"edit", "gate"} /\ step \in Preparing \ {"edit", "gate"}
    BY <1>7 DEF GatherUnique, GatherPart, GatherSticker, GatherHidden, GatherList, Preparing,
                AskLabel, Part
  <2> QED
    BY <2>1, SameSent
<1>8. CASE AppendIds
  BY <1>8, AppendSent
<1>9. CASE \/ SpoofGate \/ SwapStickers \/ WantModel \/ WantSymbol \/ (\E p \in Part : KeepDoc(p))
           \/ BeginRebuild \/ StashSticker \/ PutModel \/ PutSymbol \/ FakeTransfer
           \/ WalkAgain \/ Dispatch
  <2>1. /\ UNCHANGED <<request, body, done, extended, out>>
        /\ step' \notin Preparing
    BY <1>9 DEF SpoofGate, SwapStickers, WantModel, WantSymbol, KeepDoc, BeginRebuild,
                StashSticker, PutModel, PutSymbol, FakeTransfer, WalkAgain, Dispatch, Preparing
  <2> QED
    BY <2>1, SameSent
<1>10. CASE UNCHANGED vars
  BY <1>10, SameSent DEF vars
<1> QED
  BY <1>1, <1>2, <1>3, <1>4, <1>5, <1>6, <1>7, <1>8, <1>9, <1>10 DEF Next, Thread

\* Every request that is sent has Telegram's ids in front, all of them counted; one
\* that somebody else holds is sent as it was; and one request of a session
\* carries ids of ours.
THEOREM SentWhole_Always == Spec => []SentWhole
<1>1. Spec => []SentInv
  BY InitSent, NextSent, TypesHold, PTL DEF Spec
<1> QED
  BY <1>1, PTL DEF SentInv

----------------------------------------------------------------------------
(* What was seen is cached, as long as there is room for all of it.        *)

\* The ids whose documents the capture has yet to look for.
Awaited == CASE step = "keepModel" -> {wanted["model"], wanted["symbol"]}
             [] step = "keepSymbol" -> {wanted["symbol"]}
             [] OTHER -> {}

\* No document has two slots.
Distinct == \A s, q \in 1 .. Slots : s # q /\ cache[s] # NoDoc => cache[s].id # cache[q].id

\* What a reply carried while it was wanted is cached, or will be from that reply.
SeenCached == RoomForAll => \A id \in seen : Captured(id) \/ id \in Awaited \cap reply.docs

CachedInv == IsFiniteSet(seen) /\ Distinct /\ SeenCached

LEMMA InitCached == Init => CachedInv
<1> SUFFICES ASSUME Init PROVE CachedInv
  OBVIOUS
<1>1. IsFiniteSet(seen)
  BY FS_EmptySet DEF Init
<1>2. Distinct /\ SeenCached
  BY DEF Init, Distinct, SeenCached
<1> QED
  BY <1>1, <1>2 DEF CachedInv

\* A step in which the capture does nothing.
LEMMA SameCached ==
  ASSUME CachedInv, UNCHANGED <<cache, seen>>, Awaited = {} \/ UNCHANGED <<step, wanted, reply>>
  PROVE  CachedInv'
<1>1. RoomForAll' => RoomForAll
  BY DEF RoomForAll
<1>2. \A id : Captured(id) <=> Captured(id)'
  BY DEF Captured, SlotsOf
<1>3. SeenCached'
  <2>1. CASE Awaited = {}
    BY <1>1, <1>2, <2>1 DEF CachedInv, SeenCached
  <2>2. CASE UNCHANGED <<step, wanted, reply>>
    <3>1. Awaited' = Awaited /\ reply' = reply
      BY <2>2 DEF Awaited
    <3> QED
      BY <1>1, <1>2, <3>1 DEF CachedInv, SeenCached
  <2> QED
    BY <2>1, <2>2
<1> QED
  BY <1>3 DEF CachedInv, Distinct

\* Seeing more leaves less room.
LEMMA RoomShrinks ==
  ASSUME IsFiniteSet(seen), IsFiniteSet(seen'), seen \subseteq seen', RoomForAll'
  PROVE  RoomForAll
<1>1. Cardinality(seen) <= Cardinality(seen')
  BY FS_Subset
<1>2. Cardinality(seen) \in Nat /\ Cardinality(seen') \in Nat
  BY FS_CardinalityType
<1> QED
  BY <1>1, <1>2, SlotsAssumption DEF RoomForAll

\* Two ids at most come to be seen at once.
LEMMA SeenGrows ==
  ASSUME IsFiniteSet(seen), WantModel \/ WantSymbol
  PROVE  IsFiniteSet(seen') /\ seen \subseteq seen'
<1>1. CASE WantModel
  BY <1>1 DEF WantModel
<1>2. CASE WantSymbol
  <2> DEFINE both == {wanted'["model"], wanted'["symbol"]}
  <2>1. IsFiniteSet(both)
    <3>1. IsFiniteSet({wanted'["model"]})
      BY FS_Singleton
    <3> QED
      BY <3>1, FS_AddElement
  <2>2. {wanted'[p] : p \in Part} = both
    BY DEF Part
  <2> HIDE DEF both
  <2>3. IsFiniteSet(both \cap reply.docs)
    BY <2>1, FS_Intersection
  <2>4. IsFiniteSet(seen \cup (both \cap reply.docs))
    BY <2>3, FS_Union
  <2> QED
    BY <1>2, <2>2, <2>4 DEF WantSymbol
<1> QED
  BY <1>1, <1>2

\* What is wanted and carried is awaited from then on.
LEMMA WantCached ==
  ASSUME TypeInv, CachedInv, WantModel \/ WantSymbol
  PROVE  CachedInv'
<1>1. IsFiniteSet(seen') /\ seen \subseteq seen'
  BY SeenGrows DEF CachedInv
<1>2. Awaited = {} /\ UNCHANGED <<cache, reply>>
  BY DEF WantModel, WantSymbol, Awaited
<1>3. \A id : Captured(id) <=> Captured(id)'
  BY <1>2 DEF Captured, SlotsOf
<1>4. SeenCached'
  <2> SUFFICES ASSUME RoomForAll', NEW id \in seen'
               PROVE  Captured(id)' \/ id \in Awaited' \cap reply'.docs
    BY DEF SeenCached
  <2>1. RoomForAll
    BY <1>1, RoomShrinks DEF CachedInv
  <2>2. CASE id \in seen
    BY <1>2, <1>3, <2>1, <2>2 DEF CachedInv, SeenCached
  <2>3. CASE id \notin seen
    <3>1. WantSymbol /\ reply.kind = "docs"
      BY <2>3 DEF WantModel, WantSymbol
    <3>2. PICK p \in Part : id = wanted'[p] /\ id \in reply.docs
      BY <2>3, <3>1 DEF WantSymbol
    <3>3. id # Nothing
      BY <3>2, ReplyParts, IdsAssumption
    <3>4. wanted' # NoWant
      BY <3>2, <3>3 DEF NoWant
    <3>5. step' = "keepModel"
      BY <3>1, <3>4 DEF WantSymbol, CarriesDocs
    <3>6. id \in Awaited'
      BY <3>2, <3>5 DEF Awaited, Part
    <3> QED
      BY <1>2, <3>2, <3>6
  <2> QED
    BY <2>2, <2>3
<1> QED
  BY <1>1, <1>2, <1>4 DEF CachedInv, Distinct

\* With room for all that was seen, a slot is free for what has none yet.
LEMMA FreeSlot ==
  ASSUME TypeInv, GenuineInv, CachedInv, RoomForAll, NEW id \in seen, ~Captured(id)
  PROVE  cache[SlotToTake] = NoDoc
<1>1. CASE \E s \in 1 .. Slots : cache[s] = NoDoc
  <2> DEFINE free == {s \in 1 .. Slots : cache[s] = NoDoc}
  <2>1. free \subseteq Nat /\ free # {}
    BY <1>1, SlotsAssumption
  <2>2. \E s \in free : \A q \in free : s <= q
    BY <2>1, LeastExists
  <2>3. \E s \in 1 .. Slots : cache[s] = NoDoc /\ \A q \in 1 .. s - 1 : cache[q] # NoDoc
    BY <2>2, SlotsAssumption
  <2> QED
    BY <1>1, <2>3 DEF SlotToTake
<1>2. CASE \A s \in 1 .. Slots : cache[s] # NoDoc
  <2> DEFINE others == seen \ {id}
             held == [s \in 1 .. Slots |-> cache[s].id]
  <2>1. held \in [1 .. Slots -> others]
    <3> SUFFICES ASSUME NEW s \in 1 .. Slots PROVE cache[s].id \in others
      OBVIOUS
    <3>1. PICK x \in seen : cache[s] = Genuine(x)
      BY <1>2 DEF GenuineInv, CacheSeen, SeenDocs
    <3>2. cache[s].id = x
      BY <3>1 DEF Genuine
    <3>3. id # Nothing
      BY IdsAssumption DEF TypeInv, TypeOK
    <3>4. cache[s].id # id
      BY <3>3 DEF Captured, SlotsOf
    <3> QED
      BY <3>2, <3>4
  <2>2. IsFiniteSet(others) /\ Cardinality(others) = Cardinality(seen) - 1
        /\ Cardinality(seen) \in Nat /\ Cardinality(others) \in Nat
    BY FS_RemoveElement, FS_CardinalityType DEF CachedInv
  <2>3. IsFiniteSet(1 .. Slots) /\ Cardinality(1 .. Slots) = Slots
    BY SlotsAssumption, FS_Interval
  <2>4. Cardinality(others) < Cardinality(1 .. Slots)
    BY <2>2, <2>3, SlotsAssumption DEF RoomForAll
  <2> HIDE DEF others
  <2>5. \E s, q \in 1 .. Slots : s # q /\ held[s] = held[q]
    <3> HIDE DEF held
    <3> QED
      BY <2>1, <2>2, <2>3, <2>4, FS_PigeonHole
  <2> QED
    BY <1>2, <2>5 DEF CachedInv, Distinct
<1> QED
  BY <1>1, <1>2

\* What is kept is what was wanted, unless it has a slot.
LEMMA KeptDoc ==
  ASSUME TypeInv, GenuineInv, NEW p \in Part, KeepDoc(p)
  PROVE  \/ cache' = cache /\ (Captured(wanted[p]) \/ wanted[p] \notin reply.docs)
         \/ /\ ~Captured(wanted[p]) /\ wanted[p] \in seen
            /\ cache' = [cache EXCEPT ![SlotToTake] = Genuine(wanted[p])]
<1> DEFINE id == wanted[p]
           found == {x \in DocsInReply : x.id = id}
<1>1. PICK d \in found \cup {NoDoc} :
             /\ d = NoDoc <=> found = {} \/ Captured(id)
             /\ cache' = IF d = NoDoc THEN cache ELSE [cache EXCEPT ![SlotToTake] = d]
  BY DEF KeepDoc
<1>2. step \in {"keepModel", "keepSymbol"}
  BY DEF KeepDoc, KeepLabel, Part
<1>3. /\ \A q \in Part : wanted[q] \in reply.docs => wanted[q] \in seen
      /\ \A i \in DOMAIN page : page[i].sticker.id \in Sticker
  BY <1>2 DEF GenuineInv, KeepsWanted, StickersOwn
<1>4. id \notin Sticker
  BY IdsAssumption DEF TypeInv, TypeOK, EmojiOrNothing
<1>5. ASSUME NEW x \in found PROVE x = Genuine(id) /\ id \in reply.docs
  <2>1. x \in DocsInReply /\ x.id = id
    OBVIOUS
  <2>2. PICK y \in reply.docs : x = Genuine(y)
    BY <1>3, <1>4, <2>1 DEF DocsInReply
  <2> QED
    BY <2>1, <2>2 DEF Genuine
<1>6. id \in reply.docs => found # {}
  <2>1. id \in reply.docs => Genuine(id) \in DocsInReply /\ Genuine(id).id = id
    BY DEF DocsInReply, Genuine
  <2> QED
    BY <2>1
<1> HIDE DEF found
<1>7. CASE d = NoDoc
  BY <1>1, <1>6, <1>7
<1>8. CASE d # NoDoc
  <2>1. d \in found /\ ~Captured(id)
    BY <1>1, <1>8
  <2> QED
    BY <1>1, <1>3, <1>5, <1>8, <2>1
<1> QED
  BY <1>7, <1>8

\* With room for all that was seen nothing is ever pushed out, and what was to be
\* kept is.
LEMMA KeepKeeps ==
  ASSUME TypeInv, GenuineInv, CachedInv, RoomForAll, NEW p \in Part, KeepDoc(p)
  PROVE  /\ \A id : Captured(id) => Captured(id)'
         /\ wanted[p] \in reply.docs => Captured(wanted[p])'
<1>1. CASE cache' = cache /\ (Captured(wanted[p]) \/ wanted[p] \notin reply.docs)
  <2>1. wanted' = wanted
    BY DEF KeepDoc
  <2> QED
    BY <1>1, <2>1 DEF Captured, SlotsOf
<1>2. CASE /\ ~Captured(wanted[p]) /\ wanted[p] \in seen
           /\ cache' = [cache EXCEPT ![SlotToTake] = Genuine(wanted[p])]
  <2>1. cache[SlotToTake] = NoDoc /\ SlotToTake \in 1 .. Slots
    BY <1>2, FreeSlot, SlotToTakeType
  <2>2. cache \in [1 .. Slots -> AnyDoc]
    BY DEF TypeInv, TypeOK
  <2>3. ASSUME NEW id, Captured(id) PROVE Captured(id)'
    <3>1. PICK s \in 1 .. Slots : id # Nothing /\ cache[s].id = id
      BY <2>3 DEF Captured, SlotsOf
    <3>2. s # SlotToTake
      BY <2>1, <3>1 DEF NoDoc, Genuine
    <3>3. cache'[s] = cache[s]
      BY <1>2, <2>2, <3>2
    <3> QED
      BY <3>1, <3>3 DEF Captured, SlotsOf
  <2>4. Captured(wanted[p])'
    <3> DEFINE new == Genuine(wanted[p])
               slot == SlotToTake
    <3>1. wanted[p] # Nothing
      BY <1>2, IdsAssumption DEF TypeInv, TypeOK
    <3>2. cache'[slot].id = wanted[p]
      <4>1. new.id = wanted[p]
        BY DEF Genuine
      <4> HIDE DEF new, slot
      <4>2. slot \in 1 .. Slots /\ cache' = [cache EXCEPT ![slot] = new]
        BY <1>2, <2>1 DEF new, slot
      <4> QED
        BY <2>2, <4>1, <4>2
    <3>3. wanted' = wanted
      BY DEF KeepDoc
    <3> HIDE DEF slot
    <3>4. slot \in 1 .. Slots
      BY <2>1 DEF slot
    <3> QED
      BY <3>1, <3>2, <3>3, <3>4 DEF Captured, SlotsOf
  <2> QED
    BY <2>3, <2>4
<1> QED
  BY <1>1, <1>2, KeptDoc

LEMMA KeepCached ==
  ASSUME TypeInv, GenuineInv, CachedInv, NEW p \in Part, KeepDoc(p)
  PROVE  CachedInv'
<1>1. UNCHANGED <<reply, wanted, seen>>
  BY DEF KeepDoc
<1>2. Distinct'
  <2>1. CASE cache' = cache
    BY <2>1 DEF CachedInv, Distinct
  <2>2. CASE /\ ~Captured(wanted[p]) /\ wanted[p] \in seen
             /\ cache' = [cache EXCEPT ![SlotToTake] = Genuine(wanted[p])]
    <3> DEFINE slot == SlotToTake
               new == Genuine(wanted[p])
    <3>1. cache \in [1 .. Slots -> AnyDoc] /\ slot \in 1 .. Slots
      BY SlotToTakeType DEF TypeInv, TypeOK
    <3>2. \A s \in 1 .. Slots : cache[s].id # new.id
      BY <2>2, IdsAssumption DEF Captured, SlotsOf, Genuine, TypeInv, TypeOK
    <3>3. cache' = [cache EXCEPT ![slot] = new]
      BY <2>2
    <3> HIDE DEF slot, new
    <3>4. \A s \in 1 .. Slots : cache'[s] = IF s = slot THEN new ELSE cache[s]
      BY <3>1, <3>3
    <3> QED
      BY <3>2, <3>4 DEF CachedInv, Distinct
  <2> QED
    BY <2>1, <2>2, KeptDoc
<1>3. SeenCached'
  <2> SUFFICES ASSUME RoomForAll, NEW id \in seen
               PROVE  Captured(id)' \/ id \in Awaited' \cap reply'.docs
    BY <1>1 DEF SeenCached, RoomForAll
  <2>1. CASE Captured(id)
    BY <2>1, KeepKeeps
  <2>2. CASE id \in Awaited /\ id \in reply.docs
    <3>1. CASE id = wanted[p]
      BY <2>2, <3>1, <1>1, KeepKeeps
    <3>2. CASE id # wanted[p]
      <4>1. step = "keepModel" /\ p = "model" /\ id = wanted["symbol"]
        BY <2>2, <3>2 DEF KeepDoc, KeepLabel, Awaited, Part
      <4>2. step' = "keepSymbol"
        BY <4>1 DEF KeepDoc
      <4>3. id \in Awaited'
        BY <1>1, <4>1, <4>2 DEF Awaited
      <4> QED
        BY <1>1, <2>2, <4>3
    <3> QED
      BY <3>1, <3>2
  <2> QED
    BY <2>1, <2>2 DEF CachedInv, SeenCached
<1> QED
  BY <1>1, <1>2, <1>3 DEF CachedInv

LEMMA NextCached == TypeInv /\ GenuineInv /\ CachedInv /\ [Next]_vars => CachedInv'
<1> SUFFICES ASSUME TypeInv, GenuineInv, CachedInv, [Next]_vars PROVE CachedInv'
  OBVIOUS
<1>1. CASE Watcher
  <2>1. UNCHANGED <<cache, seen, step, wanted, reply>>
    BY <1>1 DEF Watcher, BeginReload, LoadFlag, LoadId, ClearList, FillList, UseDefaults
  <2> QED
    BY <2>1, SameCached
<1>2. CASE \/ (\E r \in Requests : SendPrepared(r)) \/ EditInPlace \/ Drop \/ AutoloadGate
           \/ AppendIds \/ KeepIds
  <2>1. Awaited = {} /\ UNCHANGED <<cache, seen>>
    BY <1>2 DEF SendPrepared, EditInPlace, Drop, AutoloadGate, AppendIds, KeepIds, Awaited
  <2> QED
    BY <2>1, SameCached
<1>3. CASE GatherUnique \/ (\E p \in Part : GatherPart(p)) \/ GatherSticker \/ GatherHidden
           \/ GatherList
  <2>1. Awaited = {} /\ UNCHANGED <<cache, seen>>
    BY <1>3 DEF GatherUnique, GatherPart, GatherSticker, GatherHidden, GatherList, Awaited,
                AskLabel, Part
  <2> QED
    BY <2>1, SameCached
<1>4. CASE (\E r \in Replies : Receive(r)) \/ \E k \in DOMAIN extended : Receive(Answer(extended[k]))
  <2>1. Awaited = {} /\ UNCHANGED <<cache, seen>>
    BY <1>4 DEF Receive, Awaited
  <2> QED
    BY <2>1, SameCached
<1>5. CASE WantModel \/ WantSymbol
  BY <1>5, WantCached
<1>6. CASE \E p \in Part : KeepDoc(p)
  BY <1>6, KeepCached
<1>7. CASE \/ SpoofGate \/ SwapStickers \/ BeginRebuild \/ StashSticker \/ PutModel \/ PutSymbol
           \/ FakeTransfer \/ WalkAgain \/ Dispatch
  <2>1. Awaited = {} /\ UNCHANGED <<cache, seen>>
    BY <1>7 DEF SpoofGate, SwapStickers, BeginRebuild, StashSticker, PutModel, PutSymbol,
                FakeTransfer, WalkAgain, Dispatch, Awaited
  <2> QED
    BY <2>1, SameCached
<1>8. CASE UNCHANGED vars
  BY <1>8, SameCached DEF vars
<1> QED
  BY <1>1, <1>2, <1>3, <1>4, <1>5, <1>6, <1>7, <1>8 DEF Next, Thread

LEMMA CachedHolds == Spec => []CachedInv
BY InitCached, NextCached, TypesHold, GenuineHolds, PTL DEF Spec

----------------------------------------------------------------------------
(* What was seen is embedded.                                              *)

\* As long as something is without a reload, the watcher has slept.
Asleep == quiet \/ steady => pc = 0

\* Gifts are only built on pages and in the replies to transfers.
BuildsPages == step \in {"stash", "putModel", "putSymbol"} => reply.kind # "docs"
DocsPlain == reply.kind = "docs" => \A i \in DOMAIN page : IsRegular(page[i])

\* With no reply at hand there is no page.
IdleEmpty == step \in Preparing \cup {"idle"} => page = <<>>

\* What a built gift should have for a chosen emoji.
ShouldHave(id, own) == IF id \in seen THEN Genuine(id) ELSE own

\* Without a reload it has that, and so has the gift being built.
BuiltRight ==
  quiet /\ RoomForAll =>
    /\ \A i \in DOMAIN page : ~IsRegular(page[i]) =>
          \A p \in Part : page[i][p] = ShouldHave(live[p], page[i].sticker)
    /\ step = "putSymbol" => blob = ShouldHave(live.model, page[n].sticker)

EmbedInv == Asleep /\ BuildsPages /\ DocsPlain /\ IdleEmpty /\ BuiltRight

LEMMA InitEmbed == Init => EmbedInv
<1> SUFFICES ASSUME Init PROVE EmbedInv
  OBVIOUS
<1>1. DOMAIN page = {}
  BY DEF Init
<1> QED
  BY <1>1 DEF Init, EmbedInv, Asleep, BuildsPages, DocsPlain, IdleEmpty, BuiltRight

\* When the capture is done, what a gift gets is what it should have.
LEMMA AttrDocRight ==
  ASSUME TypeInv, GenuineInv, CachedInv, RoomForAll, Awaited = {}, NEW id, NEW own
  PROVE  AttrDoc(id, own) = ShouldHave(id, own)
<1>1. Captured(id) <=> id \in seen
  <2>1. id \in seen => Captured(id)
    BY DEF CachedInv, SeenCached
  <2>2. ASSUME Captured(id) PROVE id \in seen
    <3>1. PICK s \in 1 .. Slots : id # Nothing /\ cache[s].id = id
      BY <2>2 DEF Captured, SlotsOf
    <3> QED
      BY <3>1 DEF GenuineInv, CacheSeen, SeenDocs, NoDoc, Genuine
  <2> QED
    BY <2>1, <2>2
<1>2. CASE Captured(id)
  <2> DEFINE slot == CHOOSE s \in SlotsOf(id) : TRUE
  <2>1. PICK s : s \in SlotsOf(id)
    BY <1>2 DEF Captured
  <2>2. slot \in SlotsOf(id)
    BY <2>1
  <2>3. AttrDoc(id, own) = cache[slot]
    BY <1>2 DEF AttrDoc
  <2> HIDE DEF slot
  <2>4. slot \in 1 .. Slots /\ cache[slot].id = id /\ id # Nothing
    BY <2>2 DEF SlotsOf
  <2>5. cache[slot] = Genuine(id)
    BY <2>4 DEF GenuineInv, CacheSeen, SeenDocs, NoDoc, Genuine
  <2> QED
    BY <1>1, <1>2, <2>3, <2>5 DEF ShouldHave
<1>3. CASE ~Captured(id)
  BY <1>1, <1>3 DEF AttrDoc, ShouldHave
<1> QED
  BY <1>2, <1>3

\* The watcher stores nothing unless it is awake, and then nothing is claimed.
LEMMA WatcherWakes ==
  ASSUME Asleep, Watcher
  PROVE  ~quiet' /\ ~steady'
<1>1. CASE \E c \in Configs : BeginReload(c)
  BY <1>1 DEF BeginReload
<1>2. CASE pc # 0 /\ UNCHANGED <<quiet, steady>>
  BY <1>2 DEF Asleep
<1> QED
  BY <1>1, <1>2 DEF Watcher, LoadFlag, LoadId, ClearList, FillList, UseDefaults, AtStore

\* A step that builds nothing and claims no more than before.
LEMMA SameEmbed ==
  ASSUME EmbedInv, UNCHANGED <<live, pc, reply, page, seen>>,
         (quiet' => quiet) \/ (page = <<>> /\ step' # "putSymbol"), quiet' \/ steady' => pc = 0,
         step' \in Preparing \cup {"idle"} => step \in Preparing \cup {"idle"},
         step' \notin {"stash", "putModel", "putSymbol"}
         \/ (step' = step /\ UNCHANGED <<n, blob>>)
  PROVE  EmbedInv'
<1>1. Asleep'
  BY DEF Asleep
<1>2. BuildsPages' /\ DocsPlain' /\ IdleEmpty'
  BY DEF EmbedInv, BuildsPages, DocsPlain, IdleEmpty, IsRegular
<1>3. BuiltRight'
  <2> SUFFICES ASSUME quiet', RoomForAll'
      PROVE /\ \A i \in DOMAIN page : ~IsRegular(page[i]) =>
                  \A p \in Part : page[i][p] = ShouldHave(live[p], page[i].sticker)
            /\ step' = "putSymbol" => blob' = ShouldHave(live.model, page[n'].sticker)
    BY DEF BuiltRight, IsRegular, ShouldHave
  <2>1. RoomForAll
    BY DEF RoomForAll
  <2>2. CASE quiet
    BY <2>1, <2>2 DEF EmbedInv, BuiltRight
  <2>3. CASE ~quiet
    <3>1. DOMAIN page = {} /\ step' # "putSymbol"
      BY <2>3
    <3> QED
      BY <3>1
  <2> QED
    BY <2>2, <2>3
<1> QED
  BY <1>1, <1>2, <1>3 DEF EmbedInv

\* While a request is handled there is no page.
LEMMA RequestEmbed ==
  ASSUME EmbedInv,
         \/ (\E r \in Requests : SendPrepared(r)) \/ EditInPlace \/ Drop
         \/ AutoloadGate \/ GatherUnique \/ (\E p \in Part : GatherPart(p)) \/ GatherSticker
         \/ GatherHidden \/ GatherList \/ AppendIds \/ KeepIds
  PROVE  EmbedInv'
<1>1. page = <<>>
  BY DEF EmbedInv, IdleEmpty, Preparing, SendPrepared, EditInPlace, Drop, AutoloadGate,
         GatherUnique, GatherPart, GatherSticker, GatherHidden, GatherList, AppendIds, KeepIds,
         AskLabel, Part
<1>2. CASE (\E r \in Requests : SendPrepared(r)) \/ AutoloadGate
  <2>0. UNCHANGED <<live, pc, reply, page, seen>>
    BY <1>2 DEF SendPrepared, AutoloadGate
  <2>1. quiet' \/ steady' => pc = 0
    <3>1. (quiet' = (pc = 0) /\ steady' = steady)
          \/ (quiet' = quiet /\ (steady' = steady \/ steady' = (pc = 0)))
      BY <1>2 DEF SendPrepared, AutoloadGate
    <3> QED
      BY <3>1 DEF EmbedInv, Asleep
  <2>2. step \in {"idle", "gate"} /\ step' \in {"gate", "edit", "unique", "idle"}
    BY <1>2 DEF SendPrepared, AutoloadGate
  <2> QED
    BY <1>1, <2>0, <2>1, <2>2, SameEmbed DEF Preparing
<1>3. CASE EditInPlace \/ Drop \/ AppendIds \/ KeepIds
  <2>1. UNCHANGED <<live, pc, reply, page, seen, quiet, steady>>
        /\ step \in {"edit", "append"} /\ step' = "idle"
    BY <1>3 DEF EditInPlace, Drop, AppendIds, KeepIds
  <2> QED
    BY <2>1, SameEmbed DEF Preparing, EmbedInv, Asleep
<1>4. CASE GatherUnique \/ (\E p \in Part : GatherPart(p)) \/ GatherSticker \/ GatherHidden
           \/ GatherList
  <2>1. UNCHANGED <<live, pc, reply, page, seen, quiet, steady>>
        /\ step \in Preparing /\ step' \in Preparing
    BY <1>4 DEF GatherUnique, GatherPart, GatherSticker, GatherHidden, GatherList, AskLabel, Part,
                Preparing
  <2> QED
    BY <2>1, SameEmbed DEF Preparing, EmbedInv, Asleep
<1> QED
  BY <1>2, <1>3, <1>4

\* A page arrives with nothing built.
LEMMA ReceiveEmbed ==
  ASSUME EmbedInv, NEW r, Receive(r)
  PROVE  EmbedInv'
<1>1. \A i \in DOMAIN page' : IsRegular(page'[i])
  <2>1. \A i \in DOMAIN r.stickers : IsRegular(RegularGift(Genuine(r.stickers[i])))
    BY DEF RegularGift, IsRegular
  <2>2. page' = [i \in DOMAIN r.stickers |-> RegularGift(Genuine(r.stickers[i]))]
    BY DEF Receive
  <2> QED
    BY <2>1, <2>2
<1>2. step' = "spoof" /\ pc' = pc /\ (quiet' => pc = 0) /\ steady' = steady
  BY DEF Receive
<1> QED
  BY <1>1, <1>2 DEF EmbedInv, Asleep, BuildsPages, DocsPlain, IdleEmpty, BuiltRight, Preparing, IsRegular

\* Built gifts keep their stickers.
LEMMA SwapEmbed ==
  ASSUME TypeInv, GenuineInv, EmbedInv, SwapStickers
  PROVE  EmbedInv'
<1>1. reply.kind = "page" /\ reply' = reply /\ step' = "want" /\ UNCHANGED <<live, pc, seen, quiet, steady>>
  BY DEF SwapStickers, GenuineInv, SwapsPages
<1>2. DOMAIN page' = DOMAIN page
  BY DEF SwapStickers
<1>3. ASSUME NEW i \in DOMAIN page, ~IsRegular(page'[i])
      PROVE  page'[i] = page[i] /\ ~IsRegular(page[i])
  <2> DEFINE doc == [id |-> live.sticker, hash |-> page[i].sticker.hash]
  <2>1. page'[i] = page[i] \/ (page'[i] = [page[i] EXCEPT !.sticker = doc] /\ IsRegular(page[i]))
    BY DEF SwapStickers
  <2> HIDE DEF doc
  <2>2. [page[i] EXCEPT !.sticker = doc].model = page[i].model
    BY PageParts DEF Gift
  <2> QED
    BY <1>3, <2>1, <2>2 DEF IsRegular
<1>4. BuiltRight'
  <2> SUFFICES ASSUME quiet, RoomForAll, NEW i \in DOMAIN page, ~IsRegular(page'[i]), NEW p \in Part
               PROVE  page'[i][p] = ShouldHave(live[p], page'[i].sticker)
    BY <1>1, <1>2 DEF BuiltRight, RoomForAll, IsRegular, ShouldHave
  <2>1. page'[i] = page[i] /\ ~IsRegular(page[i])
    BY <1>3
  <2> QED
    BY <2>1 DEF EmbedInv, BuiltRight
<1> QED
  BY <1>1, <1>4 DEF EmbedInv, Asleep, BuildsPages, DocsPlain, IdleEmpty, Preparing

\* What comes to be seen is seen in a reply without built gifts.
LEMMA WantEmbed ==
  ASSUME CachedInv, EmbedInv, WantModel \/ WantSymbol
  PROVE  EmbedInv'
<1>1. IsFiniteSet(seen') /\ seen \subseteq seen'
  BY SeenGrows DEF CachedInv
<1>2. UNCHANGED <<live, pc, reply, page, n, blob, quiet, steady>>
      /\ step' \in {"wantSymbol", "rebuild", "keepModel"}
  BY DEF WantModel, WantSymbol
<1>3. seen' = seen \/ reply.kind = "docs"
  BY DEF WantModel, WantSymbol
<1>4. BuiltRight'
  <2> SUFFICES ASSUME quiet, RoomForAll', NEW i \in DOMAIN page, ~IsRegular(page[i]), NEW p \in Part
               PROVE  page[i][p] = IF live[p] \in seen' THEN Genuine(live[p]) ELSE page[i].sticker
    BY <1>2 DEF BuiltRight, IsRegular, ShouldHave
  <2>1. RoomForAll
    BY <1>1, RoomShrinks DEF CachedInv
  <2>2. seen' = seen
    BY <1>3 DEF EmbedInv, DocsPlain
  <2> QED
    BY <2>1, <2>2 DEF EmbedInv, BuiltRight, ShouldHave
<1> QED
  BY <1>2, <1>4 DEF EmbedInv, Asleep, BuildsPages, DocsPlain, IdleEmpty, Preparing, IsRegular

LEMMA PutModelEmbed ==
  ASSUME TypeInv, GenuineInv, CachedInv, EmbedInv, PutModel
  PROVE  EmbedInv'
<1>1. UNCHANGED <<live, pc, reply, page, n, seen, quiet, steady>> /\ step = "putModel" /\ step' = "putSymbol"
  BY DEF PutModel
<1>2. RoomForAll => blob' = ShouldHave(live.model, page[n].sticker)
  BY <1>1, AttrDocRight DEF PutModel, Awaited
<1>3. BuiltRight'
  <2> SUFFICES ASSUME quiet, RoomForAll
      PROVE /\ \A i \in DOMAIN page : ~IsRegular(page[i]) =>
                  \A p \in Part : page[i][p] = ShouldHave(live[p], page[i].sticker)
            /\ blob' = ShouldHave(live.model, page[n].sticker)
    BY <1>1 DEF BuiltRight, IsRegular, ShouldHave, RoomForAll
  <2> QED
    BY <1>2 DEF EmbedInv, BuiltRight
<1> QED
  BY <1>1, <1>3 DEF EmbedInv, Asleep, BuildsPages, DocsPlain, IdleEmpty, Preparing, IsRegular

LEMMA PutSymbolEmbed ==
  ASSUME TypeInv, GenuineInv, CachedInv, EmbedInv, PutSymbol
  PROVE  EmbedInv'
<1> DEFINE symbol == AttrDoc(live.symbol, page[n].sticker)
           gift == [sticker |-> page[n].sticker, model |-> blob, symbol |-> symbol]
<1>1. n \in DOMAIN page
  BY DEF PutSymbol, TypeInv, AtGift
<1>2. RoomForAll => symbol = ShouldHave(live.symbol, page[n].sticker)
  BY AttrDocRight DEF PutSymbol, Awaited
<1>3. page' = [page EXCEPT ![n] = gift] \/ page' = page
  BY <1>1 DEF PutSymbol
<1>4. gift.sticker = page[n].sticker /\ gift["model"] = blob /\ gift["symbol"] = symbol
  OBVIOUS
<1>5. /\ UNCHANGED <<live, pc, reply, seen, quiet, steady>>
      /\ step = "putSymbol" /\ step' \in {"putModel", "transfer"}
  BY DEF PutSymbol
<1>6. reply.kind # "docs"
  BY <1>5 DEF EmbedInv, BuildsPages
<1> HIDE DEF gift, symbol
<1>7. DOMAIN page' = DOMAIN page /\ \A i \in DOMAIN page : page'[i] = page[i] \/ (i = n /\ page'[i] = gift)
  BY <1>1, <1>3, PageParts
<1>8. BuiltRight'
  <2> SUFFICES ASSUME quiet, RoomForAll, NEW i \in DOMAIN page, ~IsRegular(page'[i]), NEW p \in Part
               PROVE  page'[i][p] = ShouldHave(live[p], page'[i].sticker)
    BY <1>5, <1>7 DEF BuiltRight, IsRegular, ShouldHave, RoomForAll
  <2>1. CASE page'[i] = page[i]
    BY <2>1 DEF EmbedInv, BuiltRight, IsRegular
  <2>2. CASE i = n /\ page'[i] = gift
    <3>1. blob = ShouldHave(live["model"], page[n].sticker)
      BY <1>5 DEF EmbedInv, BuiltRight
    <3>2. symbol = ShouldHave(live["symbol"], page[n].sticker)
      BY <1>2
    <3> QED
      BY <1>4, <2>2, <3>1, <3>2 DEF Part
  <2> QED
    BY <1>7, <2>1, <2>2
<1> QED
  BY <1>5, <1>6, <1>8 DEF EmbedInv, Asleep, BuildsPages, DocsPlain, IdleEmpty, Preparing

\* A faked transfer's gift is not built yet.
LEMMA TransferEmbed ==
  ASSUME EmbedInv, FakeTransfer
  PROVE  EmbedInv'
<1>1. CASE page' = <<RegularGift(stash)>> /\ reply.kind = "transfer" /\ step' = "putModel"
  <2>1. \A i \in DOMAIN <<RegularGift(stash)>> : IsRegular(<<RegularGift(stash)>>[i])
    BY DEF RegularGift, IsRegular
  <2>2. \A i \in DOMAIN page' : IsRegular(page'[i])
    BY <1>1, <2>1
  <2>3. UNCHANGED <<live, pc, reply, quiet, steady>>
    BY DEF FakeTransfer
  <2> QED
    BY <1>1, <2>2, <2>3 DEF EmbedInv, Asleep, BuildsPages, DocsPlain, IdleEmpty, BuiltRight,
                            Preparing, IsRegular
<1>2. CASE page' = page /\ step' = "done"
  <2>1. UNCHANGED <<live, pc, reply, page, seen, quiet, steady>>
    BY <1>2 DEF FakeTransfer
  <2> QED
    BY <1>2, <2>1, SameEmbed DEF Preparing, EmbedInv, Asleep
<1> QED
  BY <1>1, <1>2 DEF FakeTransfer

LEMMA NextEmbed == TypeInv /\ GenuineInv /\ CachedInv /\ EmbedInv /\ [Next]_vars => EmbedInv'
<1> SUFFICES ASSUME TypeInv, GenuineInv, CachedInv, EmbedInv, [Next]_vars PROVE EmbedInv'
  OBVIOUS
<1>1. CASE Watcher
  <2>1. ~quiet' /\ ~steady'
    BY <1>1, WatcherWakes DEF EmbedInv
  <2>2. UNCHANGED <<reply, page, step>>
    BY <1>1 DEF Watcher, BeginReload, LoadFlag, LoadId, ClearList, FillList, UseDefaults
  <2> QED
    BY <2>1, <2>2 DEF EmbedInv, Asleep, BuildsPages, DocsPlain, IdleEmpty, BuiltRight, IsRegular
<1>2. CASE \/ (\E r \in Requests : SendPrepared(r)) \/ EditInPlace \/ Drop
           \/ AutoloadGate \/ GatherUnique \/ (\E p \in Part : GatherPart(p)) \/ GatherSticker
           \/ GatherHidden \/ GatherList \/ AppendIds \/ KeepIds
  BY <1>2, RequestEmbed
<1>3. CASE (\E r \in Replies : Receive(r)) \/ \E k \in DOMAIN extended : Receive(Answer(extended[k]))
  BY <1>3, ReceiveEmbed
<1>4. CASE SpoofGate \/ (\E p \in Part : KeepDoc(p)) \/ WalkAgain
  <2>1. UNCHANGED <<live, pc, reply, page, seen, quiet, steady>>
        /\ step' \in {"swap", "want", "keepSymbol", "rebuild", "spoof"}
    BY <1>4 DEF SpoofGate, KeepDoc, WalkAgain
  <2> QED
    BY <2>1, SameEmbed DEF Preparing, EmbedInv, Asleep
<1>5. CASE SwapStickers \/ WantModel \/ WantSymbol
  BY <1>5, SwapEmbed, WantEmbed
<1>6. CASE BeginRebuild \/ StashSticker
  <2>1. UNCHANGED <<live, pc, reply, page, seen, quiet, steady>>
        /\ step' \in {"stash", "transfer", "putModel"}
    BY <1>6 DEF BeginRebuild, StashSticker
  <2>2. step' \in {"stash", "putModel"} => reply.kind # "docs"
    BY <1>6 DEF BeginRebuild, StashSticker, EmbedInv, BuildsPages
  <2> QED
    BY <2>1, <2>2 DEF EmbedInv, Asleep, BuildsPages, DocsPlain, IdleEmpty, BuiltRight, Preparing,
                      IsRegular, ShouldHave, RoomForAll
<1>7. CASE PutModel \/ PutSymbol \/ FakeTransfer
  BY <1>7, PutModelEmbed, PutSymbolEmbed, TransferEmbed
<1>8. CASE Dispatch
  <2>1. page' = <<>> /\ reply' = NoReply /\ step' = "idle" /\ UNCHANGED <<pc, quiet, steady>>
    BY <1>8 DEF Dispatch
  <2>2. DOMAIN page' = {}
    BY <2>1
  <2> QED
    BY <2>1, <2>2 DEF EmbedInv, Asleep, BuildsPages, DocsPlain, IdleEmpty, BuiltRight
<1>9. CASE UNCHANGED vars
  BY <1>9, SameEmbed DEF vars, EmbedInv, Asleep
<1> QED
  BY <1>1, <1>2, <1>3, <1>4, <1>5, <1>6, <1>7, <1>8, <1>9 DEF Next, Thread

LEMMA EmbedHolds == Spec => []EmbedInv
BY InitEmbed, NextEmbed, TypesHold, GenuineHolds, CachedHolds, PTL DEF Spec

\* In a page or message that was handled with no reload every built gift has the
\* documents of the chosen emoji if a reply ever carried them while they were
\* chosen, and its own sticker otherwise, as long as the cache has room for all.
THEOREM SeenIsEmbedded_Always == Spec => []SeenIsEmbedded
<1>1. EmbedInv => SeenIsEmbedded
  BY DEF EmbedInv, BuiltRight, SeenIsEmbedded, ShouldHave
<1> QED
  BY <1>1, EmbedHolds, PTL

----------------------------------------------------------------------------
(* The append makes the chosen documents seen, and so cached.              *)

\* The members of a sequence, and whether both chosen emoji are in a set.
IdsIn(seq) == {seq[k] : k \in DOMAIN seq}
ChosenIn(S) == \A p \in Part : live[p] # Nothing => live[p] \in S

\* The steps at which both chosen ids have been gathered, and those at which the
\* capture has read what is wanted.
BothGathered == {"askSticker", "hidden", "list", "append"}
BothWanted == {"keepModel", "keepSymbol", "rebuild", "stash", "putModel", "putSymbol",
               "transfer", "done"}

\* Where the chosen ids are on their way from the gathering to the cache, as long as
\* nothing was reloaded since the gathering began.
Underway ==
  steady /\ On("unique") =>
    /\ step = "askSymbol" /\ live.model # Nothing => live.model \in IdsIn(ids)
    /\ step \in BothGathered => ChosenIn(IdsIn(ids))
    /\ done => ChosenIn(IdsIn(extended[1]))
    /\ done /\ reply = Answer(extended[1]) =>
         /\ step = "wantSymbol" => wanted["model"] = live.model
         /\ step \in BothWanted => ChosenIn(seen)
    /\ answered => ChosenIn(seen)

AutoloadInv == (answered => done) /\ Underway

LEMMA InitAutoload == Init => AutoloadInv
BY DEF Init, AutoloadInv, Underway

\* A step at which nothing is gathered, sent, received or answered.
LEMMA SameAutoload ==
  ASSUME AutoloadInv, UNCHANGED <<live, done, extended, reply, answered>>,
         steady' => steady, seen \subseteq seen',
         \/ step' \notin {"askSymbol", "wantSymbol"} \cup BothGathered \cup BothWanted
         \/ step' \in BothWanted /\ step \in BothWanted
         \/ UNCHANGED <<step, ids, wanted>>
  PROVE  AutoloadInv'
<1>1. SUFFICES ASSUME steady, On("unique") PROVE Underway'
  BY DEF AutoloadInv, Underway, On
<1>2. ChosenIn(seen) => ChosenIn(seen)'
  BY DEF ChosenIn
<1>3. /\ done => ChosenIn(IdsIn(extended[1]))'
      /\ answered' => ChosenIn(seen)'
  BY <1>1, <1>2 DEF AutoloadInv, Underway, ChosenIn, IdsIn
<1>4. CASE step' \notin {"askSymbol", "wantSymbol"} \cup BothGathered \cup BothWanted
  BY <1>3, <1>4 DEF Underway
<1>5. CASE step' \in BothWanted /\ step \in BothWanted
  <2>1. step' \notin {"askSymbol", "wantSymbol"} \cup BothGathered
    BY <1>5 DEF BothWanted, BothGathered
  <2>2. done /\ reply = Answer(extended[1]) => ChosenIn(seen)'
    BY <1>1, <1>2, <1>5 DEF AutoloadInv, Underway
  <2>3. Answer(extended[1])' = Answer(extended[1])
    BY DEF Answer
  <2> QED
    BY <1>3, <2>1, <2>2, <2>3 DEF Underway
<1>6. CASE UNCHANGED <<step, ids, wanted>>
  <2>1. Answer(extended[1])' = Answer(extended[1])
    BY DEF Answer
  <2>2. ChosenIn(IdsIn(ids))' <=> ChosenIn(IdsIn(ids))
    BY <1>6 DEF ChosenIn, IdsIn
  <2>3. IdsIn(ids)' = IdsIn(ids)
    BY <1>6 DEF IdsIn
  <2> QED
    BY <1>1, <1>2, <1>3, <1>6, <2>1, <2>2, <2>3 DEF AutoloadInv, Underway
<1> QED
  BY <1>4, <1>5, <1>6

\* An id that is gathered is there, and so are those gathered before.
LEMMA GatheredIds ==
  ASSUME TypeInv, NEW id
  PROVE  IdsIn(ids) \subseteq IdsIn(Append(ids, id)) /\ id \in IdsIn(Append(ids, id))
<1> DEFINE more == Append(ids, id)
<1>1. /\ DOMAIN more = 1 .. Len(ids) + 1 /\ DOMAIN ids = 1 .. Len(ids) /\ Len(ids) \in Nat
      /\ \A k \in DOMAIN ids : more[k] = ids[k]
      /\ more[Len(ids) + 1] = id
  BY DEF TypeInv, TypeOK
<1> HIDE DEF more
<1>2. \A k \in DOMAIN ids : k \in DOMAIN more /\ more[k] = ids[k]
  BY <1>1
<1>3. Len(ids) + 1 \in DOMAIN more
  BY <1>1
<1> QED
  BY <1>1, <1>2, <1>3 DEF IdsIn, more

\* While ids are gathered none have gone out.
LEMMA GatherAutoload ==
  ASSUME TypeInv, SentInv, AutoloadInv,
         GatherUnique \/ (\E p \in Part : GatherPart(p)) \/ GatherSticker \/ GatherHidden
         \/ GatherList
  PROVE  AutoloadInv'
<1>1. /\ UNCHANGED <<live, done, extended, reply, answered, seen, steady, wanted>>
      /\ step \in Preparing \ {"edit", "gate"}
      /\ step' \in {"askModel", "askSymbol"} \cup BothGathered
  BY DEF GatherUnique, GatherPart, GatherSticker, GatherHidden, GatherList, AskLabel, Part,
         Preparing, BothGathered
<1>2. ~done /\ ~answered
  BY <1>1 DEF SentInv, AutoloadInv
<1>3. SUFFICES ASSUME steady, On("unique")
               PROVE  /\ step' = "askSymbol" /\ live.model # Nothing => live.model \in IdsIn(ids')
                      /\ step' \in BothGathered => ChosenIn(IdsIn(ids'))
  <2>1. step' \notin {"wantSymbol"} \cup BothWanted
    BY <1>1 DEF BothGathered, BothWanted
  <2> QED
    BY <1>1, <1>2, <1>3, <2>1 DEF AutoloadInv, Underway, ChosenIn, IdsIn, On
<1>4. CASE GatherUnique
  BY <1>3, <1>4 DEF GatherUnique, BothGathered
<1>5. CASE GatherPart("model")
  <2>1. step' = "askSymbol" /\ ids' = Gathered(live.model)
    BY <1>5 DEF GatherPart
  <2>2. step' \notin BothGathered
    BY <2>1 DEF BothGathered
  <2> QED
    BY <2>1, <2>2, GatheredIds DEF Gathered
<1>6. CASE GatherPart("symbol")
  <2>1. step = "askSymbol" /\ step' = "askSticker" /\ ids' = Gathered(live.symbol)
    BY <1>6 DEF GatherPart, AskLabel
  <2>2. live.model # Nothing => live.model \in IdsIn(ids)
    BY <1>3, <2>1 DEF AutoloadInv, Underway
  <2>3. live.model # Nothing => live.model \in IdsIn(ids')
    BY <2>1, <2>2, GatheredIds DEF Gathered
  <2>4. live.symbol # Nothing => live.symbol \in IdsIn(ids')
    BY <2>1, GatheredIds DEF Gathered
  <2>5. ChosenIn(IdsIn(ids'))
    BY <2>3, <2>4 DEF ChosenIn, Part
  <2> QED
    BY <2>1, <2>5
<1>7. CASE GatherSticker \/ GatherHidden \/ GatherList
  <2>1. step \in BothGathered /\ step' \in BothGathered
    BY <1>7 DEF GatherSticker, GatherHidden, GatherList, BothGathered
  <2>2. ChosenIn(IdsIn(ids))
    BY <1>3, <2>1 DEF AutoloadInv, Underway
  <2>3. ids' = ids \/ \E id : ids' = Append(ids, id)
    BY <1>7 DEF GatherSticker, GatherHidden, GatherList, Gathered
  <2>4. IdsIn(ids) \subseteq IdsIn(ids')
    BY <2>3, GatheredIds
  <2>5. ChosenIn(IdsIn(ids'))
    BY <2>2, <2>4 DEF ChosenIn
  <2> QED
    BY <2>1, <2>5 DEF BothGathered
<1> QED
  BY <1>4, <1>5, <1>6, <1>7 DEF Part

\* What was gathered goes out.
LEMMA AppendAutoload ==
  ASSUME TypeInv, SentInv, AutoloadInv, AppendIds
  PROVE  AutoloadInv'
<1> DEFINE all == body.ids \o ids
           m == body.count + Len(ids)
<1>1. /\ body.ids \in Seq(Emoji) /\ body.count = Len(body.ids) /\ ids \in Seq(Emoji)
      /\ extended \in Seq(Seq(Emoji))
  BY DEF TypeInv, TypeOK, Counted
<1>2. ~done /\ ~answered /\ Len(extended) = 0
  BY DEF SentInv, AppendIds, Preparing, AutoloadInv
<1>3. all \in Seq(Emoji) /\ Len(all) = m
  BY <1>1, ConcatProperties
<1>4. IdsIn(ids) \subseteq IdsIn(all)
  <2>1. \A k \in DOMAIN ids : Len(body.ids) + k \in DOMAIN all /\ all[Len(body.ids) + k] = ids[k]
    BY <1>1
  <2> HIDE DEF all
  <2> QED
    BY <2>1 DEF IdsIn
<1>5. Extended.ids = all /\ Extended.count = m
  BY ExtendedParts
<1> HIDE DEF all, m
<1>6. extended'[1] = all
  <2>1. SubSeq(all, 1, m) = all
    BY <1>3
  <2>2. extended' = Append(extended, all)
    BY <1>5, <2>1 DEF AppendIds
  <2> QED
    BY <1>1, <1>2, <2>2
<1>7. /\ UNCHANGED <<live, seen, steady, answered>> /\ step = "append" /\ step' = "idle"
  BY DEF AppendIds
<1>8. steady /\ On("unique") => ChosenIn(IdsIn(all))
  <2>1. steady /\ On("unique") => ChosenIn(IdsIn(ids))
    BY <1>7 DEF AutoloadInv, Underway, BothGathered
  <2> QED
    BY <1>4, <2>1 DEF ChosenIn
<1>9. steady' /\ On("unique")' => ChosenIn(IdsIn(extended[1]))'
  BY <1>6, <1>7, <1>8 DEF ChosenIn, On, IdsIn
<1> QED
  BY <1>2, <1>7, <1>9 DEF AutoloadInv, Underway, BothGathered, BothWanted

\* In the reply to what was sent both chosen documents are there and wanted.
LEMMA WantAutoload ==
  ASSUME TypeInv, SentInv, CachedInv, AutoloadInv, WantModel \/ WantSymbol
  PROVE  AutoloadInv'
<1>1. UNCHANGED <<live, done, extended, reply, answered, steady, ids>>
  BY DEF WantModel, WantSymbol
<1>2. seen \subseteq seen'
  BY SeenGrows DEF CachedInv
<1>3. SUFFICES ASSUME steady, On("unique"), done, reply = Answer(extended[1])
               PROVE  /\ step' = "wantSymbol" => wanted'["model"] = live.model
                      /\ step' \in BothWanted => ChosenIn(seen')
  <2>1. step' \notin {"askSymbol"} \cup BothGathered
    BY DEF WantModel, WantSymbol, BothGathered
  <2>2. ChosenIn(seen) => ChosenIn(seen)'
    BY <1>1, <1>2 DEF ChosenIn
  <2>3. Answer(extended[1])' = Answer(extended[1]) /\ IdsIn(extended[1])' = IdsIn(extended[1])
    BY <1>1 DEF Answer, IdsIn
  <2>4. steady /\ On("unique") =>
          (done => ChosenIn(IdsIn(extended[1]))') /\ (answered => ChosenIn(seen)')
    BY <1>1, <2>2, <2>3 DEF AutoloadInv, Underway, ChosenIn
  <2>5. On("unique")' <=> On("unique")
    BY <1>1 DEF On
  <2>6. ChosenIn(seen)' <=> ChosenIn(seen')
    BY <1>1 DEF ChosenIn
  <2> QED
    BY <1>1, <1>3, <2>1, <2>3, <2>4, <2>5, <2>6 DEF AutoloadInv, Underway
<1>4. wanted \in [Part -> EmojiOrNothing]
  BY DEF TypeInv, TypeOK
<1>5. CASE WantModel
  <2>1. step' = "wantSymbol" /\ wanted' = [wanted EXCEPT !["model"] = live.model]
    BY <1>3, <1>5 DEF WantModel
  <2>2. wanted'["model"] = live.model
    BY <1>4, <2>1 DEF Part
  <2> QED
    BY <2>1, <2>2 DEF BothWanted
<1>6. CASE WantSymbol
  <2>1. wanted["model"] = live.model
    BY <1>3, <1>6 DEF WantSymbol, AutoloadInv, Underway
  <2>2. wanted' = [wanted EXCEPT !["symbol"] = live.symbol]
    BY <1>6 DEF WantSymbol
  <2>3. wanted'["model"] = live.model /\ wanted'["symbol"] = live.symbol
    BY <1>4, <2>1, <2>2 DEF Part
  <2>4. reply.kind = "docs" /\ reply.docs = IdsIn(extended[1])
    BY <1>3 DEF Answer, IdsIn
  <2>5. ChosenIn(reply.docs)
    BY <1>3, <2>4 DEF AutoloadInv, Underway
  <2>6. seen' = seen \cup ({wanted'[p] : p \in Part} \cap reply.docs)
    BY <1>6, <2>4 DEF WantSymbol
  <2>7. ChosenIn(seen')
    BY <2>3, <2>5, <2>6 DEF ChosenIn, Part
  <2>8. step' # "wantSymbol"
    BY <1>6 DEF WantSymbol
  <2> QED
    BY <2>7, <2>8
<1> QED
  BY <1>5, <1>6

LEMMA DispatchAutoload ==
  ASSUME SentInv, AutoloadInv, Dispatch
  PROVE  AutoloadInv'
<1>1. /\ UNCHANGED <<live, done, extended, seen, steady, ids>> /\ step = "done" /\ step' = "idle"
      /\ answered' = (answered \/ \E k \in DOMAIN extended : reply = Answer(extended[k]))
  BY DEF Dispatch
<1>2. ASSUME answered', ~answered PROVE done /\ reply = Answer(extended[1])
  <2>1. PICK k \in DOMAIN extended : reply = Answer(extended[k])
    BY <1>1, <1>2
  <2>2. done /\ Len(extended) = 1
    BY <2>1 DEF SentInv
  <2> QED
    BY <2>1, <2>2
<1>3. answered' => done'
  BY <1>1, <1>2 DEF AutoloadInv
<1>4. steady /\ On("unique") =>
        (done => ChosenIn(IdsIn(extended[1]))) /\ (answered' => ChosenIn(seen))
  BY <1>1, <1>2 DEF AutoloadInv, Underway, BothWanted
<1>5. steady' /\ On("unique")' =>
        (done' => ChosenIn(IdsIn(extended[1]))') /\ (answered' => ChosenIn(seen)')
  BY <1>1, <1>4 DEF ChosenIn, IdsIn, On
<1> QED
  BY <1>1, <1>3, <1>5 DEF AutoloadInv, Underway, BothGathered, BothWanted

LEMMA NextAutoload ==
  TypeInv /\ SentInv /\ CachedInv /\ Asleep /\ AutoloadInv /\ [Next]_vars => AutoloadInv'
<1> SUFFICES ASSUME TypeInv, SentInv, CachedInv, Asleep, AutoloadInv, [Next]_vars
             PROVE  AutoloadInv'
  OBVIOUS
<1>1. CASE Watcher
  <2>1. ~steady' /\ UNCHANGED <<answered, done>>
    <3>1. UNCHANGED <<answered, done>>
      BY <1>1 DEF Watcher, BeginReload, LoadFlag, LoadId, ClearList, FillList, UseDefaults
    <3> QED
      BY <1>1, <3>1, WatcherWakes
  <2> QED
    BY <2>1 DEF AutoloadInv, Underway
<1>2. CASE (\E r \in Requests : SendPrepared(r)) \/ EditInPlace \/ Drop \/ KeepIds
  <2>1. UNCHANGED <<live, done, extended, reply, answered, seen, steady>>
        /\ step' \in {"gate", "edit", "idle"}
    BY <1>2 DEF SendPrepared, EditInPlace, Drop, KeepIds
  <2> QED
    BY <2>1, SameAutoload DEF BothGathered, BothWanted
<1>3. CASE AutoloadGate
  <2>1. UNCHANGED <<live, done, extended, reply, answered, seen>>
        /\ step' \in {"unique", "idle"}
    BY <1>3 DEF AutoloadGate
  <2>2. CASE ~done
    BY <2>1, <2>2 DEF AutoloadInv, Underway, BothGathered, BothWanted
  <2>3. CASE steady' = steady
    BY <2>1, <2>3, SameAutoload DEF BothGathered, BothWanted
  <2> QED
    BY <1>3, <2>2, <2>3 DEF AutoloadGate
<1>4. CASE GatherUnique \/ (\E p \in Part : GatherPart(p)) \/ GatherSticker \/ GatherHidden
           \/ GatherList
  BY <1>4, GatherAutoload
<1>5. CASE AppendIds
  BY <1>5, AppendAutoload
<1>6. CASE (\E r \in Replies : Receive(r)) \/ \E k \in DOMAIN extended : Receive(Answer(extended[k]))
  <2>1. UNCHANGED <<live, done, extended, answered, seen, steady>> /\ step' = "spoof"
    BY <1>6 DEF Receive
  <2>2. IdsIn(extended[1])' = IdsIn(extended[1])
    BY <2>1 DEF IdsIn
  <2> QED
    BY <2>1, <2>2 DEF AutoloadInv, Underway, ChosenIn, On, BothGathered, BothWanted
<1>7. CASE SpoofGate \/ SwapStickers \/ WalkAgain
  <2>1. UNCHANGED <<live, done, extended, reply, answered, seen, steady>>
        /\ step' \in {"swap", "want", "spoof"}
    BY <1>7 DEF SpoofGate, SwapStickers, WalkAgain
  <2> QED
    BY <2>1, SameAutoload DEF BothGathered, BothWanted
<1>8. CASE WantModel \/ WantSymbol
  BY <1>8, WantAutoload
<1>9. CASE (\E p \in Part : KeepDoc(p)) \/ BeginRebuild \/ StashSticker \/ PutModel
           \/ PutSymbol \/ FakeTransfer
  <2>1. UNCHANGED <<live, done, extended, reply, answered, seen, steady>>
    BY <1>9 DEF KeepDoc, BeginRebuild, StashSticker, PutModel, PutSymbol, FakeTransfer
  <2>2. step \in BothWanted /\ step' \in BothWanted
    BY <1>9 DEF KeepDoc, BeginRebuild, StashSticker, PutModel, PutSymbol, FakeTransfer,
                KeepLabel, Part, BothWanted
  <2> QED
    BY <2>1, <2>2, SameAutoload
<1>10. CASE Dispatch
  BY <1>10, DispatchAutoload
<1>11. CASE UNCHANGED vars
  BY <1>11, SameAutoload DEF vars
<1> QED
  BY <1>1, <1>2, <1>3, <1>4, <1>5, <1>6, <1>7, <1>8, <1>9, <1>10, <1>11 DEF Next, Thread

LEMMA AutoloadHolds == Spec => []AutoloadInv
<1>1. Spec => []SentInv
  BY InitSent, NextSent, TypesHold, PTL DEF Spec
<1>2. EmbedInv => Asleep
  BY DEF EmbedInv
<1> QED
  BY <1>1, <1>2, InitAutoload, NextAutoload, TypesHold, CachedHolds, EmbedHolds, PTL DEF Spec

\* What is cached stays cached, and what was seen is cached when a reply has been
\* handled.
LEMMA NextCaches ==
  /\ TypeInv /\ GenuineInv /\ CachedInv /\ Asleep /\ AutoloadInv /\ AutoloadCaches
  /\ AutoloadInv' /\ CachedInv'
  /\ [Next]_vars
  => AutoloadCaches'
<1> SUFFICES ASSUME TypeInv, GenuineInv, CachedInv, Asleep, AutoloadInv, AutoloadCaches,
                    AutoloadInv', CachedInv', [Next]_vars,
                    answered', steady', RoomForAll', On("unique")',
                    NEW p \in Part, live'[p] # Nothing
             PROVE  Captured(live[p])'
  BY DEF AutoloadCaches
<1>1. CASE Watcher
  BY <1>1, WatcherWakes
<1>2. CASE Dispatch
  <2>1. live'[p] \in seen'
    BY DEF AutoloadInv, Underway, ChosenIn
  <2>2. Awaited' = {}
    BY <1>2 DEF Dispatch, Awaited
  <2> QED
    BY <2>1, <2>2 DEF CachedInv, SeenCached
<1>3. CASE ~Watcher /\ ~Dispatch
  <2>1. UNCHANGED <<live, answered>>
    BY <1>3 DEF Next, Thread, SendPrepared, EditInPlace, Drop, AutoloadGate, GatherUnique,
                GatherPart, GatherSticker, GatherHidden, GatherList, AppendIds, KeepIds, Receive,
                SpoofGate, SwapStickers, WantModel, WantSymbol, KeepDoc, BeginRebuild,
                StashSticker, PutModel, PutSymbol, FakeTransfer, WalkAgain, vars
  <2>2. steady
    <3>1. CASE AutoloadGate
      BY <2>1, <3>1 DEF AutoloadGate, AutoloadInv
    <3>2. CASE steady' = steady
      BY <3>2
    <3>3. AutoloadGate \/ steady' = steady
      BY <1>3 DEF Next, Thread, SendPrepared, EditInPlace, Drop, GatherUnique,
                  GatherPart, GatherSticker, GatherHidden, GatherList, AppendIds, KeepIds, Receive,
                  SpoofGate, SwapStickers, WantModel, WantSymbol, KeepDoc, BeginRebuild,
                  StashSticker, PutModel, PutSymbol, FakeTransfer, WalkAgain, vars
    <3> QED
      BY <3>1, <3>2, <3>3
  <2>3. seen \subseteq seen'
    <3>1. CASE WantModel \/ WantSymbol
      BY <3>1, SeenGrows DEF CachedInv
    <3>2. CASE ~WantModel /\ ~WantSymbol
      BY <1>3, <3>2 DEF Next, Thread, SendPrepared, EditInPlace, Drop, AutoloadGate,
                GatherUnique, GatherPart, GatherSticker, GatherHidden, GatherList, AppendIds,
                KeepIds, Receive, SpoofGate, SwapStickers, KeepDoc, BeginRebuild,
                StashSticker, PutModel, PutSymbol, FakeTransfer, WalkAgain, vars
    <3> QED
      BY <3>1, <3>2
  <2>4. RoomForAll
    BY <2>3, RoomShrinks DEF CachedInv
  <2>5. Captured(live[p])
    BY <2>1, <2>2, <2>4 DEF AutoloadCaches, On
  <2>6. CASE \E q \in Part : KeepDoc(q)
    BY <2>1, <2>4, <2>5, <2>6, KeepKeeps
  <2>7. CASE UNCHANGED cache
    BY <2>1, <2>5, <2>7 DEF Captured, SlotsOf
  <2>8. (\E q \in Part : KeepDoc(q)) \/ UNCHANGED cache
    BY <1>3 DEF Next, Thread, SendPrepared, EditInPlace, Drop, AutoloadGate, GatherUnique,
                GatherPart, GatherSticker, GatherHidden, GatherList, AppendIds, KeepIds, Receive,
                SpoofGate, SwapStickers, WantModel, WantSymbol, BeginRebuild,
                StashSticker, PutModel, PutSymbol, FakeTransfer, WalkAgain, vars
  <2> QED
    BY <2>6, <2>7, <2>8
<1> QED
  BY <1>1, <1>2, <1>3

\* When the reply to the request that carried our ids has been handled and nothing
\* was reloaded since they were gathered, both chosen documents are cached, as long
\* as the cache has room for all that was seen.
THEOREM AutoloadCaches_Always == Spec => []AutoloadCaches
<1>1. Init => AutoloadCaches
  BY DEF Init, AutoloadCaches
<1>2. EmbedInv => Asleep
  BY DEF EmbedInv
<1> QED
  BY <1>1, <1>2, NextCaches, TypesHold, GenuineHolds, CachedHolds, EmbedHolds, AutoloadHolds,
     PTL DEF Spec
=============================================================================
