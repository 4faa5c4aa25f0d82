------------------------------- MODULE TLWalker -------------------------------
(***************************************************************************)
(* The walker of engine_tl.c, which reads a TL object constructor by       *)
(* constructor.  The validator runs it to the end of a buffer; the finders *)
(* run it to learn at which positions the parameters of a gift begin.      *)
(*                                                                         *)
(* A word is a constructor, a Vector id, a flags word, a number or plain   *)
(* data; scalars and strings are one word.  The schema is the part of the  *)
(* generated one that a page of saved gifts consists of, less the          *)
(* parameters no rewriter looks at.  Only numbers count as vector lengths, *)
(* and only flags words have bits set.                                     *)
(***************************************************************************)
EXTENDS Integers, Sequences, FiniteSets

CONSTANT Text   \* what a word may say: constructors, bits and data

Word == [is : {"ctor", "vector", "flags", "number", "data"},
         name : Text, bits : SUBSET Text, n : Nat]

Plain(kind) == [is |-> kind, name |-> "", bits |-> {}, n |-> 0]

Ctor(c) == [Plain("ctor") EXCEPT !.name = c]
VectorId == Plain("vector")
FlagsWord(set) == [Plain("flags") EXCEPT !.bits = set]
Number(k) == [Plain("number") EXCEPT !.n = k]
Data(value) == [Plain("data") EXCEPT !.name = value]

Always == ""   \* the gate of a parameter that is always there

Param(name, kind, gate) == [name |-> name, kind |-> kind, gate |-> gate]

\* tl_schema.c.inc: the parameters of a constructor, in order.
Schema ==
  [ savedStarGifts |->
      << Param("gifts", "vector", Always), Param("users", "vector", Always) >>,
    savedStarGift |->
      << Param("flags", "flags", Always), Param("from_id", "boxed", "from_id"),
         Param("date", "scalar", Always), Param("gift", "boxed", Always),
         Param("message", "boxed", "message"),
         Param("can_export_at", "scalar", "can_export_at"),
         Param("transfer_stars", "scalar", "transfer_stars"),
         Param("can_transfer_at", "scalar", "can_transfer_at"),
         Param("gift_num", "scalar", "gift_num") >>,
    starGift |->
      << Param("flags", "flags", Always), Param("id", "scalar", Always),
         Param("sticker", "boxed", Always), Param("stars", "scalar", Always),
         Param("availability_remains", "scalar", "limited"),
         Param("availability_total", "scalar", "limited"),
         Param("title", "scalar", "title"),
         Param("auction_slug", "scalar", "auction"),
         Param("gifts_per_round", "scalar", "auction"),
         Param("auction_start_date", "scalar", "auction") >>,
    starGiftUnique |->
      << Param("flags", "flags", Always), Param("id", "scalar", Always),
         Param("owner_id", "boxed", "owner_id"),
         Param("attributes", "vector", Always), Param("host_id", "boxed", "host_id") >>,
    starGiftAttribute |-> << Param("document", "boxed", Always) >>,
    document |-> << Param("id", "scalar", Always) >>,
    documentEmpty |-> << Param("id", "scalar", Always) >>,
    peer |-> << Param("id", "scalar", Always) >>,
    userFull |-> << Param("full_user", "scalar", Always), Param("users", "vector", Always) >>,
    user |->
      << Param("flags", "flags", Always), Param("id", "scalar", Always),
         Param("first_name", "scalar", "first_name"),
         Param("restriction_reason", "vector", "restriction_reason"),
         Param("emoji_status", "boxed", "emoji_status"),
         Param("usernames", "vector", "usernames"), Param("color", "scalar", "color") >>,
    username |-> << Param("flags", "flags", Always), Param("username", "scalar", Always) >>,
    restrictionReason |-> << Param("text", "scalar", Always) >>,
    emojiStatusEmpty |-> <<>>,
    emojiStatus |->
      << Param("flags", "flags", Always), Param("document_id", "scalar", Always),
         Param("until", "scalar", "until") >>,
    textWithEntities |->
      << Param("text", "scalar", Always), Param("entities", "vector", Always) >> ]

ASSUME TextAssumption ==
  /\ DOMAIN Schema \cup {"", "begin", "end"} \subseteq Text
  /\ \A c \in DOMAIN Schema : \A k \in DOMAIN Schema[c] :
       {Schema[c][k].name, Schema[c][k].gate} \subseteq Text

----------------------------------------------------------------------------
(* patchgram_tl_decode_ctor and patchgram_tl_decode_value: their recursion *)
(* as a stack of what is being read, innermost first.  The trace has where *)
(* each parameter begins and whether it is there, and where each           *)
(* constructor begins and ends.                                            *)

MaxDepth == 24
MaxElements == 200000

\* A constructor and the parameter that is next, or a vector and what is left of it.
Object(ctor) == [ctor |-> ctor, next |-> 1, bits |-> {}]
Elements(k) == [ctor |-> "vector", next |-> k, bits |-> {}]

Frame ==
  [ctor : {"vector"}, next : Nat, bits : {{}}]
  \cup [ctor : DOMAIN Schema, next : Nat \ {0}, bits : SUBSET Text]
Entry == [ctor : Text, what : Text, at : Nat, there : {0, 1}]
Readers == [pos : Nat \ {0}, err : {0, 1}, stack : Seq(Frame), trace : Seq(Entry)]

Reading(pos, err, stack, trace) ==
  [pos |-> pos, err |-> err, stack |-> stack, trace |-> trace]
Reader == Reading(1, 0, <<>>, <<>>)

Entered(ctor, what, at, there) == [ctor |-> ctor, what |-> what, at |-> at, there |-> there]

Fail(r) == Reading(r.pos, 1, <<>>, r.trace)
Under(frame, r) == Reading(r.pos, r.err, <<frame>> \o r.stack, r.trace)
Push(frame, r) == IF Len(r.stack) > MaxDepth THEN Fail(r) ELSE Under(frame, r)
Popped(r) == Reading(r.pos, r.err, Tail(r.stack), r.trace)
Noted(r, ctor, what, there) ==
  Reading(r.pos, r.err, r.stack, Append(r.trace, Entered(ctor, what, r.pos, there)))

AtEnd(words, r) == r.pos > Len(words)
Advance(k, r) == Reading(r.pos + k, r.err, r.stack, r.trace)

\* A constructor the schema does not know ends the walk.
DecodeBoxed(words, r) ==
  IF AtEnd(words, r) \/ words[r.pos].is # "ctor" \/ words[r.pos].name \notin DOMAIN Schema
    THEN Fail(r)
    ELSE LET ctor == words[r.pos].name
         IN Push(Object(ctor), Advance(1, Noted(r, ctor, "begin", 1)))

DecodeVector(words, r) ==
  IF \/ r.pos + 1 > Len(words) \/ words[r.pos].is # "vector"
     \/ words[r.pos + 1].is # "number" \/ words[r.pos + 1].n > MaxElements
    THEN Fail(r)
    ELSE Push(Elements(words[r.pos + 1].n), Advance(2, r))

DecodeValue(words, kind, r) ==
  CASE kind = "boxed" -> DecodeBoxed(words, r)
    [] kind = "vector" -> DecodeVector(words, r)
    [] OTHER -> IF AtEnd(words, r) THEN Fail(r) ELSE Advance(1, r)

\* One parameter: passed over when it is gated and its bit is not set.
DecodeParam(words, r) ==
  LET top == Head(r.stack)
      p == Schema[top.ctor][top.next]
      there == p.gate = Always \/ p.gate \in top.bits
      set == IF p.kind = "flags" /\ ~AtEnd(words, r) THEN words[r.pos].bits ELSE top.bits
      passed == [ctor |-> top.ctor, next |-> top.next + 1, bits |-> set]
      here == Noted(Under(passed, Popped(r)), top.ctor, p.name, IF there THEN 1 ELSE 0)
  IN IF there THEN DecodeValue(words, p.kind, here) ELSE here

Step(words, r) ==
  LET top == Head(r.stack)
  IN CASE top.ctor = "vector" ->
            IF top.next = 0 THEN Popped(r)
            ELSE DecodeBoxed(words, Under(Elements(top.next - 1), Popped(r)))
       [] top.ctor # "vector" /\ top.next > Len(Schema[top.ctor]) ->
            Noted(Popped(r), top.ctor, "end", 1)
       [] OTHER -> DecodeParam(words, r)

WalkOn(words) ==
  LET walk[r \in Readers] == IF r.stack = <<>> THEN r ELSE walk[Step(words, r)]
  IN walk

Walk(words) == WalkOn(words)[DecodeBoxed(words, Reader)]

IsSavedStarGifts(words) == words # <<>> /\ words[1] = Ctor("savedStarGifts")

\* patchgram_tl_validate_top: one object of this kind, and nothing behind it.
ValidateTop(words) ==
  /\ IsSavedStarGifts(words)
  /\ LET r == Walk(words) IN r.err = 0 /\ r.pos = Len(words) + 1

----------------------------------------------------------------------------
(* patchgram_tl_find_gift_n and patchgram_tl_find_saved_gift_n.            *)

NotFound == [found |-> FALSE]

Is(e, ctor, what) == e.ctor = ctor /\ e.what = what

\* The least and the greatest of the positions in a trace; 0 for none.
Earliest(S) == IF S = {} THEN 0 ELSE CHOOSE k \in S : \A j \in S : k <= j
Latest(S) == IF S = {} THEN 0 ELSE CHOOSE k \in S : \A j \in S : k >= j

\* Where a trace has this between two of its positions.
Of(trace, ctor, what, from, to) == {k \in from .. to : Is(trace[k], ctor, what)}

At(trace, k) == IF k = 0 THEN 0 ELSE trace[k].at
FirstAt(trace, ctor, what, from, to) == At(trace, Earliest(Of(trace, ctor, what, from, to)))

\* Where the n-th of some positions is, counted from the first.
NthOf(S, n) == Earliest({k \in S : Cardinality({j \in S : j < k}) = n - 1})

\* The splice points of the gift between b and e, of a savedStarGift walked to c.
SpotsOf(trace, b, e, c) ==
  [found |-> TRUE, gift |-> At(trace, b), after |-> At(trace, e),
   doc |-> FirstAt(trace, "document", "begin", b, e),
   docEnd |-> FirstAt(trace, "document", "end", b, e),
   flags |-> At(trace, Latest(Of(trace, "savedStarGift", "flags", 1, b))),
   limited |-> FirstAt(trace, "starGift", "availability_remains", b, e),
   title |-> FirstAt(trace, "starGift", "title", b, e),
   auction |-> FirstAt(trace, "starGift", "auction_slug", b, e),
   transfer_stars |-> FirstAt(trace, "savedStarGift", "transfer_stars", e, c),
   gift_num |-> FirstAt(trace, "savedStarGift", "gift_num", e, c),
   can_export_at |-> FirstAt(trace, "savedStarGift", "can_export_at", e, c),
   can_transfer_at |-> FirstAt(trace, "savedStarGift", "can_transfer_at", e, c)]

\* What lies behind the gift is looked for as far as its savedStarGift goes.
SpotsFrom(trace, b, e) ==
  IF e = 0 THEN NotFound
  ELSE LET c == Earliest(Of(trace, "savedStarGift", "end", e, Len(trace)))
       IN SpotsOf(trace, b, e, IF c = 0 THEN Len(trace) ELSE c)

SpotsIn(trace, b) ==
  IF b = 0 THEN NotFound
  ELSE SpotsFrom(trace, b, Earliest(Of(trace, "starGift", "end", b, Len(trace))))

GiftIn(trace, n) == SpotsIn(trace, NthOf(Of(trace, "starGift", "begin", 1, Len(trace)), n))

\* The splice points of the n-th regular gift.
FindGift(words, n) ==
  IF IsSavedStarGifts(words) THEN GiftIn(Walk(words).trace, n) ELSE NotFound
=============================================================================
