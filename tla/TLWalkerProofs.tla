---------------------------- MODULE TLWalkerProofs ----------------------------
(***************************************************************************)
(* The walk of patchgram_tl_decode_ctor over any words.  The function that *)
(* TLWalker chooses exists, so that a walk is what its equation says.      *)
(* What it reads is described by Goes, from one reader to another, and by  *)
(* Item and Row, which hide the trace of what it noted.  From these: what  *)
(* patchgram_tl_validate makes of a users.userFull whose lists are counted *)
(* right, and that it refuses one that counts a username too many or too   *)
(* few.                                                                    *)
(***************************************************************************)
EXTENDS TLWalker, SequencesExt, SequenceTheorems, NaturalsInduction,
        WellFoundedInduction, TLAPS

\* A set of numbers that has a member has a least one.
LEMMA LeastMember ==
  ASSUME NEW T, T \subseteq Nat, T # {}
  PROVE  \E x \in T : \A y \in T : x <= y
<1>1. PICK x \in T : \A y \in T : ~ (<<y, x>> \in OpToRel(<, Nat))
  BY NatLessThanWellFounded, WFMin
<1>2. \A y \in T : ~(y < x)
  BY <1>1 DEF OpToRel
<1> QED
  BY <1>2

\* Induction, for a property given as the set of the numbers that have it.
LEMMA Inductive ==
  ASSUME NEW S, 0 \in S, \A k \in Nat : k \in S => k + 1 \in S
  PROVE  Nat \subseteq S
<1> SUFFICES ASSUME Nat \ S # {}
             PROVE  FALSE
  OBVIOUS
<1>1. PICK x \in Nat \ S : \A y \in Nat \ S : x <= y
  <2> HIDE DEF Inductive
  <2> QED
    BY LeastMember
<1>2. x - 1 \in Nat
  BY <1>1
<1>3. x - 1 \in S
  BY <1>1, <1>2
<1>4. x - 1 + 1 = x
  BY <1>1
<1> QED
  BY <1>1, <1>2, <1>3, <1>4

----------------------------------------------------------------------------
(* The walk is well defined.                                               *)

ClosedTo(ws, s, P) ==
  /\ s \in P
  /\ \A q \in Readers : q.stack # <<>> /\ Step(ws, q) \in P => q \in P

\* The readers from which the walk comes to s.
LeadingTo(ws, s) == {r \in Readers : \A P \in SUBSET Readers : ClosedTo(ws, s, P) => r \in P}

Finals(ws, r) == {s \in Readers : s.stack = <<>> /\ r \in LeadingTo(ws, s)}

\* Where nothing is left to be read the walk has ended.
LEMMA FinalsOfFinal ==
  ASSUME NEW ws, NEW r \in Readers, r.stack = <<>>
  PROVE  Finals(ws, r) = {r}
<1>1. r \in LeadingTo(ws, r)
  BY DEF LeadingTo, ClosedTo
<1>2. ASSUME NEW s \in Finals(ws, r)
      PROVE  s = r
  <2> DEFINE P == {s} \cup {q \in Readers : q.stack # <<>>}
  <2>1. s \in Readers /\ r \in LeadingTo(ws, s)
    BY DEF Finals
  <2>2. P \in SUBSET Readers
    BY <2>1
  <2>3. ClosedTo(ws, s, P)
    BY DEF ClosedTo
  <2>4. r \in P
    BY <2>1, <2>2, <2>3 DEF LeadingTo
  <2> QED
    BY <2>4
<1>3. r \in Finals(ws, r)
  BY <1>1 DEF Finals
<1> QED
  BY <1>2, <1>3

\* Where something is, it ends where it ends after a step.
LEMMA FinalsOfStep ==
  ASSUME NEW ws, NEW r \in Readers, r.stack # <<>>, Step(ws, r) \in Readers
  PROVE  Finals(ws, r) = Finals(ws, Step(ws, r))
<1> DEFINE t == Step(ws, r)
<1>1. ASSUME NEW s \in Readers, t \in LeadingTo(ws, s)
      PROVE  r \in LeadingTo(ws, s)
  <2> SUFFICES ASSUME NEW P \in SUBSET Readers, ClosedTo(ws, s, P)
               PROVE  r \in P
    BY DEF LeadingTo
  <2>1. t \in P
    BY <1>1 DEF LeadingTo
  <2> QED
    BY <2>1 DEF ClosedTo
<1>2. ASSUME NEW s \in Readers, s.stack = <<>>, r \in LeadingTo(ws, s), t \notin LeadingTo(ws, s)
      PROVE  FALSE
  <2>1. PICK P \in SUBSET Readers : ClosedTo(ws, s, P) /\ t \notin P
    BY <1>2 DEF LeadingTo
  <2> DEFINE Q == P \ {r}
  <2>2. ClosedTo(ws, s, Q)
    <3>1. s \in Q
      BY <2>1, <1>2 DEF ClosedTo
    <3>2. ASSUME NEW q \in Readers, q.stack # <<>>, Step(ws, q) \in Q
          PROVE  q \in Q
      BY <2>1, <3>2 DEF ClosedTo
    <3> QED
      BY <3>1, <3>2 DEF ClosedTo
  <2>3. Q \in SUBSET Readers
    BY <2>1
  <2>4. r \in Q
    BY <2>2, <2>3, <1>2 DEF LeadingTo
  <2> QED
    BY <2>4
<1> QED
  BY <1>1, <1>2 DEF Finals

WalkLike(ws, f) ==
  f = [r \in Readers |-> IF r.stack = <<>> THEN r ELSE f[Step(ws, r)]]

\* WalkOn chooses a function with its equation, since there is one: the walk is a function
\* of the reader it begins with.  Two readers of one walk have the same ends, so a choice
\* among them is the same from each.
LEMMA WalkExists ==
  ASSUME NEW ws, \A r \in Readers : r.stack # <<>> => Step(ws, r) \in Readers
  PROVE  WalkLike(ws, WalkOn(ws))
<1> DEFINE f == [r \in Readers |-> CHOOSE s : s \in Finals(ws, r)]
<1>1. WalkLike(ws, f)
  <2>1. ASSUME NEW r \in Readers, r.stack = <<>>
        PROVE  f[r] = r
    BY <2>1, FinalsOfFinal
  <2>2. ASSUME NEW r \in Readers, r.stack # <<>>
        PROVE  f[r] = f[Step(ws, r)]
    <3>1. Step(ws, r) \in Readers /\ Finals(ws, r) = Finals(ws, Step(ws, r))
      BY <2>2, FinalsOfStep
    <3> QED
      BY <3>1
  <2> HIDE DEF f
  <2>3. f = [r \in Readers |-> f[r]]
    BY DEF f
  <2> QED
    BY <2>1, <2>2, <2>3 DEF WalkLike
<1> HIDE DEF f
<1>2. WalkOn(ws) = CHOOSE g : WalkLike(ws, g)
  BY DEF WalkOn, WalkLike
<1> QED
  BY <1>1, <1>2

----------------------------------------------------------------------------
(* Types.                                                                  *)

\* The schema names constructors and gates a word may say.
LEMMA SchemaTyped ==
  ASSUME NEW c \in DOMAIN Schema, NEW k \in 1 .. Len(Schema[c])
  PROVE  k \in DOMAIN Schema[c] /\ Schema[c][k].name \in Text /\ Schema[c][k].gate \in Text
<1>1. DOMAIN Schema[c] = 1 .. Len(Schema[c])
  BY DEF Schema, Param
<1> QED
  BY <1>1, TextAssumption

\* The constructors the walker knows.
LEMMA KnownConstructors ==
  /\ {"savedStarGifts", "savedStarGift", "starGift", "starGiftUnique", "starGiftAttribute",
      "document", "documentEmpty", "peer", "userFull", "user", "username",
      "restrictionReason", "emojiStatusEmpty", "emojiStatus", "textWithEntities"} = DOMAIN Schema
  /\ "vector" \notin DOMAIN Schema
  /\ DOMAIN Schema \subseteq Text /\ {"begin", "end"} \subseteq Text
BY TextAssumption DEF Schema

\* A reader by its parts.
LEMMA ReadingParts ==
  ASSUME NEW r \in Readers
  PROVE  /\ r = Reading(r.pos, r.err, r.stack, r.trace)
         /\ r.pos \in Nat \ {0} /\ r.err \in {0, 1}
         /\ r.stack \in Seq(Frame) /\ r.trace \in Seq(Entry)
BY DEF Readers, Reading

\* A reader, and its parts.
LEMMA ReadingTyped ==
  ASSUME NEW p \in Nat \ {0}, NEW e \in {0, 1}, NEW S \in Seq(Frame), NEW t \in Seq(Entry)
  PROVE  Reading(p, e, S, t) \in Readers
BY DEF Readers, Reading

\* What a reader says of itself.
LEMMA ReadingGet ==
  ASSUME NEW p, NEW e, NEW S, NEW t
  PROVE  /\ Reading(p, e, S, t).pos = p /\ Reading(p, e, S, t).err = e
         /\ Reading(p, e, S, t).stack = S /\ Reading(p, e, S, t).trace = t
BY DEF Reading

\* Each small operation on a reader gives a reader.
LEMMA TypedOnes ==
  ASSUME NEW r \in Readers
  PROVE  /\ Fail(r) \in Readers /\ Fail(r).stack = <<>> /\ Fail(r).err = 1
         /\ \A k \in Nat : Advance(k, r) \in Readers
         /\ \A f \in Frame : Under(f, r) \in Readers /\ Push(f, r) \in Readers
         /\ \A c \in Text, w \in Text, b \in {0, 1} : Noted(r, c, w, b) \in Readers
         /\ r.stack # <<>> => Popped(r) \in Readers
<1>1. /\ r.pos \in Nat \ {0} /\ r.err \in {0, 1}
      /\ r.stack \in Seq(Frame) /\ r.trace \in Seq(Entry)
  BY ReadingParts
<1>2. Fail(r) \in Readers /\ Fail(r).stack = <<>> /\ Fail(r).err = 1
  <2>1. <<>> \in Seq(Frame)
    OBVIOUS
  <2> QED
    BY <1>1, <2>1, ReadingTyped DEF Fail, Reading
<1>3. \A k \in Nat : Advance(k, r) \in Readers
  BY <1>1, ReadingTyped DEF Advance
<1>4. ASSUME NEW f \in Frame
      PROVE  Under(f, r) \in Readers /\ Push(f, r) \in Readers
  <2>1. <<f>> \o r.stack \in Seq(Frame)
    BY <1>1
  <2> QED
    BY <1>1, <1>2, <2>1, ReadingTyped DEF Under, Push
<1>5. ASSUME NEW c \in Text, NEW w \in Text, NEW b \in {0, 1}
      PROVE  Noted(r, c, w, b) \in Readers
  <2>1. Entered(c, w, r.pos, b) \in Entry
    BY <1>1 DEF Entered, Entry
  <2>2. Append(r.trace, Entered(c, w, r.pos, b)) \in Seq(Entry)
    BY <1>1, <2>1
  <2> QED
    BY <1>1, <2>2, ReadingTyped DEF Noted
<1>6. r.stack # <<>> => Popped(r) \in Readers
  BY <1>1, HeadTailProperties, ReadingTyped DEF Popped
<1> QED
  BY <1>2, <1>3, <1>4, <1>5, <1>6

\* So does the beginning of an object ...
LEMMA ObjectTyped ==
  ASSUME NEW c \in DOMAIN Schema
  PROVE  Object(c) \in Frame
BY DEF Object, Frame

\* ... of a boxed one ...
LEMMA DecodeBoxedTyped ==
  ASSUME NEW ws \in Seq(Word), NEW r \in Readers
  PROVE  DecodeBoxed(ws, r) \in Readers
<1> DEFINE stops == \/ AtEnd(ws, r) \/ ws[r.pos].is # "ctor"
                    \/ ws[r.pos].name \notin DOMAIN Schema
<1>1. CASE stops
  BY <1>1, TypedOnes DEF DecodeBoxed
<1>2. CASE ~stops
  <2>1. PICK c : c = ws[r.pos].name /\ c \in DOMAIN Schema /\ c \in Text
    BY <1>2, KnownConstructors
  <2>2. Noted(r, c, "begin", 1) \in Readers
    BY <2>1, TypedOnes, KnownConstructors
  <2>3. Push(Object(c), Advance(1, Noted(r, c, "begin", 1))) \in Readers
    BY <2>1, <2>2, TypedOnes, ObjectTyped
  <2> QED
    BY <1>2, <2>1, <2>3 DEF DecodeBoxed
<1> QED
  BY <1>1, <1>2

\* ... of a vector ...
LEMMA DecodeVectorTyped ==
  ASSUME NEW ws \in Seq(Word), NEW r \in Readers
  PROVE  DecodeVector(ws, r) \in Readers
<1> DEFINE stops == \/ r.pos + 1 > Len(ws) \/ ws[r.pos].is # "vector"
                    \/ ws[r.pos + 1].is # "number" \/ ws[r.pos + 1].n > MaxElements
<1>1. CASE stops
  BY <1>1, TypedOnes DEF DecodeVector
<1>2. CASE ~stops
  <2>1. r.pos + 1 \in 1 .. Len(ws)
    BY <1>2 DEF Readers
  <2>2. ws[r.pos + 1] \in Word
    BY <2>1
  <2>3. Elements(ws[r.pos + 1].n) \in Frame
    BY <2>2 DEF Elements, Frame, Word
  <2>4. Push(Elements(ws[r.pos + 1].n), Advance(2, r)) \in Readers
    BY <2>3, TypedOnes
  <2> QED
    BY <1>2, <2>4 DEF DecodeVector
<1> QED
  BY <1>1, <1>2

\* ... and of a parameter of any kind.
LEMMA DecodeValueTyped ==
  ASSUME NEW ws \in Seq(Word), NEW r \in Readers, NEW kind
  PROVE  DecodeValue(ws, kind, r) \in Readers
<1>1. (IF AtEnd(ws, r) THEN Fail(r) ELSE Advance(1, r)) \in Readers
  BY TypedOnes
<1> QED
  BY <1>1, DecodeBoxedTyped, DecodeVectorTyped DEF DecodeValue

\* The frame on top of a stack, and those under it.
LEMMA TopAndRest ==
  ASSUME NEW S \in Seq(Frame), S # <<>>
  PROVE  Head(S) \in Frame /\ Tail(S) \in Seq(Frame) /\ S = <<Head(S)>> \o Tail(S)
<1>1. Head(S) \in Frame /\ Tail(S) \in Seq(Frame)
  BY HeadTailProperties
<1>2. S = <<Head(S)>> \o Tail(S)
  <2> HIDE DEF Frame
  <2> QED
    OBVIOUS
<1> QED
  BY <1>1, <1>2

\* A frame put on a stack and taken off again.
LEMMA Stacking ==
  ASSUME NEW f \in Frame, NEW S \in Seq(Frame)
  PROVE  /\ <<f>> \o S \in Seq(Frame) /\ <<f>> \o S # <<>>
         /\ Head(<<f>> \o S) = f /\ Tail(<<f>> \o S) = S
         /\ Len(<<f>> \o S) = Len(S) + 1
<1> HIDE DEF Frame
<1>1. <<f>> \o S \in Seq(Frame) /\ Len(<<f>> \o S) = Len(S) + 1
  OBVIOUS
<1>2. <<f>> \o S # <<>> /\ Head(<<f>> \o S) = f
  OBVIOUS
<1>3. Tail(<<f>> \o S) = S
  OBVIOUS
<1> QED
  BY <1>1, <1>2, <1>3

\* A parameter of an object is read by a reader into a reader.
LEMMA DecodeParamTyped ==
  ASSUME NEW ws \in Seq(Word), NEW r \in Readers, r.stack # <<>>,
         Head(r.stack).ctor \in DOMAIN Schema, ~(Head(r.stack).next > Len(Schema[Head(r.stack).ctor]))
  PROVE  DecodeParam(ws, r) \in Readers
<1> DEFINE top == Head(r.stack)
           p == Schema[top.ctor][top.next]
           there == p.gate = Always \/ p.gate \in top.bits
           set == IF p.kind = "flags" /\ ~AtEnd(ws, r) THEN ws[r.pos].bits ELSE top.bits
           passed == [ctor |-> top.ctor, next |-> top.next + 1, bits |-> set]
           yes == IF there THEN 1 ELSE 0
           here == Noted(Under(passed, Popped(r)), top.ctor, p.name, yes)
<1>1. top \in Frame
  BY ReadingParts, TopAndRest
<1>2. top.ctor \in DOMAIN Schema /\ top.next \in Nat \ {0} /\ top.bits \subseteq Text
  BY <1>1, KnownConstructors DEF Frame
<1>3. top.next \in 1 .. Len(Schema[top.ctor])
  <2>1. Len(Schema[top.ctor]) \in Nat
    BY <1>2 DEF Schema, Param
  <2> QED
    BY <1>2, <2>1
<1>4. p.name \in Text
  BY <1>2, <1>3, SchemaTyped
<1>5. set \subseteq Text
  <2>1. ~AtEnd(ws, r) => ws[r.pos] \in Word
    <3>1. r.pos \in Nat \ {0}
      BY ReadingParts
    <3> HIDE DEF Word
    <3> QED
      BY <3>1 DEF AtEnd
  <2> QED
    BY <1>2, <2>1 DEF Word
<1>6. passed \in Frame
  BY <1>2, <1>5 DEF Frame
<1>7. yes \in {0, 1}
  OBVIOUS
<1> HIDE DEF p, there, set, passed, yes
<1>8. here \in Readers
  BY <1>2, <1>4, <1>6, <1>7, TypedOnes, KnownConstructors
<1>9. DecodeParam(ws, r) = IF there THEN DecodeValue(ws, p.kind, here) ELSE here
  BY DEF DecodeParam, p, there, set, passed, yes
<1> HIDE DEF here
<1> QED
  BY <1>8, <1>9, DecodeValueTyped

\* A step gives a reader.
LEMMA StepTyped ==
  ASSUME NEW ws \in Seq(Word), NEW r \in Readers, r.stack # <<>>
  PROVE  Step(ws, r) \in Readers
<1> DEFINE top == Head(r.stack)
<1>1. top \in Frame
  BY ReadingParts, TopAndRest
<1>2. Popped(r) \in Readers
  BY TypedOnes
<1>3. CASE top.ctor = "vector"
  <2>1. top.next \in Nat
    BY <1>1 DEF Frame
  <2>2. top.next # 0 => Elements(top.next - 1) \in Frame
    BY <2>1 DEF Elements, Frame
  <2>3. top.next # 0 => DecodeBoxed(ws, Under(Elements(top.next - 1), Popped(r))) \in Readers
    BY <1>2, <2>2, TypedOnes, DecodeBoxedTyped
  <2> QED
    BY <1>2, <1>3, <2>3 DEF Step
<1>4. CASE top.ctor # "vector" /\ top.next > Len(Schema[top.ctor])
  <2>1. top.ctor \in Text
    BY <1>1, <1>4, KnownConstructors DEF Frame
  <2>2. Noted(Popped(r), top.ctor, "end", 1) \in Readers
    BY <1>2, <2>1, TypedOnes, KnownConstructors
  <2> QED
    BY <1>4, <2>2 DEF Step
<1>5. CASE top.ctor # "vector" /\ ~(top.next > Len(Schema[top.ctor]))
  <2>1. top.ctor \in DOMAIN Schema
    BY <1>1, <1>5 DEF Frame
  <2>2. DecodeParam(ws, r) \in Readers
    BY <1>5, <2>1, DecodeParamTyped
  <2> QED
    BY <1>5, <2>2 DEF Step
<1> QED
  BY <1>3, <1>4, <1>5

----------------------------------------------------------------------------
(* One step, by what is at the top of the stack.                           *)

\* An object that is being read, and its parameters.
Obj(c, k, bits) == [ctor |-> c, next |-> k, bits |-> bits]

\* The frames the walk uses.
LEMMA FramesTyped ==
  /\ \A c \in DOMAIN Schema, k \in Nat \ {0}, bits \in SUBSET Text : Obj(c, k, bits) \in Frame
  /\ \A k \in Nat : Elements(k) \in Frame
  /\ \A f \in Frame : \/ f.ctor = "vector" /\ f.next \in Nat /\ f = Elements(f.next)
                      \/ /\ f.ctor \in DOMAIN Schema /\ f.next \in Nat \ {0}
                         /\ f.bits \in SUBSET Text /\ f = Obj(f.ctor, f.next, f.bits)
BY DEF Frame, Obj, Elements

Nothing == <<>>
On(f, S) == <<f>> \o S
Also(t, c, w, p, b) == Append(t, Entered(c, w, p, b))

\* A frame on a stack is a stack.
LEMMA OnTyped ==
  ASSUME NEW f \in Frame, NEW S \in Seq(Frame)
  PROVE  /\ On(f, S) \in Seq(Frame) /\ On(f, S) # Nothing
         /\ Head(On(f, S)) = f /\ Tail(On(f, S)) = S
         /\ Len(On(f, S)) = Len(S) + 1 /\ Len(S) \in Nat
<1>1. Len(S) \in Nat
  BY LenProperties
<1> QED
  BY <1>1, Stacking DEF On, Nothing

\* The empty stack.
LEMMA NothingTyped == Nothing \in Seq(Frame) /\ Len(Nothing) = 0
BY DEF Nothing

\* An entry more in the trace.
LEMMA AlsoTyped ==
  ASSUME NEW t \in Seq(Entry), NEW c \in Text, NEW w \in Text, NEW p \in Nat, NEW b \in {0, 1}
  PROVE  Also(t, c, w, p, b) \in Seq(Entry)
<1>1. Entered(c, w, p, b) \in Entry
  BY DEF Entered, Entry
<1> HIDE DEF Entry
<1> QED
  BY <1>1, AppendProperties DEF Also

\* What DecodeBoxed does at a position: it enters the object, or fails.
LEMMA ReadsBoxed ==
  ASSUME NEW ws, NEW p, NEW e, NEW S, NEW t
  PROVE  DecodeBoxed(ws, Reading(p, e, S, t)) =
           IF p > Len(ws) \/ ws[p].is # "ctor" \/ ws[p].name \notin DOMAIN Schema
             THEN Reading(p, 1, Nothing, t)
             ELSE IF Len(S) > MaxDepth
                    THEN Reading(p + 1, 1, Nothing, Also(t, ws[p].name, "begin", p, 1))
                    ELSE Reading(p + 1, e, On(Object(ws[p].name), S),
                                 Also(t, ws[p].name, "begin", p, 1))
<1> DEFINE stops == p > Len(ws) \/ ws[p].is # "ctor" \/ ws[p].name \notin DOMAIN Schema
           c == ws[p].name
           r == Reading(p, e, S, t)
           new == Also(t, c, "begin", p, 1)
<1>1. r.pos = p /\ r.err = e /\ r.stack = S /\ r.trace = t
  BY ReadingGet
<1>2. CASE stops
  BY <1>1, <1>2 DEF DecodeBoxed, AtEnd, Fail, Nothing
<1>3. CASE ~stops
  <2>1. DecodeBoxed(ws, r) = Push(Object(c), Advance(1, Noted(r, c, "begin", 1)))
    BY <1>1, <1>3 DEF DecodeBoxed, AtEnd
  <2>2. Noted(r, c, "begin", 1) = Reading(p, e, S, new)
    BY <1>1 DEF Noted, Also
  <2> HIDE DEF new
  <2>3. Advance(1, Noted(r, c, "begin", 1)) = Reading(p + 1, e, S, new)
    BY <2>2, ReadingGet DEF Advance
  <2>4. Push(Object(c), Reading(p + 1, e, S, new)) =
          IF Len(S) > MaxDepth THEN Reading(p + 1, 1, Nothing, new)
                               ELSE Reading(p + 1, e, On(Object(c), S), new)
    BY ReadingGet DEF Push, Under, Fail, Nothing, On
  <2> QED
    BY <1>3, <2>1, <2>3, <2>4 DEF new
<1> QED
  BY <1>2, <1>3

\* What DecodeVector does at a position: it enters the vector, or fails.
LEMMA ReadsVector ==
  ASSUME NEW ws, NEW p, NEW e, NEW S, NEW t
  PROVE  DecodeVector(ws, Reading(p, e, S, t)) =
           IF \/ p + 1 > Len(ws) \/ ws[p].is # "vector"
              \/ ws[p + 1].is # "number" \/ ws[p + 1].n > MaxElements
             THEN Reading(p, 1, Nothing, t)
             ELSE IF Len(S) > MaxDepth THEN Reading(p + 2, 1, Nothing, t)
                  ELSE Reading(p + 2, e, On(Elements(ws[p + 1].n), S), t)
BY ReadingGet DEF DecodeVector, AtEnd, Fail, Push, Under, Advance, Nothing, On

\* An object's step at one of its parameters.
There(m, bits) == m.gate = Always \/ m.gate \in bits

ParamStep(ws, p, e, c, k, bits, S, t) ==
  LET m == Schema[c][k]
      set == IF m.kind = "flags" /\ ~(p > Len(ws)) THEN ws[p].bits ELSE bits
  IN IF There(m, bits)
       THEN DecodeValue(ws, m.kind,
              Reading(p, e, On(Obj(c, k + 1, set), S), Also(t, c, m.name, p, 1)))
       ELSE Reading(p, e, On(Obj(c, k + 1, set), S), Also(t, c, m.name, p, 0))

\* The top frame of a stack, and the stack without it.
LEMMA PoppedOn ==
  ASSUME NEW p, NEW e, NEW f \in Frame, NEW S \in Seq(Frame), NEW t
  PROVE  /\ Head(Reading(p, e, On(f, S), t).stack) = f
         /\ Popped(Reading(p, e, On(f, S), t)) = Reading(p, e, S, t)
         /\ Reading(p, e, On(f, S), t).pos = p
<1> DEFINE Z == On(f, S)
<1>1. Head(Z) = f /\ Tail(Z) = S
  BY OnTyped
<1> HIDE DEF Z
<1>2. /\ Reading(p, e, Z, t).pos = p /\ Reading(p, e, Z, t).err = e
      /\ Reading(p, e, Z, t).stack = Z /\ Reading(p, e, Z, t).trace = t
  BY ReadingGet
<1>3. Head(Reading(p, e, Z, t).stack) = f /\ Popped(Reading(p, e, Z, t)) = Reading(p, e, S, t)
  BY <1>1, <1>2 DEF Popped
<1> QED
  BY <1>2, <1>3 DEF Z

\* A step at a parameter of an object.
LEMMA StepsParam ==
  ASSUME NEW ws, NEW p, NEW e, NEW c \in DOMAIN Schema, NEW k \in 1 .. Len(Schema[c]),
         NEW bits \in SUBSET Text, NEW S \in Seq(Frame), NEW t
  PROVE  Step(ws, Reading(p, e, On(Obj(c, k, bits), S), t)) = ParamStep(ws, p, e, c, k, bits, S, t)
<1> DEFINE r == Reading(p, e, On(Obj(c, k, bits), S), t)
<1>0. Obj(c, k, bits) \in Frame
  BY FramesTyped
<1>1. Head(r.stack) = Obj(c, k, bits) /\ Popped(r) = Reading(p, e, S, t) /\ r.pos = p
  BY <1>0, PoppedOn
<1>2. Obj(c, k, bits).ctor = c /\ Obj(c, k, bits).next = k /\ Obj(c, k, bits).bits = bits
  BY DEF Obj
<1>3. c # "vector" /\ ~(k > Len(Schema[c]))
  <2>1. Len(Schema[c]) \in Nat
    BY DEF Schema, Param
  <2> QED
    BY <2>1, KnownConstructors
<1> HIDE DEF r, Schema
<1>4. Step(ws, r) = DecodeParam(ws, r)
  BY <1>1, <1>2, <1>3 DEF Step
<1>5. \A f, w, b : Noted(Under(f, Popped(r)), c, w, b) =
         Reading(p, e, On(f, S), Also(t, c, w, p, b))
  BY <1>1, ReadingGet DEF Noted, Under, On, Also
<1> DEFINE m == Schema[c][k]
           there == m.gate = Always \/ m.gate \in bits
           set == IF m.kind = "flags" /\ ~(p > Len(ws)) THEN ws[p].bits ELSE bits
           yes == IF there THEN 1 ELSE 0
           here == Noted(Under([ctor |-> c, next |-> k + 1, bits |-> set], Popped(r)), c, m.name, yes)
<1>7. DecodeParam(ws, r) = IF there THEN DecodeValue(ws, m.kind, here) ELSE here
  BY <1>1, <1>2 DEF DecodeParam, AtEnd
<1>8. here = Reading(p, e, On(Obj(c, k + 1, set), S), Also(t, c, m.name, p, yes))
  BY <1>5 DEF Obj
<1> QED
  BY <1>4, <1>7, <1>8 DEF ParamStep, r, There

\* A step behind the last parameter of an object.
LEMMA StepsEnd ==
  ASSUME NEW ws, NEW p, NEW e, NEW c \in DOMAIN Schema, NEW k \in Nat \ {0},
         k > Len(Schema[c]), NEW bits \in SUBSET Text, NEW S \in Seq(Frame), NEW t
  PROVE  Step(ws, Reading(p, e, On(Obj(c, k, bits), S), t)) =
           Reading(p, e, S, Also(t, c, "end", p, 1))
<1> DEFINE r == Reading(p, e, On(Obj(c, k, bits), S), t)
<1>0. Obj(c, k, bits) \in Frame
  BY FramesTyped
<1>1. Head(r.stack) = Obj(c, k, bits) /\ Popped(r) = Reading(p, e, S, t)
  BY <1>0, PoppedOn
<1>2. Obj(c, k, bits).ctor = c /\ Obj(c, k, bits).next = k /\ c # "vector"
  BY KnownConstructors DEF Obj
<1> HIDE DEF r, Schema
<1>3. Step(ws, r) = Noted(Popped(r), c, "end", 1)
  BY <1>1, <1>2 DEF Step
<1> QED
  BY <1>1, <1>3, ReadingGet DEF Noted, r, Also

\* A step at an element of a vector, or behind the last.
LEMMA StepsElement ==
  ASSUME NEW ws, NEW p, NEW e, NEW k \in Nat, NEW S \in Seq(Frame), NEW t
  PROVE  Step(ws, Reading(p, e, On(Elements(k), S), t)) =
           IF k = 0 THEN Reading(p, e, S, t)
           ELSE DecodeBoxed(ws, Reading(p, e, On(Elements(k - 1), S), t))
<1> DEFINE r == Reading(p, e, On(Elements(k), S), t)
<1>0. Elements(k) \in Frame
  BY FramesTyped
<1>1. Head(r.stack) = Elements(k) /\ Popped(r) = Reading(p, e, S, t)
  BY <1>0, PoppedOn
<1>2. Elements(k).ctor = "vector" /\ Elements(k).next = k
  BY DEF Elements
<1> HIDE DEF r
<1>3. Under(Elements(k - 1), Popped(r)) = Reading(p, e, On(Elements(k - 1), S), t)
  BY <1>1, ReadingGet DEF Under, On
<1> QED
  BY <1>1, <1>2, <1>3 DEF Step, r

----------------------------------------------------------------------------
(* From one place of a walk to a later one.                                *)

\* From p and this stack a walk gets to q and that stack.
Goes(ws, p, S, q, T) ==
  \A t \in Seq(Entry) : \E u \in Seq(Entry) :
    WalkOn(ws)[Reading(p, 0, S, t)] = WalkOn(ws)[Reading(q, 0, T, u)]

\* A walk that is here is going to fail.
Fails(ws, p, S) == \A t \in Seq(Entry) : WalkOn(ws)[Reading(p, 0, S, t)].err = 1

\* The walk from a state is the walk from the next.
LEMMA WalkSteps ==
  ASSUME NEW ws \in Seq(Word), NEW r \in Readers
  PROVE  WalkOn(ws)[r] = IF r.stack = <<>> THEN r ELSE WalkOn(ws)[Step(ws, r)]
<1>1. WalkLike(ws, WalkOn(ws))
  BY WalkExists, StepTyped
<1> QED
  BY <1>1 DEF WalkLike

\* One step of a reader that has not failed.
LEMMA StepWalks ==
  ASSUME NEW ws \in Seq(Word), NEW p \in Nat \ {0}, NEW f \in Frame, NEW S \in Seq(Frame),
         NEW t \in Seq(Entry)
  PROVE  WalkOn(ws)[Reading(p, 0, On(f, S), t)] =
           WalkOn(ws)[Step(ws, Reading(p, 0, On(f, S), t))]
<1>1. On(f, S) \in Seq(Frame) /\ On(f, S) # <<>>
  BY OnTyped DEF Nothing
<1>2. Reading(p, 0, On(f, S), t) \in Readers
  BY <1>1, ReadingTyped
<1>3. Reading(p, 0, On(f, S), t).stack = On(f, S)
  BY ReadingGet
<1> QED
  BY <1>1, <1>2, <1>3, WalkSteps

\* The walk from a state at rest is that state.
LEMMA WalkEnds ==
  ASSUME NEW ws \in Seq(Word), NEW p \in Nat \ {0}, NEW e \in {0, 1}, NEW t \in Seq(Entry)
  PROVE  WalkOn(ws)[Reading(p, e, Nothing, t)] = Reading(p, e, Nothing, t)
<1>1. Reading(p, e, Nothing, t) \in Readers
  BY NothingTyped, ReadingTyped
<1>2. Reading(p, e, Nothing, t).stack = Nothing
  BY ReadingGet
<1> QED
  BY <1>1, <1>2, WalkSteps DEF Nothing

\* A step that fails nowhere leads on.
LEMMA StepGoes ==
  ASSUME NEW ws \in Seq(Word), NEW p \in Nat \ {0}, NEW f \in Frame, NEW S \in Seq(Frame),
         NEW q, NEW T,
         \A t \in Seq(Entry) : \E u \in Seq(Entry) :
           Step(ws, Reading(p, 0, On(f, S), t)) = Reading(q, 0, T, u)
  PROVE  Goes(ws, p, On(f, S), q, T)
<1> SUFFICES ASSUME NEW t \in Seq(Entry)
             PROVE  \E u \in Seq(Entry) :
                      WalkOn(ws)[Reading(p, 0, On(f, S), t)] = WalkOn(ws)[Reading(q, 0, T, u)]
  BY DEF Goes
<1>1. PICK u \in Seq(Entry) : Step(ws, Reading(p, 0, On(f, S), t)) = Reading(q, 0, T, u)
  OBVIOUS
<1>2. WalkOn(ws)[Reading(p, 0, On(f, S), t)] = WalkOn(ws)[Step(ws, Reading(p, 0, On(f, S), t))]
  BY StepWalks
<1> QED
  BY <1>1, <1>2

\* A step that fails is the end.
LEMMA StepFails ==
  ASSUME NEW ws \in Seq(Word), NEW p \in Nat \ {0}, NEW f \in Frame, NEW S \in Seq(Frame),
         NEW q \in Nat \ {0},
         \A t \in Seq(Entry) : \E u \in Seq(Entry) :
           Step(ws, Reading(p, 0, On(f, S), t)) = Reading(q, 1, Nothing, u)
  PROVE  Fails(ws, p, On(f, S))
<1> SUFFICES ASSUME NEW t \in Seq(Entry)
             PROVE  WalkOn(ws)[Reading(p, 0, On(f, S), t)].err = 1
  BY DEF Fails
<1>1. PICK u \in Seq(Entry) : Step(ws, Reading(p, 0, On(f, S), t)) = Reading(q, 1, Nothing, u)
  OBVIOUS
<1>2. WalkOn(ws)[Reading(q, 1, Nothing, u)] = Reading(q, 1, Nothing, u)
  BY WalkEnds
<1>3. Reading(q, 1, Nothing, u).err = 1
  BY ReadingGet
<1>4. WalkOn(ws)[Reading(p, 0, On(f, S), t)] = WalkOn(ws)[Step(ws, Reading(p, 0, On(f, S), t))]
  BY StepWalks
<1> QED
  BY <1>1, <1>2, <1>3, <1>4

\* Ways of the walk can be joined ...
LEMMA GoesOn ==
  ASSUME NEW ws, NEW p, NEW S, NEW q, NEW T, NEW u, NEW V,
         Goes(ws, p, S, q, T), Goes(ws, q, T, u, V)
  PROVE  Goes(ws, p, S, u, V)
BY DEF Goes

\* ... also if the second ends in a failure ...
LEMMA GoesToFail ==
  ASSUME NEW ws, NEW p, NEW S, NEW q, NEW T,
         Goes(ws, p, S, q, T), Fails(ws, q, T)
  PROVE  Fails(ws, p, S)
BY DEF Goes, Fails

\* ... and every way begins where it is.
LEMMA GoesNowhere ==
  ASSUME NEW ws, NEW p, NEW S
  PROVE  Goes(ws, p, S, p, S)
BY DEF Goes

\* At a parameter the walk goes where the step goes.
LEMMA AtParam ==
  ASSUME NEW c \in DOMAIN Schema, NEW k \in 1 .. Len(Schema[c]), NEW bits \in SUBSET Text
  PROVE  /\ Obj(c, k, bits) \in Frame /\ Obj(c, k + 1, bits) \in Frame
         /\ c \in Text /\ Schema[c][k].name \in Text
BY FramesTyped, SchemaTyped, KnownConstructors

\* A parameter that is not there.
LEMMA PassParam ==
  ASSUME NEW ws \in Seq(Word), NEW p \in Nat \ {0}, NEW S \in Seq(Frame),
         NEW c \in DOMAIN Schema, NEW k \in 1 .. Len(Schema[c]), NEW bits \in SUBSET Text,
         ~There(Schema[c][k], bits), Schema[c][k].kind # "flags"
  PROVE  Goes(ws, p, On(Obj(c, k, bits), S), p, On(Obj(c, k + 1, bits), S))
<1>1. Obj(c, k, bits) \in Frame /\ c \in Text /\ Schema[c][k].name \in Text
  BY AtParam
<1>2. ASSUME NEW t \in Seq(Entry)
      PROVE  \E u \in Seq(Entry) : Step(ws, Reading(p, 0, On(Obj(c, k, bits), S), t)) =
                                     Reading(p, 0, On(Obj(c, k + 1, bits), S), u)
  <2>1. Step(ws, Reading(p, 0, On(Obj(c, k, bits), S), t)) = ParamStep(ws, p, 0, c, k, bits, S, t)
    BY StepsParam
  <2>2. ParamStep(ws, p, 0, c, k, bits, S, t) =
          Reading(p, 0, On(Obj(c, k + 1, bits), S), Also(t, c, Schema[c][k].name, p, 0))
    BY DEF ParamStep
  <2>3. Also(t, c, Schema[c][k].name, p, 0) \in Seq(Entry)
    BY <1>1, AlsoTyped
  <2> QED
    BY <2>1, <2>2, <2>3
<1> QED
  BY <1>1, <1>2, StepGoes

\* A parameter that is there and is one word; the flags word's bits are kept.
LEMMA ReadParam ==
  ASSUME NEW ws \in Seq(Word), NEW p \in 1 .. Len(ws), NEW S \in Seq(Frame),
         NEW c \in DOMAIN Schema, NEW k \in 1 .. Len(Schema[c]), NEW bits \in SUBSET Text,
         There(Schema[c][k], bits), Schema[c][k].kind \in {"scalar", "flags"},
         NEW set, set = IF Schema[c][k].kind = "flags" THEN ws[p].bits ELSE bits
  PROVE  Goes(ws, p, On(Obj(c, k, bits), S), p + 1, On(Obj(c, k + 1, set), S))
<1>0. p \in Nat \ {0} /\ Len(ws) \in Nat
  BY DEF Word
<1>1. Obj(c, k, bits) \in Frame /\ c \in Text /\ Schema[c][k].name \in Text
  BY AtParam
<1>2. ASSUME NEW t \in Seq(Entry)
      PROVE  \E u \in Seq(Entry) : Step(ws, Reading(p, 0, On(Obj(c, k, bits), S), t)) =
                                     Reading(p + 1, 0, On(Obj(c, k + 1, set), S), u)
  <2> DEFINE u == Also(t, c, Schema[c][k].name, p, 1)
             here == Reading(p, 0, On(Obj(c, k + 1, set), S), u)
  <2>1. Step(ws, Reading(p, 0, On(Obj(c, k, bits), S), t)) = ParamStep(ws, p, 0, c, k, bits, S, t)
    BY StepsParam
  <2>2. ParamStep(ws, p, 0, c, k, bits, S, t) = DecodeValue(ws, Schema[c][k].kind, here)
    <3>1. ~(p > Len(ws))
      BY <1>0
    <3> QED
      BY <3>1 DEF ParamStep
  <2>3. u \in Seq(Entry)
    BY <1>0, <1>1, AlsoTyped
  <2>4. DecodeValue(ws, Schema[c][k].kind, here) = Reading(p + 1, 0, On(Obj(c, k + 1, set), S), u)
    <3>1. here.pos = p /\ here.err = 0 /\ here.stack = On(Obj(c, k + 1, set), S) /\ here.trace = u
      BY ReadingGet
    <3> HIDE DEF here
    <3>2. DecodeValue(ws, Schema[c][k].kind, here) = Advance(1, here)
      BY <1>0, <3>1 DEF DecodeValue, AtEnd
    <3> QED
      BY <3>1, <3>2 DEF Advance
  <2> QED
    BY <2>1, <2>2, <2>3, <2>4
<1> QED
  BY <1>0, <1>1, <1>2, StepGoes

\* An object that begins at p goes on the stack.
LEMMA Begins ==
  ASSUME NEW ws \in Seq(Word), NEW p \in 1 .. Len(ws), NEW S \in Seq(Frame), Len(S) <= MaxDepth,
         NEW d \in DOMAIN Schema, ws[p] = Ctor(d), NEW t \in Seq(Entry)
  PROVE  \E u \in Seq(Entry) :
           DecodeBoxed(ws, Reading(p, 0, S, t)) = Reading(p + 1, 0, On(Obj(d, 1, {}), S), u)
<1>1. ws[p].is = "ctor" /\ ws[p].name = d
  BY DEF Ctor, Plain
<1>2. Object(d) = Obj(d, 1, {})
  BY DEF Object, Obj
<1>3. ~(p > Len(ws)) /\ ~(Len(S) > MaxDepth) /\ p \in Nat
  BY LenProperties DEF MaxDepth
<1>4. DecodeBoxed(ws, Reading(p, 0, S, t)) =
        Reading(p + 1, 0, On(Object(d), S), Also(t, d, "begin", p, 1))
  BY <1>1, <1>3, ReadsBoxed
<1>5. Also(t, d, "begin", p, 1) \in Seq(Entry)
  BY <1>3, AlsoTyped, KnownConstructors
<1> QED
  BY <1>2, <1>4, <1>5

\* A boxed parameter that is there: its object is entered.
LEMMA EnterParam ==
  ASSUME NEW ws \in Seq(Word), NEW p \in 1 .. Len(ws), NEW S \in Seq(Frame), Len(S) < MaxDepth,
         NEW c \in DOMAIN Schema, NEW k \in 1 .. Len(Schema[c]), NEW bits \in SUBSET Text,
         There(Schema[c][k], bits), Schema[c][k].kind = "boxed",
         NEW d \in DOMAIN Schema, ws[p] = Ctor(d)
  PROVE  Goes(ws, p, On(Obj(c, k, bits), S), p + 1,
              On(Obj(d, 1, {}), On(Obj(c, k + 1, bits), S)))
<1>0. p \in Nat \ {0} /\ Len(ws) \in Nat
  BY DEF Word
<1>1. /\ Obj(c, k, bits) \in Frame /\ Obj(c, k + 1, bits) \in Frame
      /\ c \in Text /\ Schema[c][k].name \in Text
  BY AtParam
<1> DEFINE Z == On(Obj(c, k + 1, bits), S)
<1>2. Z \in Seq(Frame) /\ Len(Z) <= MaxDepth
  BY <1>1, OnTyped DEF MaxDepth
<1> HIDE DEF Z
<1>3. ASSUME NEW t \in Seq(Entry)
      PROVE  \E u \in Seq(Entry) : Step(ws, Reading(p, 0, On(Obj(c, k, bits), S), t)) =
                                     Reading(p + 1, 0, On(Obj(d, 1, {}), Z), u)
  <2> DEFINE u == Also(t, c, Schema[c][k].name, p, 1)
  <2>1. Step(ws, Reading(p, 0, On(Obj(c, k, bits), S), t)) = ParamStep(ws, p, 0, c, k, bits, S, t)
    BY StepsParam
  <2>2. ParamStep(ws, p, 0, c, k, bits, S, t) = DecodeBoxed(ws, Reading(p, 0, Z, u))
    BY DEF ParamStep, DecodeValue, Z
  <2>3. u \in Seq(Entry)
    BY <1>0, <1>1, AlsoTyped
  <2> HIDE DEF u
  <2> QED
    BY <1>2, <2>1, <2>2, <2>3, Begins
<1>4. Goes(ws, p, On(Obj(c, k, bits), S), p + 1, On(Obj(d, 1, {}), Z))
  BY <1>0, <1>1, <1>3, StepGoes
<1> QED
  BY <1>4 DEF Z

\* What the words are.
LEMMA WordsAre ==
  /\ \A d : Ctor(d).is = "ctor" /\ Ctor(d).name = d
  /\ VectorId.is = "vector"
  /\ \A k : Number(k).is = "number" /\ Number(k).n = k
  /\ \A b : FlagsWord(b).is = "flags" /\ FlagsWord(b).bits = b
  /\ \A v : Data(v).is = "data" /\ Data(v).name = v
BY DEF Ctor, VectorId, Number, FlagsWord, Data, Plain

\* A vector that begins at p.
LEMMA BeginsVector ==
  ASSUME NEW ws \in Seq(Word), NEW p \in 1 .. Len(ws), p + 1 <= Len(ws),
         NEW S \in Seq(Frame), Len(S) <= MaxDepth,
         NEW h \in Nat, h <= MaxElements, ws[p] = VectorId, ws[p + 1] = Number(h), NEW t
  PROVE  DecodeVector(ws, Reading(p, 0, S, t)) = Reading(p + 2, 0, On(Elements(h), S), t)
<1>1. ws[p].is = "vector" /\ ws[p + 1].is = "number" /\ ws[p + 1].n = h
  BY WordsAre
<1>2. ~(p + 1 > Len(ws)) /\ ~(Len(S) > MaxDepth) /\ ~(h > MaxElements)
  BY LenProperties DEF MaxDepth, MaxElements
<1> QED
  BY <1>1, <1>2, ReadsVector

\* A vector is entered behind its length.
LEMMA EnterVector ==
  ASSUME NEW ws \in Seq(Word), NEW p \in 1 .. Len(ws), p + 1 <= Len(ws),
         NEW S \in Seq(Frame), Len(S) < MaxDepth,
         NEW c \in DOMAIN Schema, NEW k \in 1 .. Len(Schema[c]), NEW bits \in SUBSET Text,
         There(Schema[c][k], bits), Schema[c][k].kind = "vector",
         NEW h \in Nat, h <= MaxElements, ws[p] = VectorId, ws[p + 1] = Number(h)
  PROVE  Goes(ws, p, On(Obj(c, k, bits), S), p + 2,
              On(Elements(h), On(Obj(c, k + 1, bits), S)))
<1>0. p \in Nat \ {0} /\ Len(ws) \in Nat
  BY DEF Word
<1>1. /\ Obj(c, k, bits) \in Frame /\ Obj(c, k + 1, bits) \in Frame
      /\ c \in Text /\ Schema[c][k].name \in Text
  BY AtParam
<1> DEFINE Z == On(Obj(c, k + 1, bits), S)
<1>2. Z \in Seq(Frame) /\ Len(Z) <= MaxDepth
  BY <1>1, OnTyped DEF MaxDepth
<1> HIDE DEF Z
<1>3. ASSUME NEW t \in Seq(Entry)
      PROVE  \E u \in Seq(Entry) : Step(ws, Reading(p, 0, On(Obj(c, k, bits), S), t)) =
                                     Reading(p + 2, 0, On(Elements(h), Z), u)
  <2> DEFINE u == Also(t, c, Schema[c][k].name, p, 1)
  <2>1. Step(ws, Reading(p, 0, On(Obj(c, k, bits), S), t)) = ParamStep(ws, p, 0, c, k, bits, S, t)
    BY StepsParam
  <2>2. ParamStep(ws, p, 0, c, k, bits, S, t) = DecodeVector(ws, Reading(p, 0, Z, u))
    BY DEF ParamStep, DecodeValue, Z
  <2>3. u \in Seq(Entry)
    BY <1>0, <1>1, AlsoTyped
  <2> HIDE DEF u
  <2>4. DecodeVector(ws, Reading(p, 0, Z, u)) = Reading(p + 2, 0, On(Elements(h), Z), u)
    BY <1>2, BeginsVector
  <2> QED
    BY <2>1, <2>2, <2>3, <2>4
<1>4. Goes(ws, p, On(Obj(c, k, bits), S), p + 2, On(Elements(h), Z))
  BY <1>0, <1>1, <1>3, StepGoes
<1> QED
  BY <1>4 DEF Z

\* The end of an object.
LEMMA LeaveObject ==
  ASSUME NEW ws \in Seq(Word), NEW p \in Nat \ {0}, NEW S \in Seq(Frame),
         NEW c \in DOMAIN Schema, NEW k \in Nat \ {0}, k > Len(Schema[c]), NEW bits \in SUBSET Text
  PROVE  Goes(ws, p, On(Obj(c, k, bits), S), p, S)
<1>1. Obj(c, k, bits) \in Frame /\ c \in Text /\ "end" \in Text
  BY FramesTyped, KnownConstructors
<1>2. ASSUME NEW t \in Seq(Entry)
      PROVE  \E u \in Seq(Entry) :
               Step(ws, Reading(p, 0, On(Obj(c, k, bits), S), t)) = Reading(p, 0, S, u)
  <2>1. Step(ws, Reading(p, 0, On(Obj(c, k, bits), S), t)) =
          Reading(p, 0, S, Also(t, c, "end", p, 1))
    BY StepsEnd
  <2>2. Also(t, c, "end", p, 1) \in Seq(Entry)
    BY <1>1, AlsoTyped
  <2> QED
    BY <2>1, <2>2
<1> QED
  BY <1>1, <1>2, StepGoes

\* The end of a vector.
LEMMA LeaveVector ==
  ASSUME NEW ws \in Seq(Word), NEW p \in Nat \ {0}, NEW S \in Seq(Frame)
  PROVE  Goes(ws, p, On(Elements(0), S), p, S)
<1>1. Elements(0) \in Frame
  BY FramesTyped
<1>2. \A t \in Seq(Entry) : Step(ws, Reading(p, 0, On(Elements(0), S), t)) = Reading(p, 0, S, t)
  BY StepsElement
<1> QED
  BY <1>1, <1>2, StepGoes

\* An element of a vector is entered.
LEMMA EnterElement ==
  ASSUME NEW ws \in Seq(Word), NEW p \in 1 .. Len(ws), NEW S \in Seq(Frame), Len(S) < MaxDepth,
         NEW h \in Nat, NEW d \in DOMAIN Schema, ws[p] = Ctor(d)
  PROVE  Goes(ws, p, On(Elements(h + 1), S), p + 1, On(Obj(d, 1, {}), On(Elements(h), S)))
<1>0. p \in Nat \ {0} /\ Len(ws) \in Nat
  BY DEF Word
<1>1. Elements(h + 1) \in Frame /\ Elements(h) \in Frame
  BY FramesTyped
<1> DEFINE Z == On(Elements(h), S)
<1>2. Z \in Seq(Frame) /\ Len(Z) <= MaxDepth
  BY <1>1, OnTyped DEF MaxDepth
<1> HIDE DEF Z
<1>3. ASSUME NEW t \in Seq(Entry)
      PROVE  \E u \in Seq(Entry) : Step(ws, Reading(p, 0, On(Elements(h + 1), S), t)) =
                                     Reading(p + 1, 0, On(Obj(d, 1, {}), Z), u)
  <2> DEFINE k == h + 1
  <2>1. k \in Nat /\ k # 0 /\ k - 1 = h
    OBVIOUS
  <2> HIDE DEF k
  <2>2. Step(ws, Reading(p, 0, On(Elements(k), S), t)) = DecodeBoxed(ws, Reading(p, 0, Z, t))
    BY <2>1, StepsElement DEF Z
  <2>3. \E u \in Seq(Entry) :
          DecodeBoxed(ws, Reading(p, 0, Z, t)) = Reading(p + 1, 0, On(Obj(d, 1, {}), Z), u)
    BY <1>2, Begins
  <2> QED
    BY <2>2, <2>3 DEF k
<1>4. Goes(ws, p, On(Elements(h + 1), S), p + 1, On(Obj(d, 1, {}), Z))
  <2> DEFINE f == Elements(h + 1)
  <2> HIDE DEF f
  <2>1. f \in Frame
    BY <1>1 DEF f
  <2>2. \A t \in Seq(Entry) : \E u \in Seq(Entry) :
          Step(ws, Reading(p, 0, On(f, S), t)) = Reading(p + 1, 0, On(Obj(d, 1, {}), Z), u)
    BY <1>3 DEF f
  <2>3. Goes(ws, p, On(f, S), p + 1, On(Obj(d, 1, {}), Z))
    BY <1>0, <2>1, <2>2, StepGoes
  <2> QED
    BY <2>3 DEF f
<1> QED
  BY <1>4 DEF Z

\* What cannot be entered.
Unreadable(ws, p) == p > Len(ws) \/ ws[p].is # "ctor" \/ ws[p].name \notin DOMAIN Schema

\* Where no known constructor stands no boxed object begins ...
LEMMA CannotBegin ==
  ASSUME NEW ws, NEW p, NEW S, NEW t, Unreadable(ws, p)
  PROVE  DecodeBoxed(ws, Reading(p, 0, S, t)) = Reading(p, 1, Nothing, t)
BY ReadsBoxed DEF Unreadable

\* ... so an element of a vector fails there ...
LEMMA ElementFails ==
  ASSUME NEW ws \in Seq(Word), NEW p \in Nat \ {0}, NEW S \in Seq(Frame), NEW k \in Nat \ {0},
         Unreadable(ws, p)
  PROVE  Fails(ws, p, On(Elements(k), S))
<1>1. Elements(k) \in Frame
  BY FramesTyped
<1>2. ASSUME NEW t \in Seq(Entry)
      PROVE  Step(ws, Reading(p, 0, On(Elements(k), S), t)) = Reading(p, 1, Nothing, t)
  <2>1. Step(ws, Reading(p, 0, On(Elements(k), S), t)) =
          DecodeBoxed(ws, Reading(p, 0, On(Elements(k - 1), S), t))
    BY StepsElement
  <2> QED
    BY <2>1, CannotBegin
<1> QED
  BY <1>1, <1>2, StepFails

\* ... and so does a boxed parameter.
LEMMA ParamFails ==
  ASSUME NEW ws \in Seq(Word), NEW p \in Nat \ {0}, NEW S \in Seq(Frame),
         NEW c \in DOMAIN Schema, NEW k \in 1 .. Len(Schema[c]), NEW bits \in SUBSET Text,
         There(Schema[c][k], bits), Schema[c][k].kind = "boxed", Unreadable(ws, p)
  PROVE  Fails(ws, p, On(Obj(c, k, bits), S))
<1>1. Obj(c, k, bits) \in Frame /\ c \in Text /\ Schema[c][k].name \in Text
  BY AtParam
<1>2. ASSUME NEW t \in Seq(Entry)
      PROVE  \E u \in Seq(Entry) :
               Step(ws, Reading(p, 0, On(Obj(c, k, bits), S), t)) = Reading(p, 1, Nothing, u)
  <2> DEFINE u == Also(t, c, Schema[c][k].name, p, 1)
  <2>1. Step(ws, Reading(p, 0, On(Obj(c, k, bits), S), t)) = ParamStep(ws, p, 0, c, k, bits, S, t)
    BY StepsParam
  <2>2. ParamStep(ws, p, 0, c, k, bits, S, t) =
          DecodeBoxed(ws, Reading(p, 0, On(Obj(c, k + 1, bits), S), u))
    BY DEF ParamStep, DecodeValue
  <2>3. u \in Seq(Entry)
    BY <1>1, AlsoTyped
  <2>4. DecodeBoxed(ws, Reading(p, 0, On(Obj(c, k + 1, bits), S), u)) = Reading(p, 1, Nothing, u)
    BY CannotBegin
  <2> QED
    BY <2>1, <2>2, <2>3, <2>4
<1> QED
  BY <1>1, <1>2, StepFails

\* A whole walk: of its object, or of none.
LEMMA WalkBegins ==
  ASSUME NEW ws \in Seq(Word), NEW d \in DOMAIN Schema, 1 <= Len(ws), ws[1] = Ctor(d)
  PROVE  \E u \in Seq(Entry) : Walk(ws) = WalkOn(ws)[Reading(2, 0, On(Obj(d, 1, {}), Nothing), u)]
<1> DEFINE none == <<>>
<1>1. none \in Seq(Entry)
  OBVIOUS
<1> HIDE DEF none
<1>2. Len(Nothing) <= MaxDepth /\ Nothing \in Seq(Frame) /\ 1 \in 1 .. Len(ws) /\ 1 + 1 = 2
  BY NothingTyped, LenProperties DEF MaxDepth
<1>3. Walk(ws) = WalkOn(ws)[DecodeBoxed(ws, Reading(1, 0, Nothing, none))]
  BY DEF Walk, Reader, Nothing, none
<1>4. \E u \in Seq(Entry) : DecodeBoxed(ws, Reading(1, 0, Nothing, none)) =
                              Reading(2, 0, On(Obj(d, 1, {}), Nothing), u)
  BY <1>1, <1>2, Begins
<1> QED
  BY <1>3, <1>4

\* The walk of a buffer that begins with no known constructor fails.
LEMMA WalkCannotBegin ==
  ASSUME NEW ws \in Seq(Word), Unreadable(ws, 1)
  PROVE  Walk(ws).err = 1
<1> DEFINE none == <<>>
<1>1. none \in Seq(Entry)
  OBVIOUS
<1> HIDE DEF none
<1>2. Walk(ws) = WalkOn(ws)[DecodeBoxed(ws, Reading(1, 0, Nothing, none))]
  BY DEF Walk, Reader, Nothing, none
<1>3. DecodeBoxed(ws, Reading(1, 0, Nothing, none)) = Reading(1, 1, Nothing, none)
  BY CannotBegin
<1>4. WalkOn(ws)[Reading(1, 1, Nothing, none)] = Reading(1, 1, Nothing, none)
  BY <1>1, WalkEnds
<1>5. Reading(1, 1, Nothing, none).err = 1
  BY ReadingGet
<1> QED
  BY <1>2, <1>3, <1>4, <1>5

----------------------------------------------------------------------------
(* The constructors of a reply with users.                                 *)

ParamIs(c, k, kind, gate) ==
  /\ c \in DOMAIN Schema /\ k \in 1 .. Len(Schema[c])
  /\ Schema[c][k].kind = kind /\ Schema[c][k].gate = gate

\* The parameters of a user.
LEMMA UserSchema ==
  /\ Len(Schema["user"]) = 7
  /\ ParamIs("user", 1, "flags", Always) /\ ParamIs("user", 2, "scalar", Always)
  /\ ParamIs("user", 3, "scalar", "first_name")
  /\ ParamIs("user", 4, "vector", "restriction_reason")
  /\ ParamIs("user", 5, "boxed", "emoji_status")
  /\ ParamIs("user", 6, "vector", "usernames") /\ ParamIs("user", 7, "scalar", "color")
BY DEF ParamIs, Schema, Param

\* The parameters of what a user consists of.
LEMMA SmallSchemas ==
  /\ Len(Schema["username"]) = 2
  /\ ParamIs("username", 1, "flags", Always) /\ ParamIs("username", 2, "scalar", Always)
  /\ Len(Schema["restrictionReason"]) = 1 /\ ParamIs("restrictionReason", 1, "scalar", Always)
  /\ "emojiStatusEmpty" \in DOMAIN Schema /\ Len(Schema["emojiStatusEmpty"]) = 0
  /\ Len(Schema["emojiStatus"]) = 3
  /\ ParamIs("emojiStatus", 1, "flags", Always) /\ ParamIs("emojiStatus", 2, "scalar", Always)
  /\ ParamIs("emojiStatus", 3, "scalar", "until")
  /\ Len(Schema["userFull"]) = 2
  /\ ParamIs("userFull", 1, "scalar", Always) /\ ParamIs("userFull", 2, "vector", Always)
BY DEF ParamIs, Schema, Param

\* What stands between the ends of the words is a word.
LEMMA Positions ==
  ASSUME NEW ws \in Seq(Word), NEW p \in Nat \ {0}
  PROVE  /\ Len(ws) \in Nat
         /\ p <= Len(ws) => p \in 1 .. Len(ws) /\ ws[p] \in Word /\ ws[p].bits \in SUBSET Text
<1>1. Len(ws) \in Nat
  BY LenProperties
<1>2. ASSUME p <= Len(ws)
      PROVE  p \in 1 .. Len(ws) /\ ws[p] \in Word /\ ws[p].bits \in SUBSET Text
  <2>1. p \in 1 .. Len(ws)
    BY <1>1, <1>2
  <2>2. ws[p] \in Word
    BY <2>1, ElementOfSeq
  <2>3. \A w \in Word : w.bits \in SUBSET Text
    BY DEF Word
  <2> QED
    BY <2>1, <2>2, <2>3
<1> QED
  BY <1>1, <1>2

\* A gated parameter of one word.
LEMMA OptionalScalar ==
  ASSUME NEW ws \in Seq(Word), NEW p \in Nat \ {0}, NEW S \in Seq(Frame),
         NEW c, NEW k, NEW gate, ParamIs(c, k, "scalar", gate), NEW bits \in SUBSET Text,
         gate = Always \/ gate \in bits => p <= Len(ws),
         NEW q, q = IF gate = Always \/ gate \in bits THEN p + 1 ELSE p
  PROVE  Goes(ws, p, On(Obj(c, k, bits), S), q, On(Obj(c, k + 1, bits), S))
<1>1. c \in DOMAIN Schema /\ k \in 1 .. Len(Schema[c])
  BY DEF ParamIs
<1>2. CASE gate = Always \/ gate \in bits
  <2>1. There(Schema[c][k], bits) /\ Schema[c][k].kind = "scalar"
    BY <1>2 DEF ParamIs, There
  <2>2. p \in 1 .. Len(ws)
    BY <1>2, Positions
  <2>3. Goes(ws, p, On(Obj(c, k, bits), S), p + 1, On(Obj(c, k + 1, bits), S))
    BY <1>1, <2>1, <2>2, ReadParam
  <2> QED
    BY <1>2, <2>3
<1>3. CASE ~(gate = Always \/ gate \in bits)
  <2>1. ~There(Schema[c][k], bits) /\ Schema[c][k].kind # "flags"
    BY <1>3 DEF ParamIs, There
  <2>2. Goes(ws, p, On(Obj(c, k, bits), S), p, On(Obj(c, k + 1, bits), S))
    BY <1>1, <2>1, PassParam
  <2> QED
    BY <1>3, <2>2
<1> QED
  BY <1>2, <1>3

\* A flags word.
LEMMA FlagsParam ==
  ASSUME NEW ws \in Seq(Word), NEW p \in 1 .. Len(ws), NEW S \in Seq(Frame),
         NEW c, NEW k, ParamIs(c, k, "flags", Always), NEW bits \in SUBSET Text
  PROVE  Goes(ws, p, On(Obj(c, k, bits), S), p + 1, On(Obj(c, k + 1, ws[p].bits), S))
<1>1. c \in DOMAIN Schema /\ k \in 1 .. Len(Schema[c])
  BY DEF ParamIs
<1>2. There(Schema[c][k], bits) /\ Schema[c][k].kind = "flags"
  BY DEF ParamIs, There
<1> QED
  BY <1>1, <1>2, ReadParam

\* A stack above which there is room to read an item of a vector.
Shallow(S, d) == S \in Seq(Frame) /\ Len(S) < d

\* A stack with a frame more is shallow still, if there was room.
LEMMA ShallowOn ==
  ASSUME NEW d \in 0 .. 20, NEW S, Shallow(S, d), NEW f \in Frame
  PROVE  /\ S \in Seq(Frame) /\ Len(S) \in Nat /\ Len(S) < MaxDepth
         /\ On(f, S) \in Seq(Frame) /\ Shallow(On(f, S), d + 1)
<1>1. S \in Seq(Frame) /\ Len(S) < d
  BY DEF Shallow
<1>2. On(f, S) \in Seq(Frame) /\ Len(On(f, S)) = Len(S) + 1 /\ Len(S) \in Nat
  BY <1>1, OnTyped
<1> QED
  BY <1>1, <1>2 DEF MaxDepth, Shallow

\* The body of an object that is a flags word and a scalar.
LEMMA UsernameBody ==
  ASSUME NEW ws \in Seq(Word), NEW p \in Nat \ {0}, p + 1 <= Len(ws), NEW S \in Seq(Frame)
  PROVE  Goes(ws, p, On(Obj("username", 1, {}), S), p + 2, S)
<1> DEFINE b == ws[p].bits
<1>1. /\ p \in 1 .. Len(ws) /\ b \in SUBSET Text /\ {} \in SUBSET Text
      /\ p + 1 \in Nat \ {0} /\ p + 2 \in Nat \ {0} /\ p + 1 + 1 = p + 2
  BY Positions
<1> HIDE DEF b
<1>2. Goes(ws, p, On(Obj("username", 1, {}), S), p + 1, On(Obj("username", 2, b), S))
  BY <1>1, SmallSchemas, FlagsParam DEF b
<1>3. Goes(ws, p + 1, On(Obj("username", 2, b), S), p + 2, On(Obj("username", 3, b), S))
  BY <1>1, SmallSchemas, OptionalScalar
<1>4. Goes(ws, p + 2, On(Obj("username", 3, b), S), p + 2, S)
  <2>1. "username" \in DOMAIN Schema /\ 3 \in Nat \ {0} /\ 3 > Len(Schema["username"])
    BY SmallSchemas DEF ParamIs
  <2> QED
    BY <1>1, <2>1, LeaveObject
<1> QED
  BY <1>2, <1>3, <1>4, GoesOn

----------------------------------------------------------------------------
(* Rows of objects, as the elements of a vector.                           *)

\* From p to q there is an object that is read as an element of any vector; sure
\* is 0 if the walk may fail in it.
Item(ws, p, q, d, sure) ==
  /\ p \in Nat \ {0} /\ q \in Nat \ {0} /\ p < q
  /\ \A S : Shallow(S, d) => \A h \in Nat :
       \/ Goes(ws, p, On(Elements(h + 1), S), q, On(Elements(h), S))
       \/ sure = 0 /\ Fails(ws, p, On(Elements(h + 1), S))

\* From p to q there are m of them.
Row(ws, p, m, q, d, sure) ==
  \E f \in [0 .. m -> Nat \ {0}] :
    /\ f[0] = p /\ f[m] = q
    /\ \A j \in 0 .. m - 1 : Item(ws, f[j], f[j + 1], d, sure)

\* A username is an item.
LEMMA UsernameItem ==
  ASSUME NEW ws \in Seq(Word), NEW p \in Nat \ {0}, p + 2 <= Len(ws), ws[p] = Ctor("username")
  PROVE  Item(ws, p, p + 3, 20, 1)
<1>1. /\ p \in 1 .. Len(ws) /\ p + 1 \in Nat \ {0} /\ p + 1 + 1 <= Len(ws) /\ p + 1 + 2 = p + 3
      /\ "username" \in DOMAIN Schema
  BY Positions, SmallSchemas DEF ParamIs
<1>2. ASSUME NEW S, Shallow(S, 20), NEW h \in Nat
      PROVE  Goes(ws, p, On(Elements(h + 1), S), p + 3, On(Elements(h), S))
  <2> DEFINE Z == On(Elements(h), S)
  <2>1. S \in Seq(Frame) /\ Len(S) < MaxDepth /\ Z \in Seq(Frame)
    BY <1>2, ShallowOn, FramesTyped
  <2>2. Goes(ws, p, On(Elements(h + 1), S), p + 1, On(Obj("username", 1, {}), Z))
    BY <1>1, <2>1, EnterElement
  <2> HIDE DEF Z
  <2>3. Goes(ws, p + 1, On(Obj("username", 1, {}), Z), p + 3, Z)
    <3> DEFINE r == p + 1
    <3>1. r \in Nat \ {0} /\ r + 1 <= Len(ws) /\ r + 2 = p + 3
      BY <1>1
    <3> HIDE DEF r
    <3>2. Goes(ws, r, On(Obj("username", 1, {}), Z), r + 2, Z)
      BY <2>1, <3>1, UsernameBody
    <3> QED
      BY <3>1, <3>2 DEF r
  <2>4. Goes(ws, p, On(Elements(h + 1), S), p + 3, Z)
    BY <2>2, <2>3, GoesOn DEF Z
  <2> QED
    BY <2>4 DEF Z
<1> QED
  BY <1>2 DEF Item

\* No items are a row.
LEMMA RowOfNone ==
  ASSUME NEW ws, NEW p \in Nat \ {0}, NEW d, NEW sure
  PROVE  Row(ws, p, 0, p, d, sure)
<1> DEFINE f == [j \in 0 .. 0 |-> p]
<1>1. f \in [0 .. 0 -> Nat \ {0}] /\ f[0] = p
  OBVIOUS
<1>2. \A j \in 0 .. 0 - 1 : FALSE
  OBVIOUS
<1> HIDE DEF f
<1> QED
  BY <1>1, <1>2 DEF Row

\* One item is a row.
LEMMA RowOfOne ==
  ASSUME NEW ws, NEW p, NEW q, NEW d, NEW sure, Item(ws, p, q, d, sure)
  PROVE  Row(ws, p, 1, q, d, sure)
<1> DEFINE f == [j \in 0 .. 1 |-> IF j = 0 THEN p ELSE q]
<1>1. f \in [0 .. 1 -> Nat \ {0}] /\ f[0] = p /\ f[1] = q
  BY DEF Item
<1>2. \A j \in 0 .. 1 - 1 : j = 0 /\ j + 1 = 1
  OBVIOUS
<1> HIDE DEF f
<1> QED
  BY <1>1, <1>2 DEF Row

\* A row behind a row is a row.
LEMMA RowsJoin ==
  ASSUME NEW ws, NEW p, NEW q, NEW e, NEW a \in Nat, NEW b \in Nat, NEW d, NEW sure,
         Row(ws, p, a, q, d, sure), Row(ws, q, b, e, d, sure)
  PROVE  Row(ws, p, a + b, e, d, sure)
<1>1. PICK f \in [0 .. a -> Nat \ {0}] :
        f[0] = p /\ f[a] = q /\ \A j \in 0 .. a - 1 : Item(ws, f[j], f[j + 1], d, sure)
  BY DEF Row
<1>2. PICK g \in [0 .. b -> Nat \ {0}] :
        g[0] = q /\ g[b] = e /\ \A j \in 0 .. b - 1 : Item(ws, g[j], g[j + 1], d, sure)
  BY DEF Row
<1> DEFINE h == [j \in 0 .. a + b |-> IF j <= a THEN f[j] ELSE g[j - a]]
<1>3. h \in [0 .. a + b -> Nat \ {0}]
  <2>1. ASSUME NEW j \in 0 .. a + b
        PROVE  h[j] \in Nat \ {0}
    <3>1. j <= a => j \in 0 .. a
      OBVIOUS
    <3>2. ~(j <= a) => j - a \in 0 .. b
      OBVIOUS
    <3> QED
      BY <1>1, <1>2, <3>1, <3>2
  <2> QED
    BY <2>1
<1>4. h[0] = p
  BY <1>1
<1>5. h[a + b] = e
  <2>1. CASE b = 0
    BY <1>1, <1>2, <2>1
  <2>2. CASE b # 0
    BY <1>2, <2>2
  <2> QED
    BY <2>1, <2>2
<1>6. ASSUME NEW j \in 0 .. a + b - 1
      PROVE  Item(ws, h[j], h[j + 1], d, sure)
  <2>1. CASE j < a
    <3>1. h[j] = f[j] /\ h[j + 1] = f[j + 1] /\ j \in 0 .. a - 1
      BY <2>1
    <3> HIDE DEF h
    <3> QED
      BY <1>1, <3>1
  <2>2. CASE ~(j < a)
    <3>1. j - a \in 0 .. b - 1 /\ h[j + 1] = g[j - a + 1]
      BY <2>2
    <3>2. h[j] = g[j - a]
      <4>1. CASE j = a
        <5>1. h[j] = f[a] /\ j - a = 0
          BY <4>1
        <5> HIDE DEF h
        <5> QED
          BY <1>1, <1>2, <5>1
      <4>2. CASE j # a
        BY <2>2, <4>2
      <4> QED
        BY <4>1, <4>2
    <3> DEFINE i == j - a
    <3> HIDE DEF h, i
    <3>3. i \in 0 .. b - 1 /\ h[j + 1] = g[i + 1] /\ h[j] = g[i]
      BY <3>1, <3>2 DEF i
    <3> QED
      BY <1>2, <3>3
  <2> QED
    BY <2>1, <2>2
<1> HIDE DEF h
<1> DEFINE m == a + b
<1>7. h \in [0 .. m -> Nat \ {0}] /\ h[0] = p /\ h[m] = e
  BY <1>3, <1>4, <1>5
<1>8. \A j \in 0 .. m - 1 : Item(ws, h[j], h[j + 1], d, sure)
  BY <1>6
<1> HIDE DEF m
<1>9. Row(ws, p, m, e, d, sure)
  BY <1>7, <1>8 DEF Row
<1> QED
  BY <1>9 DEF m

\* The first object of a row, and what is left of it.
LEMMA RowBegins ==
  ASSUME NEW ws, NEW p, NEW m \in Nat, NEW e, NEW d, NEW sure, Row(ws, p, m + 1, e, d, sure)
  PROVE  \E q : Item(ws, p, q, d, sure) /\ Row(ws, q, m, e, d, sure)
<1>1. PICK f \in [0 .. m + 1 -> Nat \ {0}] :
        f[0] = p /\ f[m + 1] = e /\ \A j \in 0 .. m + 1 - 1 : Item(ws, f[j], f[j + 1], d, sure)
  BY DEF Row
<1> DEFINE g == [j \in 0 .. m |-> f[j + 1]]
<1>2. g \in [0 .. m -> Nat \ {0}] /\ g[0] = f[1] /\ g[m] = e
  BY <1>1
<1>3. \A j \in 0 .. m - 1 : j + 1 \in 0 .. m + 1 - 1 /\ g[j] = f[j + 1] /\ g[j + 1] = f[j + 1 + 1]
  OBVIOUS
<1> HIDE DEF g
<1>4. \A j \in 0 .. m - 1 : Item(ws, g[j], g[j + 1], d, sure)
  BY <1>1, <1>3
<1>5. Row(ws, f[1], m, e, d, sure)
  BY <1>2, <1>4 DEF Row
<1>6. 0 \in 0 .. m + 1 - 1 /\ 0 + 1 = 1
  OBVIOUS
<1>7. Item(ws, p, f[1], d, sure)
  BY <1>1, <1>6
<1> QED
  BY <1>5, <1>7

\* A row of none ends where it begins.
LEMMA RowOfNoneIs ==
  ASSUME NEW ws, NEW p, NEW e, NEW d, NEW sure, Row(ws, p, 0, e, d, sure)
  PROVE  p = e /\ p \in Nat \ {0}
BY DEF Row

\* A row is not empty, and ends behind where it begins.
LEMMA RowGrows ==
  ASSUME NEW ws, NEW d, NEW sure
  PROVE  \A m \in Nat : \A p, e : Row(ws, p, m, e, d, sure) =>
           p \in Nat \ {0} /\ e \in Nat \ {0} /\ p + m <= e
<1> DEFINE T == {m \in Nat : \A p, e : Row(ws, p, m, e, d, sure) =>
                   p \in Nat \ {0} /\ e \in Nat \ {0} /\ p + m <= e}
<1>1. 0 \in T
  BY RowOfNoneIs
<1>2. ASSUME NEW m \in Nat, m \in T
      PROVE  m + 1 \in T
  <2> SUFFICES ASSUME NEW p, NEW e, Row(ws, p, m + 1, e, d, sure)
               PROVE  p \in Nat \ {0} /\ e \in Nat \ {0} /\ p + (m + 1) <= e
    OBVIOUS
  <2>1. PICK q : Item(ws, p, q, d, sure) /\ Row(ws, q, m, e, d, sure)
    BY RowBegins
  <2>2. q \in Nat \ {0} /\ e \in Nat \ {0} /\ q + m <= e
    BY <1>2, <2>1
  <2>3. p \in Nat \ {0} /\ p < q
    BY <2>1 DEF Item
  <2> QED
    BY <2>2, <2>3
<1> HIDE DEF T
<1>3. Nat \subseteq T
  BY <1>1, <1>2, Inductive
<1> QED
  BY <1>3 DEF T

\* x objects of a row are read, y are left to be read.
ReadsSome(ws, S, x, p, m, e, d, sure) ==
  \E q : /\ Row(ws, q, m - x, e, d, sure)
         /\ \A y \in Nat : \/ Goes(ws, p, On(Elements(x + y), S), q, On(Elements(y), S))
                           \/ sure = 0 /\ Fails(ws, p, On(Elements(x + y), S))

\* Some items of a row are read, one after the other, or the walk fails.
LEMMA RowReads ==
  ASSUME NEW ws, NEW d, NEW sure, NEW S, Shallow(S, d), NEW x \in Nat, NEW m \in Nat, x <= m,
         NEW p, NEW e, Row(ws, p, m, e, d, sure)
  PROVE  ReadsSome(ws, S, x, p, m, e, d, sure)
<1> DEFINE Ends(a, b, i) ==
             \A y \in Nat : \/ Goes(ws, a, On(Elements(i + y), S), b, On(Elements(y), S))
                            \/ sure = 0 /\ Fails(ws, a, On(Elements(i + y), S))
           T == {i \in Nat : \A a, b : \A j \in Nat : i <= j /\ Row(ws, a, j, b, d, sure) =>
                   \E c : Row(ws, c, j - i, b, d, sure) /\ Ends(a, c, i)}
<1>1. 0 \in T
  <2>1. ASSUME NEW a
        PROVE  Ends(a, a, 0)
    <3>1. \A y \in Nat : 0 + y = y
      OBVIOUS
    <3> QED
      BY <3>1, GoesNowhere
  <2>2. \A j \in Nat : j - 0 = j
    OBVIOUS
  <2> HIDE DEF Ends
  <2> QED
    BY <2>1, <2>2
<1>2. ASSUME NEW i \in Nat, i \in T
      PROVE  i + 1 \in T
  <2> SUFFICES ASSUME NEW a, NEW b, NEW j \in Nat, i + 1 <= j, Row(ws, a, j, b, d, sure)
               PROVE  \E c : Row(ws, c, j - (i + 1), b, d, sure) /\ Ends(a, c, i + 1)
    <3> HIDE DEF Ends
    <3> QED
      OBVIOUS
  <2> DEFINE o == j - 1
  <2>1. o \in Nat /\ j = o + 1 /\ i <= o /\ j - (i + 1) = o - i
    OBVIOUS
  <2> HIDE DEF o
  <2>2. PICK g : Item(ws, a, g, d, sure) /\ Row(ws, g, o, b, d, sure)
    BY <2>1, RowBegins
  <2>3. PICK c : Row(ws, c, o - i, b, d, sure) /\ Ends(g, c, i)
    <3> HIDE DEF Ends
    <3> QED
      BY <1>2, <2>1, <2>2
  <2>4. ASSUME NEW y \in Nat
        PROVE  \/ Goes(ws, a, On(Elements(i + 1 + y), S), c, On(Elements(y), S))
               \/ sure = 0 /\ Fails(ws, a, On(Elements(i + 1 + y), S))
    <3> DEFINE h == i + y
    <3>1. h \in Nat /\ i + 1 + y = h + 1
      OBVIOUS
    <3>2. \/ Goes(ws, g, On(Elements(h), S), c, On(Elements(y), S))
          \/ sure = 0 /\ Fails(ws, g, On(Elements(h), S))
      BY <2>3
    <3> HIDE DEF h
    <3>3. \/ Goes(ws, a, On(Elements(h + 1), S), g, On(Elements(h), S))
          \/ sure = 0 /\ Fails(ws, a, On(Elements(h + 1), S))
      BY <2>2, <3>1 DEF Item
    <3>4. \/ Goes(ws, a, On(Elements(h + 1), S), c, On(Elements(y), S))
          \/ sure = 0 /\ Fails(ws, a, On(Elements(h + 1), S))
      BY <3>2, <3>3, GoesOn, GoesToFail
    <3> QED
      BY <3>1, <3>4
  <2>5. Ends(a, c, i + 1)
    BY <2>4
  <2> HIDE DEF Ends
  <2> QED
    BY <2>1, <2>3, <2>5
<1> HIDE DEF T
<1>3. Nat \subseteq T
  BY <1>1, <1>2, Inductive
<1>4. x \in T
  BY <1>3
<1>5. \E c : Row(ws, c, m - x, e, d, sure) /\ Ends(p, c, x)
  <2> HIDE DEF Ends
  <2> QED
    BY <1>4 DEF T
<1> QED
  BY <1>5 DEF ReadsSome

\* Items that may lie deep may lie less deep.
LEMMA RowShallower ==
  ASSUME NEW ws, NEW p, NEW m, NEW q, NEW d \in Nat, NEW dd \in Nat, dd <= d, NEW sure,
         Row(ws, p, m, q, d, sure)
  PROVE  Row(ws, p, m, q, dd, sure)
<1>1. ASSUME NEW S, Shallow(S, dd)
      PROVE  Shallow(S, d)
  <2>1. S \in Seq(Frame) /\ Len(S) < dd /\ Len(S) \in Nat
    BY <1>1, LenProperties DEF Shallow
  <2> QED
    BY <2>1 DEF Shallow
<1>2. \A a, b : Item(ws, a, b, d, sure) => Item(ws, a, b, dd, sure)
  BY <1>1 DEF Item
<1> QED
  BY <1>2 DEF Row

\* The emoji status of a user: its words, and the word behind them.
StatusIs(ws, p, q) ==
  \/ ws[p] = Ctor("emojiStatusEmpty") /\ q = p + 1
  \/ ws[p] = Ctor("emojiStatus") /\ "until" \in ws[p + 1].bits /\ q = p + 4
  \/ ws[p] = Ctor("emojiStatus") /\ "until" \notin ws[p + 1].bits /\ q = p + 3

\* What is behind the constructor of an emoji status is read.
LEMMA StatusBody ==
  ASSUME NEW ws \in Seq(Word), NEW p \in Nat \ {0}, NEW q \in Nat, q <= Len(ws) + 1,
         q = IF "until" \in ws[p].bits THEN p + 3 ELSE p + 2, NEW S \in Seq(Frame)
  PROVE  Goes(ws, p, On(Obj("emojiStatus", 1, {}), S), q, S)
<1> DEFINE b == ws[p].bits
           r == p + 1
           s == p + 2
<1>1. /\ p \in 1 .. Len(ws) /\ b \in SUBSET Text /\ {} \in SUBSET Text
      /\ r \in Nat \ {0} /\ s \in Nat \ {0} /\ q \in Nat \ {0} /\ r + 1 = s /\ r <= Len(ws)
      /\ Len(ws) \in Nat
  <2>1. q >= p + 2 /\ Len(ws) \in Nat
    BY Positions
  <2>2. p <= Len(ws) /\ p + 1 <= Len(ws) /\ q # 0
    BY <2>1
  <2>3. p \in 1 .. Len(ws) /\ b \in SUBSET Text
    BY <2>2, Positions
  <2> HIDE DEF b
  <2> QED
    BY <2>1, <2>2, <2>3
<1>q. ("until" \in b => q = s + 1) /\ ("until" \notin b => q = s)
  OBVIOUS
<1> HIDE DEF b
<1>2. Goes(ws, p, On(Obj("emojiStatus", 1, {}), S), r, On(Obj("emojiStatus", 2, b), S))
  BY <1>1, SmallSchemas, FlagsParam DEF b
<1> HIDE DEF r, s
<1>3. Goes(ws, r, On(Obj("emojiStatus", 2, b), S), s, On(Obj("emojiStatus", 3, b), S))
  BY <1>1, SmallSchemas, OptionalScalar
<1>4. Goes(ws, s, On(Obj("emojiStatus", 3, b), S), q, On(Obj("emojiStatus", 4, b), S))
  <2>1. "until" # Always
    BY DEF Always
  <2>2. "until" = Always \/ "until" \in b => s <= Len(ws)
    BY <1>1, <1>q, <2>1
  <2>3. q = IF "until" = Always \/ "until" \in b THEN s + 1 ELSE s
    BY <1>q, <2>1
  <2> QED
    <3> DEFINE k == 3
               gate == "until"
    <3>1. ParamIs("emojiStatus", k, "scalar", gate) /\ k + 1 = 4
      BY SmallSchemas
    <3>2. gate = Always \/ gate \in b => s <= Len(ws)
      BY <2>2
    <3>3. q = IF gate = Always \/ gate \in b THEN s + 1 ELSE s
      BY <2>3
    <3> HIDE DEF k, gate
    <3>4. Goes(ws, s, On(Obj("emojiStatus", k, b), S), q, On(Obj("emojiStatus", k + 1, b), S))
      BY <1>1, <3>1, <3>2, <3>3, OptionalScalar
    <3> QED
      BY <3>1, <3>4 DEF k
<1>5. Goes(ws, q, On(Obj("emojiStatus", 4, b), S), q, S)
  <2>1. "emojiStatus" \in DOMAIN Schema /\ 4 \in Nat \ {0} /\ 4 > Len(Schema["emojiStatus"])
    BY SmallSchemas DEF ParamIs
  <2> QED
    BY <1>1, <2>1, LeaveObject
<1> QED
  BY <1>2, <1>3, <1>4, <1>5, GoesOn

\* An emoji status is read to its end.
LEMMA ReadsStatus ==
  ASSUME NEW ws \in Seq(Word), NEW p \in Nat \ {0}, NEW q \in Nat, q <= Len(ws) + 1,
         StatusIs(ws, p, q), NEW bits \in SUBSET Text, "emoji_status" \in bits,
         NEW S, Shallow(S, 10)
  PROVE  Goes(ws, p, On(Obj("user", 5, bits), S), q, On(Obj("user", 6, bits), S))
<1> DEFINE Z == On(Obj("user", 6, bits), S)
           r == p + 1
<1>1. /\ S \in Seq(Frame) /\ Len(S) < MaxDepth /\ Z \in Seq(Frame)
      /\ p \in 1 .. Len(ws) /\ r \in Nat \ {0} /\ r - 1 = p /\ q \in Nat \ {0}
  <2>1. Obj("user", 6, bits) \in Frame
    BY FramesTyped, UserSchema DEF ParamIs
  <2>2. p < q /\ Len(ws) \in Nat
    BY Positions DEF StatusIs
  <2>3. p \in 1 .. Len(ws) /\ r \in Nat \ {0} /\ r - 1 = p /\ q \in Nat \ {0}
    BY <2>2
  <2> QED
    BY <2>1, <2>3, ShallowOn
<1>2. /\ "user" \in DOMAIN Schema /\ 5 \in 1 .. Len(Schema["user"])
      /\ There(Schema["user"][5], bits) /\ Schema["user"][5].kind = "boxed"
  BY UserSchema DEF ParamIs, There
<1>3. \A c \in DOMAIN Schema : ws[p] = Ctor(c) =>
        Goes(ws, p, On(Obj("user", 5, bits), S), r, On(Obj(c, 1, {}), Z))
  <2> SUFFICES ASSUME NEW c \in DOMAIN Schema, ws[p] = Ctor(c)
               PROVE  Goes(ws, p, On(Obj("user", 5, bits), S), r, On(Obj(c, 1, {}), Z))
    OBVIOUS
  <2> DEFINE k == 5
  <2>1. k + 1 = 6
    OBVIOUS
  <2>2. k \in 1 .. Len(Schema["user"]) /\ There(Schema["user"][k], bits) /\ Schema["user"][k].kind = "boxed"
    BY <1>2
  <2> HIDE DEF k
  <2>3. Goes(ws, p, On(Obj("user", k, bits), S), p + 1, On(Obj(c, 1, {}), On(Obj("user", k + 1, bits), S)))
    BY <1>1, <1>2, <2>2, EnterParam
  <2> QED
    BY <2>1, <2>3 DEF k
<1> HIDE DEF Z
<1>4. CASE ws[p] = Ctor("emojiStatusEmpty")
  <2>1. q = r
    <3>1. "emojiStatusEmpty" # "emojiStatus"
      OBVIOUS
    <3>2. Ctor("emojiStatusEmpty") # Ctor("emojiStatus")
      BY <3>1, WordsAre
    <3> QED
      BY <1>4, <3>2 DEF StatusIs
  <2> HIDE DEF r
  <2>2. Goes(ws, p, On(Obj("user", 5, bits), S), r, On(Obj("emojiStatusEmpty", 1, {}), Z))
    BY <1>3, <1>4, SmallSchemas
  <2>3. Goes(ws, r, On(Obj("emojiStatusEmpty", 1, {}), Z), r, Z)
    <3>1. 1 \in Nat \ {0} /\ 1 > Len(Schema["emojiStatusEmpty"]) /\ {} \in SUBSET Text
      BY SmallSchemas
    <3> QED
      BY <1>1, <3>1, SmallSchemas, LeaveObject
  <2> QED
    BY <2>1, <2>2, <2>3, GoesOn DEF Z
<1>5. CASE ws[p] = Ctor("emojiStatus")
  <2>1. q = IF "until" \in ws[r].bits THEN r + 3 ELSE r + 2
    <3>1. "emojiStatusEmpty" # "emojiStatus"
      OBVIOUS
    <3>2. Ctor("emojiStatusEmpty") # Ctor("emojiStatus")
      BY <3>1, WordsAre
    <3> QED
      BY <1>5, <3>2 DEF StatusIs
  <2> HIDE DEF r
  <2>2. Goes(ws, p, On(Obj("user", 5, bits), S), r, On(Obj("emojiStatus", 1, {}), Z))
    BY <1>3, <1>5, SmallSchemas DEF ParamIs
  <2>3. Goes(ws, r, On(Obj("emojiStatus", 1, {}), Z), q, Z)
    BY <1>1, <2>1, StatusBody
  <2> QED
    BY <2>2, <2>3, GoesOn DEF Z
<1> QED
  BY <1>4, <1>5 DEF StatusIs

\* One restriction reason.
LEMMA ReasonItem ==
  ASSUME NEW ws \in Seq(Word), NEW p \in Nat \ {0}, p + 1 <= Len(ws),
         ws[p] = Ctor("restrictionReason")
  PROVE  Item(ws, p, p + 2, 20, 1)
<1> DEFINE r == p + 1
           q == p + 2
<1>1. /\ p \in 1 .. Len(ws) /\ r \in Nat \ {0} /\ r <= Len(ws) /\ q \in Nat \ {0} /\ q = r + 1
      /\ "restrictionReason" \in DOMAIN Schema /\ {} \in SUBSET Text /\ p < q
  BY Positions, SmallSchemas DEF ParamIs
<1>2. ASSUME NEW S, Shallow(S, 20), NEW h \in Nat
      PROVE  Goes(ws, p, On(Elements(h + 1), S), q, On(Elements(h), S))
  <2> DEFINE Z == On(Elements(h), S)
  <2>1. S \in Seq(Frame) /\ Len(S) < MaxDepth /\ Z \in Seq(Frame)
    BY <1>2, ShallowOn, FramesTyped
  <2>2. Goes(ws, p, On(Elements(h + 1), S), r, On(Obj("restrictionReason", 1, {}), Z))
    BY <1>1, <2>1, EnterElement
  <2> HIDE DEF Z, r, q
  <2>3. Goes(ws, r, On(Obj("restrictionReason", 1, {}), Z), q, On(Obj("restrictionReason", 2, {}), Z))
    BY <1>1, <2>1, SmallSchemas, OptionalScalar
  <2>4. Goes(ws, q, On(Obj("restrictionReason", 2, {}), Z), q, Z)
    <3>1. 2 \in Nat \ {0} /\ 2 > Len(Schema["restrictionReason"])
      BY SmallSchemas
    <3> QED
      BY <1>1, <2>1, <3>1, LeaveObject
  <2> QED
    BY <2>2, <2>3, <2>4, GoesOn DEF Z
<1> QED
  BY <1>1, <1>2 DEF Item

\* A vector of h items, from its id to behind it.
LEMMA ReadsItems ==
  ASSUME NEW ws \in Seq(Word), NEW p \in Nat \ {0}, NEW h \in Nat, h <= MaxElements,
         ws[p] = VectorId, ws[p + 1] = Number(h), p + 1 <= Len(ws),
         NEW q, NEW d \in 0 .. 18, NEW sure, Row(ws, p + 2, h, q, d, sure),
         NEW c, NEW k, NEW gate, ParamIs(c, k, "vector", gate), NEW bits \in SUBSET Text,
         gate = Always \/ gate \in bits, NEW S, Shallow(S, d - 1)
  PROVE  \/ Goes(ws, p, On(Obj(c, k, bits), S), q, On(Obj(c, k + 1, bits), S))
         \/ sure = 0 /\ Fails(ws, p, On(Obj(c, k, bits), S))
<1> DEFINE Z == On(Obj(c, k + 1, bits), S)
           r == p + 2
<1>1. /\ c \in DOMAIN Schema /\ k \in 1 .. Len(Schema[c])
      /\ There(Schema[c][k], bits) /\ Schema[c][k].kind = "vector"
  BY DEF ParamIs, There
<1>2. p \in 1 .. Len(ws)
  BY Positions
<1>3. S \in Seq(Frame) /\ Len(S) < MaxDepth /\ Z \in Seq(Frame) /\ Shallow(Z, d)
  <2>1. d - 1 + 1 = d /\ d # 0 /\ Len(S) < d - 1
    <3>1. S \in Seq(Frame) /\ Len(S) < d - 1
      BY DEF Shallow
    <3>2. Len(S) \in Nat
      BY <3>1, LenProperties
    <3> QED
      BY <3>1, <3>2
  <2> DEFINE dd == d - 1
  <2>2. dd \in 0 .. 20 /\ dd + 1 = d
    BY <2>1
  <2>3. Shallow(S, dd)
    OBVIOUS
  <2> HIDE DEF dd
  <2>4. Obj(c, k + 1, bits) \in Frame
    BY <1>1, AtParam
  <2>5. Shallow(Z, dd + 1)
    BY <2>2, <2>3, <2>4, ShallowOn
  <2>6. Z \in Seq(Frame)
    BY <2>2, <2>3, <2>4, ShallowOn
  <2>7. S \in Seq(Frame) /\ Len(S) < MaxDepth
    BY <2>2, <2>3, <2>4, ShallowOn
  <2> HIDE DEF Z
  <2> QED
    BY <2>2, <2>5, <2>6, <2>7
<1>4. Goes(ws, p, On(Obj(c, k, bits), S), r, On(Elements(h), Z))
  BY <1>1, <1>2, <1>3, EnterVector
<1> HIDE DEF Z, r
<1>5. \E e : /\ Row(ws, e, h - h, q, d, sure)
             /\ \A y \in Nat : \/ Goes(ws, r, On(Elements(h + y), Z), e, On(Elements(y), Z))
                               \/ sure = 0 /\ Fails(ws, r, On(Elements(h + y), Z))
  <2>1. h <= h /\ Row(ws, r, h, q, d, sure)
    BY DEF r
  <2>2. ReadsSome(ws, Z, h, r, h, q, d, sure)
    BY <1>3, <2>1, RowReads
  <2> QED
    BY <2>2 DEF ReadsSome
<1>6. \/ Goes(ws, r, On(Elements(h), Z), q, On(Elements(0), Z))
      \/ sure = 0 /\ Fails(ws, r, On(Elements(h), Z))
  <2>1. PICK e : /\ Row(ws, e, h - h, q, d, sure)
                 /\ \A y \in Nat : \/ Goes(ws, r, On(Elements(h + y), Z), e, On(Elements(y), Z))
                                   \/ sure = 0 /\ Fails(ws, r, On(Elements(h + y), Z))
    BY <1>5
  <2>2. h - h = 0 /\ h + 0 = h /\ 0 \in Nat
    OBVIOUS
  <2>3. Row(ws, e, 0, q, d, sure)
    BY <2>1, <2>2
  <2>4. e = q
    BY <2>3, RowOfNoneIs
  <2> QED
    BY <2>1, <2>2, <2>4
<1>7. q \in Nat \ {0}
  BY RowGrows DEF r
<1>8. Goes(ws, q, On(Elements(0), Z), q, Z)
  BY <1>3, <1>7, LeaveVector
<1> QED
  BY <1>4, <1>6, <1>8, GoesOn, GoesToFail DEF Z

\* A user up to its emoji status.
HeadIs(ws, p, bits, q) ==
  LET a == IF "first_name" \in bits THEN p + 4 ELSE p + 3
  IN /\ p + 2 <= Len(ws) /\ ws[p] = Ctor("user") /\ ws[p + 1].bits = bits
     /\ "restriction_reason" \in bits =>
          ws[a] = VectorId /\ ws[a + 1] = Number(1) /\ ws[a + 2] = Ctor("restrictionReason")
     /\ q = (IF "restriction_reason" \in bits THEN a + 4 ELSE a)
     /\ q <= Len(ws) + 1

\* The stack in which a user is read, from its k-th parameter.
InUser(k, bits, h, S) == On(Obj("user", k, bits), On(Elements(h), S))

\* The stack in a user is a stack.
LEMMA InUserTyped ==
  ASSUME NEW S, Shallow(S, 4), NEW h \in Nat, NEW bits \in SUBSET Text
  PROVE  /\ On(Elements(h), S) \in Seq(Frame) /\ Shallow(On(Elements(h), S), 5)
         /\ \A k \in Nat \ {0} : Shallow(InUser(k, bits, h, S), 6)
<1> DEFINE Z == On(Elements(h), S)
<1>1. Z \in Seq(Frame) /\ Shallow(Z, 5)
  <2>1. Elements(h) \in Frame /\ 4 + 1 = 5 /\ 4 \in 0 .. 20
    BY FramesTyped
  <2>2. Z \in Seq(Frame) /\ Shallow(Z, 4 + 1)
    BY <2>1, ShallowOn
  <2> QED
    BY <2>1, <2>2
<1> HIDE DEF Z
<1>2. ASSUME NEW k \in Nat \ {0}
      PROVE  Shallow(On(Obj("user", k, bits), Z), 6)
  <2>1. Obj("user", k, bits) \in Frame /\ 5 + 1 = 6 /\ 5 \in 0 .. 20
    BY FramesTyped, UserSchema DEF ParamIs
  <2>2. Shallow(On(Obj("user", k, bits), Z), 5 + 1)
    BY <1>1, <2>1, ShallowOn
  <2> QED
    BY <2>1, <2>2
<1> QED
  BY <1>1, <1>2 DEF Z, InUser

\* A parameter of one word that a user may have.
LEMMA UserScalar ==
  ASSUME NEW ws \in Seq(Word), NEW p \in Nat \ {0}, NEW k \in 1 .. 7, NEW kk, kk = k + 1,
         NEW gate, ParamIs("user", k, "scalar", gate),
         NEW bits \in SUBSET Text, NEW S, Shallow(S, 4), NEW h \in Nat,
         gate = Always \/ gate \in bits => p <= Len(ws),
         NEW q, q = IF gate = Always \/ gate \in bits THEN p + 1 ELSE p
  PROVE  Goes(ws, p, InUser(k, bits, h, S), q, InUser(kk, bits, h, S))
<1> DEFINE Z == On(Elements(h), S)
<1>1. Z \in Seq(Frame)
  BY InUserTyped
<1> HIDE DEF Z
<1>2. Goes(ws, p, On(Obj("user", k, bits), Z), q, On(Obj("user", k + 1, bits), Z))
  BY <1>1, OptionalScalar
<1> QED
  BY <1>2 DEF Z, InUser

\* What a user has in front of its emoji status is read.
LEMMA ReadsHead ==
  ASSUME NEW ws \in Seq(Word), NEW p \in Nat \ {0}, NEW q \in Nat, NEW bits \in SUBSET Text,
         HeadIs(ws, p, bits, q), NEW S, Shallow(S, 4), NEW h \in Nat
  PROVE  Goes(ws, p, On(Elements(h + 1), S), q, InUser(5, bits, h, S))
<1> DEFINE a == IF "first_name" \in bits THEN p + 4 ELSE p + 3
           p1 == p + 1
           p2 == p + 2
           p3 == p + 3
           Z == On(Elements(h), S)
<1>1. /\ p + 2 <= Len(ws) /\ ws[p] = Ctor("user") /\ ws[p1].bits = bits /\ q <= Len(ws) + 1
      /\ "restriction_reason" \in bits =>
           ws[a] = VectorId /\ ws[a + 1] = Number(1) /\ ws[a + 2] = Ctor("restrictionReason")
      /\ q = (IF "restriction_reason" \in bits THEN a + 4 ELSE a)
  BY DEF HeadIs
<1>2. /\ p \in 1 .. Len(ws) /\ p1 \in 1 .. Len(ws) /\ p2 \in 1 .. Len(ws) /\ p3 \in Nat \ {0}
      /\ p1 \in Nat \ {0} /\ p2 \in Nat \ {0} /\ Len(ws) \in Nat /\ a \in Nat \ {0}
      /\ p1 + 1 = p2 /\ p2 + 1 = p3 /\ a <= Len(ws) + 1
      /\ "first_name" \in bits => p3 <= Len(ws) /\ a = p3 + 1
      /\ "first_name" \notin bits => a = p3
      /\ "restriction_reason" \in bits => q = a + 4
      /\ "restriction_reason" \notin bits => q = a
  <2>1. Len(ws) \in Nat
    BY LenProperties
  <2> QED
    BY <1>1, <2>1
<1>3. /\ S \in Seq(Frame) /\ Len(S) < MaxDepth /\ Z \in Seq(Frame) /\ Shallow(Z, 5)
      /\ "user" \in DOMAIN Schema
  <2>1. S \in Seq(Frame) /\ Len(S) < MaxDepth
    <3>1. S \in Seq(Frame) /\ Len(S) < 4 /\ Len(S) \in Nat
      BY LenProperties DEF Shallow
    <3> QED
      BY <3>1 DEF MaxDepth
  <2> QED
    BY <2>1, InUserTyped, UserSchema DEF ParamIs
<1>4. Goes(ws, p, On(Elements(h + 1), S), p1, On(Obj("user", 1, {}), Z))
  BY <1>1, <1>2, <1>3, EnterElement
<1> HIDE DEF Z, p1, p2, p3, a
<1>5. Goes(ws, p1, On(Obj("user", 1, {}), Z), p2, On(Obj("user", 2, bits), Z))
  <2> DEFINE k == 1
             none == {}
  <2>1. ParamIs("user", k, "flags", Always) /\ k + 1 = 2 /\ none \in SUBSET Text
    BY UserSchema
  <2> HIDE DEF k, none
  <2>2. Goes(ws, p1, On(Obj("user", k, none), Z), p1 + 1, On(Obj("user", k + 1, ws[p1].bits), Z))
    BY <1>2, <1>3, <2>1, FlagsParam
  <2> QED
    BY <1>1, <1>2, <2>1, <2>2 DEF k, none
<1>6. Goes(ws, p2, InUser(2, bits, h, S), p3, InUser(3, bits, h, S))
  <2>1. Always = Always /\ p2 <= Len(ws) /\ 3 = 2 + 1 /\ 2 \in 1 .. 7
    BY <1>2
  <2> QED
    BY <1>2, <2>1, UserSchema, UserScalar
<1>7. Goes(ws, p3, InUser(3, bits, h, S), a, InUser(4, bits, h, S))
  <2>1. "first_name" # Always /\ 4 = 3 + 1 /\ 3 \in 1 .. 7
    BY DEF Always
  <2> QED
    BY <1>2, <2>1, UserSchema, UserScalar
<1>8. Goes(ws, a, InUser(4, bits, h, S), q, InUser(5, bits, h, S))
  <2> DEFINE k == 4
             gate == "restriction_reason"
  <2>1. ParamIs("user", k, "vector", gate) /\ k + 1 = 5
    BY UserSchema
  <2> HIDE DEF k
  <2>2. k \in 1 .. Len(Schema["user"])
    BY <2>1 DEF ParamIs
  <2>3. CASE gate \in bits
    <3> DEFINE r == a + 2
    <3>0. q = a + 4 /\ q <= Len(ws) + 1 /\ a \in Nat \ {0} /\ Len(ws) \in Nat
      BY <1>1, <1>2, <2>3
    <3>1. r \in Nat \ {0} /\ r + 1 <= Len(ws) /\ r + 2 = q /\ a + 1 <= Len(ws)
      BY <3>0
    <3>2. ws[r] = Ctor("restrictionReason") /\ ws[a] = VectorId /\ ws[a + 1] = Number(1)
      BY <1>1, <2>3
    <3> HIDE DEF r
    <3>3. Item(ws, r, r + 2, 20, 1)
      BY <3>1, <3>2, ReasonItem
    <3>4. Row(ws, r, 1, q, 20, 1)
      BY <3>1, <3>3, RowOfOne
    <3>5. Row(ws, r, 1, q, 6, 1)
      BY <3>4, RowShallower
    <3>6. 6 \in 0 .. 18 /\ 6 - 1 = 5 /\ 1 \in Nat /\ 1 # 0
      OBVIOUS
    <3> HIDE DEF gate
    <3>7. \/ Goes(ws, a, On(Obj("user", k, bits), Z), q, On(Obj("user", k + 1, bits), Z))
          \/ 1 = 0 /\ Fails(ws, a, On(Obj("user", k, bits), Z))
      <4> DEFINE d == 6
                 m == 1
      <4>1. d \in 0 .. 18 /\ Shallow(Z, d - 1) /\ m \in Nat /\ ws[a + 1] = Number(m)
        BY <1>3, <3>2, <3>6
      <4>3. m <= MaxElements
        BY DEF MaxElements
      <4>2. Row(ws, a + 2, m, q, d, 1)
        BY <3>5 DEF r
      <4> HIDE DEF d, m
      <4> QED
        BY <1>2, <2>1, <2>3, <3>1, <3>2, <4>1, <4>2, <4>3, ReadsItems
    <3> QED
      BY <2>1, <3>6, <3>7 DEF InUser, Z, k
  <2>4. CASE gate \notin bits
    <3>1. gate # Always
      BY DEF Always
    <3>2. ~There(Schema["user"][k], bits) /\ Schema["user"][k].kind # "flags"
      BY <2>1, <2>4, <3>1 DEF There, ParamIs
    <3> HIDE DEF gate
    <3>3. Goes(ws, a, On(Obj("user", k, bits), Z), a, On(Obj("user", k + 1, bits), Z))
      BY <1>2, <1>3, <2>2, <3>2, PassParam
    <3> QED
      BY <1>2, <2>1, <2>4, <3>3 DEF InUser, Z, k, gate
  <2> QED
    BY <2>3, <2>4
<1>9. Goes(ws, p1, On(Obj("user", 1, {}), Z), p2, InUser(2, bits, h, S))
  BY <1>5 DEF InUser, Z
<1> QED
  BY <1>4, <1>6, <1>7, <1>8, <1>9, GoesOn

\* A user up to where its list of usernames is or would be.
PlaceIs(ws, p, bits, q, sure) ==
  \E b \in Nat :
    /\ HeadIs(ws, p, bits, b)
    /\ \/ "emoji_status" \notin bits /\ q = b
       \/ "emoji_status" \in bits /\ StatusIs(ws, b, q) /\ q <= Len(ws) + 1
       \/ "emoji_status" \in bits /\ ws[b] = Ctor("alien") /\ sure = 0

\* A user is read up to the place of its list, unless its emoji status is alien.
LEMMA ReadsPlace ==
  ASSUME NEW ws \in Seq(Word), NEW p \in Nat \ {0}, NEW q \in Nat, NEW bits \in SUBSET Text,
         NEW sure, PlaceIs(ws, p, bits, q, sure), NEW S, Shallow(S, 4), NEW h \in Nat
  PROVE  \/ Goes(ws, p, On(Elements(h + 1), S), q, InUser(6, bits, h, S))
         \/ sure = 0 /\ Fails(ws, p, On(Elements(h + 1), S))
<1> DEFINE Z == On(Elements(h), S)
           k == 5
<1>1. PICK b \in Nat :
        /\ HeadIs(ws, p, bits, b)
        /\ \/ "emoji_status" \notin bits /\ q = b
           \/ "emoji_status" \in bits /\ StatusIs(ws, b, q) /\ q <= Len(ws) + 1
           \/ "emoji_status" \in bits /\ ws[b] = Ctor("alien") /\ sure = 0
  BY DEF PlaceIs
<1>2. Goes(ws, p, On(Elements(h + 1), S), b, InUser(k, bits, h, S))
  BY <1>1, ReadsHead
<1>3. Z \in Seq(Frame) /\ Shallow(Z, 10) /\ b \in Nat \ {0}
  <2>1. Z \in Seq(Frame) /\ Shallow(Z, 5)
    BY InUserTyped
  <2> HIDE DEF Z
  <2>2. Len(Z) \in Nat /\ Len(Z) < 5
    BY <2>1, LenProperties DEF Shallow
  <2>3. b \in Nat \ {0}
    BY <1>1 DEF HeadIs
  <2> QED
    BY <2>1, <2>2, <2>3 DEF Shallow
<1> HIDE DEF Z
<1>4. /\ ParamIs("user", k, "boxed", "emoji_status") /\ k + 1 = 6
      /\ "user" \in DOMAIN Schema /\ k \in 1 .. Len(Schema["user"])
  BY UserSchema DEF ParamIs
<1>5. CASE "emoji_status" \notin bits /\ q = b
  <2>1. "emoji_status" # Always
    BY DEF Always
  <2>2. ~There(Schema["user"][k], bits) /\ Schema["user"][k].kind # "flags"
    BY <1>4, <1>5, <2>1 DEF There, ParamIs
  <2> HIDE DEF k
  <2>3. Goes(ws, b, On(Obj("user", k, bits), Z), b, On(Obj("user", k + 1, bits), Z))
    BY <1>3, <1>4, <2>2, PassParam
  <2>4. Goes(ws, b, InUser(k, bits, h, S), q, InUser(6, bits, h, S))
    BY <1>4, <1>5, <2>3 DEF InUser, Z
  <2> QED
    BY <1>2, <2>4, GoesOn
<1>6. CASE "emoji_status" \in bits /\ StatusIs(ws, b, q) /\ q <= Len(ws) + 1
  <2>1. Goes(ws, b, On(Obj("user", 5, bits), Z), q, On(Obj("user", 6, bits), Z))
    BY <1>3, <1>6, ReadsStatus
  <2>2. Goes(ws, b, InUser(k, bits, h, S), q, InUser(6, bits, h, S))
    BY <2>1 DEF InUser, Z
  <2> HIDE DEF k
  <2> QED
    BY <1>2, <2>2, GoesOn
<1>7. CASE "emoji_status" \in bits /\ ws[b] = Ctor("alien") /\ sure = 0
  <2>1. Unreadable(ws, b)
    <3>1. "alien" \notin DOMAIN Schema
      BY KnownConstructors
    <3> QED
      BY <1>7, <3>1, WordsAre DEF Unreadable
  <2>2. There(Schema["user"][k], bits) /\ Schema["user"][k].kind = "boxed"
    BY <1>4, <1>7 DEF There, ParamIs
  <2> HIDE DEF k
  <2>3. Fails(ws, b, On(Obj("user", k, bits), Z))
    BY <1>3, <1>4, <2>1, <2>2, ParamFails
  <2>4. Fails(ws, b, InUser(k, bits, h, S))
    BY <2>3 DEF InUser, Z
  <2> QED
    BY <1>2, <1>7, <2>4, GoesToFail
<1> QED
  BY <1>1, <1>5, <1>6, <1>7

\* The rest of a user behind its list.
LEMMA ReadsTail ==
  ASSUME NEW ws \in Seq(Word), NEW p \in Nat \ {0}, NEW bits \in SUBSET Text,
         "color" \in bits => p <= Len(ws),
         NEW q, q = IF "color" \in bits THEN p + 1 ELSE p,
         NEW S, Shallow(S, 4), NEW h \in Nat
  PROVE  Goes(ws, p, InUser(7, bits, h, S), q, On(Elements(h), S))
<1> DEFINE Z == On(Elements(h), S)
<1>1. Goes(ws, p, InUser(7, bits, h, S), q, InUser(8, bits, h, S))
  <2>1. "color" # Always /\ 8 = 7 + 1 /\ 7 \in 1 .. 7
    BY DEF Always
  <2> QED
    BY <2>1, UserSchema, UserScalar
<1>2. Goes(ws, q, InUser(8, bits, h, S), q, Z)
  <2>1. Z \in Seq(Frame)
    BY InUserTyped
  <2>2. 8 \in Nat \ {0} /\ 8 > Len(Schema["user"]) /\ "user" \in DOMAIN Schema /\ q \in Nat \ {0}
    BY UserSchema DEF ParamIs
  <2> HIDE DEF Z
  <2>3. Goes(ws, q, On(Obj("user", 8, bits), Z), q, Z)
    BY <2>1, <2>2, LeaveObject
  <2> QED
    BY <2>3 DEF InUser, Z
<1> QED
  BY <1>1, <1>2, GoesOn

\* A list of usernames that begins here: how many it says there are.
ListBegins(ws, q, m) ==
  q + 1 <= Len(ws) /\ ws[q] = VectorId /\ ws[q + 1] = Number(m) /\ m <= MaxElements

\* The list is entered behind its length.
LEMMA EntersList ==
  ASSUME NEW ws \in Seq(Word), NEW q \in Nat \ {0}, NEW m \in Nat, ListBegins(ws, q, m),
         NEW bits \in SUBSET Text, "usernames" \in bits, NEW S, Shallow(S, 4), NEW h \in Nat
  PROVE  Goes(ws, q, InUser(6, bits, h, S), q + 2, On(Elements(m), InUser(7, bits, h, S)))
<1> DEFINE Z == On(Elements(h), S)
           k == 6
<1>1. /\ ParamIs("user", k, "vector", "usernames") /\ k + 1 = 7
      /\ "user" \in DOMAIN Schema /\ k \in 1 .. Len(Schema["user"])
  BY UserSchema DEF ParamIs
<1>2. There(Schema["user"][k], bits) /\ Schema["user"][k].kind = "vector"
  BY <1>1 DEF There, ParamIs
<1>3. Z \in Seq(Frame) /\ Len(Z) < MaxDepth
  <2>1. Z \in Seq(Frame) /\ Shallow(Z, 5)
    BY InUserTyped
  <2> HIDE DEF Z
  <2>2. Len(Z) \in Nat /\ Len(Z) < 5
    BY <2>1, LenProperties DEF Shallow
  <2> QED
    BY <2>1, <2>2 DEF MaxDepth
<1>4. /\ q \in 1 .. Len(ws) /\ q + 1 <= Len(ws) /\ ws[q] = VectorId /\ ws[q + 1] = Number(m)
      /\ m <= MaxElements
  BY Positions DEF ListBegins
<1> HIDE DEF Z, k
<1>5. Goes(ws, q, On(Obj("user", k, bits), Z), q + 2, On(Elements(m), On(Obj("user", k + 1, bits), Z)))
  BY <1>1, <1>2, <1>3, <1>4, EnterVector
<1> QED
  BY <1>1, <1>5 DEF InUser, Z, k

\* A whole user is an item, whatever list of usernames it has.
LEMMA UserItem ==
  ASSUME NEW ws \in Seq(Word), NEW p \in Nat \ {0}, NEW q \in Nat, NEW bits \in SUBSET Text,
         NEW sure, PlaceIs(ws, p, bits, q, sure), p < q, q <= Len(ws) + 1,
         NEW e \in Nat, NEW m \in Nat,
         IF "usernames" \in bits THEN ListBegins(ws, q, m) /\ Row(ws, q + 2, m, e, 20, 1) ELSE e = q,
         "color" \in bits => e <= Len(ws), NEW z, z = IF "color" \in bits THEN e + 1 ELSE e
  PROVE  Item(ws, p, z, 4, sure)
<1>1. q \in Nat \ {0} /\ e \in Nat \ {0} /\ q <= e /\ z \in Nat \ {0} /\ p < z
  <2>1. "usernames" \in bits => q + 2 + m <= e
    BY RowGrows
  <2>2. q <= e /\ p < q
    BY <2>1
  <2> QED
    BY <2>2
<1>2. ASSUME NEW S, Shallow(S, 4), NEW h \in Nat
      PROVE  \/ Goes(ws, p, On(Elements(h + 1), S), z, On(Elements(h), S))
             \/ sure = 0 /\ Fails(ws, p, On(Elements(h + 1), S))
  <2> DEFINE V == InUser(7, bits, h, S)
  <2>1. \/ Goes(ws, p, On(Elements(h + 1), S), q, InUser(6, bits, h, S))
        \/ sure = 0 /\ Fails(ws, p, On(Elements(h + 1), S))
    BY <1>2, ReadsPlace
  <2>2. Shallow(V, 6) /\ V \in Seq(Frame)
    <3>1. 7 \in Nat \ {0}
      OBVIOUS
    <3>2. Shallow(V, 6)
      BY <1>2, <3>1, InUserTyped
    <3> QED
      BY <3>2 DEF Shallow
  <2>3. Goes(ws, q, InUser(6, bits, h, S), e, V)
    <3>1. CASE "usernames" \in bits
      <4> DEFINE r == q + 2
      <4>1. Goes(ws, q, InUser(6, bits, h, S), r, On(Elements(m), V))
        BY <1>1, <1>2, <3>1, EntersList
      <4>2. Row(ws, r, m, e, 20, 1)
        BY <3>1
      <4>3. Row(ws, r, m, e, 6, 1)
        BY <4>2, RowShallower
      <4> HIDE DEF r, V
      <4>4. m <= m
        OBVIOUS
      <4>5. ReadsSome(ws, V, m, r, m, e, 6, 1)
        BY <2>2, <4>3, <4>4, RowReads
      <4>6. PICK g : /\ Row(ws, g, m - m, e, 6, 1)
                     /\ \A y \in Nat : \/ Goes(ws, r, On(Elements(m + y), V), g, On(Elements(y), V))
                                       \/ 1 = 0 /\ Fails(ws, r, On(Elements(m + y), V))
        BY <4>5 DEF ReadsSome
      <4>7. m - m = 0 /\ m + 0 = m /\ 0 \in Nat /\ 1 # 0
        OBVIOUS
      <4>8. g = e
        <5>1. Row(ws, g, 0, e, 6, 1)
          BY <4>6, <4>7
        <5> QED
          BY <5>1, RowOfNoneIs
      <4>9. Goes(ws, r, On(Elements(m), V), e, On(Elements(0), V))
        BY <4>6, <4>7, <4>8
      <4>10. Goes(ws, e, On(Elements(0), V), e, V)
        BY <1>1, <2>2, LeaveVector
      <4> QED
        BY <4>1, <4>9, <4>10, GoesOn
    <3>2. CASE "usernames" \notin bits
      <4> DEFINE Z == On(Elements(h), S)
                 k == 6
      <4>0. "usernames" # Always
        BY DEF Always
      <4>1. /\ ParamIs("user", k, "vector", "usernames") /\ k + 1 = 7
            /\ "user" \in DOMAIN Schema /\ k \in 1 .. Len(Schema["user"])
        BY UserSchema DEF ParamIs
      <4>2. ~There(Schema["user"][k], bits) /\ Schema["user"][k].kind # "flags"
        BY <3>2, <4>0, <4>1 DEF There, ParamIs
      <4>3. Z \in Seq(Frame)
        BY <1>2, InUserTyped
      <4> HIDE DEF k, Z
      <4>4. Goes(ws, q, On(Obj("user", k, bits), Z), q, On(Obj("user", k + 1, bits), Z))
        BY <1>1, <4>1, <4>2, <4>3, PassParam
      <4>5. q = e
        BY <3>2
      <4> QED
        BY <4>1, <4>4, <4>5 DEF InUser, Z, k
    <3> QED
      BY <3>1, <3>2
  <2>4. Goes(ws, e, V, z, On(Elements(h), S))
    BY <1>1, <1>2, ReadsTail
  <2> HIDE DEF V
  <2> QED
    BY <2>1, <2>3, <2>4, GoesOn
<1> QED
  BY <1>1, <1>2 DEF Item

\* Usernames in a row.
LEMMA UsernameRow ==
  ASSUME NEW ws \in Seq(Word), NEW p \in Nat \ {0}, NEW m \in Nat,
         \A j \in 0 .. m - 1 : p + 3 * j + 2 <= Len(ws) /\ ws[p + 3 * j] = Ctor("username")
  PROVE  Row(ws, p, m, p + 3 * m, 20, 1)
<1> DEFINE f == [j \in 0 .. m |-> p + 3 * j]
<1>1. f \in [0 .. m -> Nat \ {0}] /\ f[0] = p /\ f[m] = p + 3 * m
  OBVIOUS
<1>2. ASSUME NEW j \in 0 .. m - 1
      PROVE  Item(ws, f[j], f[j + 1], 20, 1)
  <2> DEFINE a == p + 3 * j
  <2>1. a \in Nat \ {0} /\ a + 2 <= Len(ws) /\ ws[a] = Ctor("username") /\ f[j] = a /\ f[j + 1] = a + 3
    OBVIOUS
  <2> HIDE DEF a, f
  <2>2. Item(ws, a, a + 3, 20, 1)
    BY <2>1, UsernameItem
  <2> QED
    BY <2>1, <2>2
<1> HIDE DEF f
<1> QED
  BY <1>1, <1>2 DEF Row

----------------------------------------------------------------------------
(* The whole of a users.userFull.                                          *)

\* A row that is surely read is a row.
LEMMA RowUnsure ==
  ASSUME NEW ws, NEW p, NEW m, NEW q, NEW d, Row(ws, p, m, q, d, 1)
  PROVE  Row(ws, p, m, q, d, 0)
<1>1. \A a, b : Item(ws, a, b, d, 1) => Item(ws, a, b, d, 0)
  BY DEF Item
<1> QED
  BY <1>1 DEF Row

\* What is beneath the users.
Root == On(Obj("userFull", 3, {}), Nothing)

\* A users.userFull that says it has m users.
FullIs(ws, m) ==
  /\ Len(ws) >= 4 /\ ws[1] = Ctor("userFull") /\ ws[3] = VectorId /\ ws[4] = Number(m)
  /\ m <= MaxElements

\* The stack in a users.userFull.
LEMMA RootShallow == Shallow(Root, 4) /\ Root \in Seq(Frame)
<1>1. Obj("userFull", 3, {}) \in Frame
  BY FramesTyped, SmallSchemas DEF ParamIs
<1>2. Root \in Seq(Frame) /\ Len(Root) = Len(Nothing) + 1
  BY <1>1, NothingTyped, OnTyped DEF Root
<1> QED
  BY <1>2, NothingTyped DEF Shallow

\* The walk of a users.userFull comes to its users.
LEMMA FullBegins ==
  ASSUME NEW ws \in Seq(Word), NEW m \in Nat, FullIs(ws, m)
  PROVE  \E u \in Seq(Entry) : Walk(ws) = WalkOn(ws)[Reading(5, 0, On(Elements(m), Root), u)]
<1> DEFINE none == {}
           k == 1
           kk == 2
           d == "userFull"
<1>1. /\ d \in DOMAIN Schema /\ none \in SUBSET Text /\ k + 1 = kk /\ kk + 1 = 3
      /\ ParamIs(d, k, "scalar", Always) /\ ParamIs(d, kk, "vector", Always)
      /\ kk \in 1 .. Len(Schema[d])
  BY SmallSchemas DEF ParamIs
<1>2. /\ 1 <= Len(ws) /\ ws[1] = Ctor(d) /\ 2 \in Nat \ {0} /\ 2 <= Len(ws) /\ 2 + 1 = 3
      /\ 3 \in 1 .. Len(ws) /\ 3 + 1 = 4 /\ 4 <= Len(ws) /\ ws[3] = VectorId /\ ws[4] = Number(m)
      /\ 3 + 2 = 5 /\ m <= MaxElements
  BY LenProperties DEF FullIs
<1>3. Nothing \in Seq(Frame) /\ Len(Nothing) < MaxDepth
  BY NothingTyped DEF MaxDepth
<1> HIDE DEF none, k, kk, d
<1>4. \E u \in Seq(Entry) : Walk(ws) = WalkOn(ws)[Reading(2, 0, On(Obj(d, 1, {}), Nothing), u)]
  BY <1>1, <1>2, WalkBegins
<1>5. Goes(ws, 2, On(Obj(d, k, none), Nothing), 3, On(Obj(d, kk, none), Nothing))
  <2>1. Goes(ws, 2, On(Obj(d, k, none), Nothing), 3, On(Obj(d, k + 1, none), Nothing))
    BY <1>1, <1>2, <1>3, OptionalScalar
  <2> QED
    BY <1>1, <2>1
<1>6. Goes(ws, 3, On(Obj(d, kk, none), Nothing), 5, On(Elements(m), On(Obj(d, 3, none), Nothing)))
  <2>1. There(Schema[d][kk], none) /\ Schema[d][kk].kind = "vector"
    BY <1>1 DEF There, ParamIs
  <2> DEFINE p == 3
  <2>2. /\ p \in 1 .. Len(ws) /\ p + 1 <= Len(ws) /\ ws[p] = VectorId /\ ws[p + 1] = Number(m)
        /\ p + 2 = 5 /\ m <= MaxElements
    BY <1>2
  <2> HIDE DEF p
  <2>3. Goes(ws, p, On(Obj(d, kk, none), Nothing), p + 2,
             On(Elements(m), On(Obj(d, kk + 1, none), Nothing)))
    BY <1>1, <1>3, <2>1, <2>2, EnterVector
  <2> QED
    BY <1>1, <2>2, <2>3 DEF p
<1>7. Goes(ws, 2, On(Obj(d, k, none), Nothing), 5, On(Elements(m), Root))
  BY <1>5, <1>6, GoesOn DEF Root, d, none
<1> QED
  BY <1>4, <1>7 DEF Goes, k, none

\* The walk comes to its end behind the users ...
LEMMA FullRead ==
  ASSUME NEW ws \in Seq(Word), NEW m \in Nat, FullIs(ws, m), NEW q \in Nat \ {0},
         Goes(ws, 5, On(Elements(m), Root), q, Root)
  PROVE  Walk(ws).err = 0 /\ Walk(ws).pos = q
<1>1. PICK u \in Seq(Entry) : Walk(ws) = WalkOn(ws)[Reading(5, 0, On(Elements(m), Root), u)]
  BY FullBegins
<1>2. Goes(ws, q, Root, q, Nothing)
  <2> DEFINE none == {}
             k == 3
  <2>1. /\ "userFull" \in DOMAIN Schema /\ none \in SUBSET Text
        /\ k \in Nat \ {0} /\ k > Len(Schema["userFull"])
    BY SmallSchemas DEF ParamIs
  <2> HIDE DEF none, k
  <2>2. Goes(ws, q, On(Obj("userFull", k, none), Nothing), q, Nothing)
    BY <2>1, NothingTyped, LeaveObject
  <2> QED
    BY <2>2 DEF Root, none, k
<1>3. Goes(ws, 5, On(Elements(m), Root), q, Nothing)
  BY <1>2, GoesOn
<1>4. PICK v \in Seq(Entry) : Walk(ws) = WalkOn(ws)[Reading(q, 0, Nothing, v)]
  BY <1>1, <1>3 DEF Goes
<1>5. WalkOn(ws)[Reading(q, 0, Nothing, v)] = Reading(q, 0, Nothing, v)
  BY WalkEnds
<1> QED
  BY <1>4, <1>5, ReadingGet

\* ... or fails in them.
LEMMA FullFails ==
  ASSUME NEW ws \in Seq(Word), NEW m \in Nat, FullIs(ws, m), Fails(ws, 5, On(Elements(m), Root))
  PROVE  Walk(ws).err = 1
BY FullBegins DEF Fails

\* x items of a row are read where there are y more to be read.
LEMMA RowGoes ==
  ASSUME NEW ws \in Seq(Word), NEW d, NEW sure, NEW S, Shallow(S, d), NEW x \in Nat, NEW y \in Nat,
         NEW xy, xy = x + y, NEW m \in Nat, x <= m, NEW p, NEW e, Row(ws, p, m, e, d, sure)
  PROVE  \E q : /\ Row(ws, q, m - x, e, d, sure)
                /\ \/ Goes(ws, p, On(Elements(xy), S), q, On(Elements(y), S))
                   \/ sure = 0 /\ Fails(ws, p, On(Elements(xy), S))
<1>1. ReadsSome(ws, S, x, p, m, e, d, sure)
  BY RowReads
<1> QED
  BY <1>1 DEF ReadsSome

\* All of them.
LEMMA RowGoesAll ==
  ASSUME NEW ws \in Seq(Word), NEW d, NEW sure, NEW S, Shallow(S, d), NEW y \in Nat,
         NEW m \in Nat, NEW xy, xy = m + y, NEW p, NEW e, Row(ws, p, m, e, d, sure)
  PROVE  \/ Goes(ws, p, On(Elements(xy), S), e, On(Elements(y), S))
         \/ sure = 0 /\ Fails(ws, p, On(Elements(xy), S))
<1>1. PICK q : /\ Row(ws, q, m - m, e, d, sure)
               /\ \/ Goes(ws, p, On(Elements(xy), S), q, On(Elements(y), S))
                  \/ sure = 0 /\ Fails(ws, p, On(Elements(xy), S))
  <2> DEFINE x == m
  <2>1. x <= m /\ x \in Nat /\ xy = x + y
    OBVIOUS
  <2> HIDE DEF x
  <2>2. \E q : /\ Row(ws, q, m - x, e, d, sure)
               /\ \/ Goes(ws, p, On(Elements(xy), S), q, On(Elements(y), S))
                  \/ sure = 0 /\ Fails(ws, p, On(Elements(xy), S))
    BY <2>1, RowGoes
  <2> QED
    BY <2>2 DEF x
<1>2. m - m = 0
  OBVIOUS
<1>3. q = e
  BY <1>1, <1>2, RowOfNoneIs
<1> QED
  BY <1>1, <1>3

\* A reply whose users are whole is read to its end.
LEMMA FullWhole ==
  ASSUME NEW ws \in Seq(Word), NEW m \in Nat, FullIs(ws, m), Row(ws, 5, m, Len(ws) + 1, 4, 1)
  PROVE  Walk(ws).err = 0 /\ Walk(ws).pos = Len(ws) + 1
<1> DEFINE e == Len(ws) + 1
<1>1. e \in Nat \ {0}
  BY LenProperties
<1> HIDE DEF e
<1>2. Goes(ws, 5, On(Elements(m), Root), e, On(Elements(0), Root))
  <2> DEFINE y == 0
             sure == 1
             p == 5
             d == 4
             xy == m
  <2>1. xy = m + y /\ y \in Nat /\ sure # 0 /\ Shallow(Root, d)
    BY RootShallow
  <2>2. Row(ws, p, m, e, d, sure)
    BY DEF e
  <2> HIDE DEF y, sure, p, d, xy
  <2>3. \/ Goes(ws, p, On(Elements(xy), Root), e, On(Elements(y), Root))
        \/ sure = 0 /\ Fails(ws, p, On(Elements(xy), Root))
    BY <2>1, <2>2, RowGoesAll
  <2> QED
    BY <2>1, <2>3 DEF p, y, xy
<1>3. Goes(ws, e, On(Elements(0), Root), e, Root)
  BY <1>1, RootShallow, LeaveVector
<1>4. Goes(ws, 5, On(Elements(m), Root), e, Root)
  BY <1>2, <1>3, GoesOn
<1> QED
  BY <1>1, <1>4, FullRead DEF e

\* The stack in which the list of a user of the reply is read, b users to come.
InList(bits, b) == InUser(7, bits, b, Root)

\* The stack in a list of usernames.
LEMMA InListShallow ==
  ASSUME NEW bits \in SUBSET Text, NEW b \in Nat
  PROVE  Shallow(InList(bits, b), 4) /\ InList(bits, b) \in Seq(Frame)
<1>1. Root \in Seq(Frame) /\ Len(Root) = 1
  <2>1. Obj("userFull", 3, {}) \in Frame
    BY FramesTyped, SmallSchemas DEF ParamIs
  <2>2. Root \in Seq(Frame) /\ Len(Root) = Len(Nothing) + 1
    BY <2>1, NothingTyped, OnTyped DEF Root
  <2> QED
    BY <2>2, NothingTyped
<1> DEFINE Z == On(Elements(b), Root)
<1>2. Z \in Seq(Frame) /\ Len(Z) = 2
  <2>1. Elements(b) \in Frame
    BY FramesTyped
  <2>2. Z \in Seq(Frame) /\ Len(Z) = Len(Root) + 1
    BY <1>1, <2>1, OnTyped
  <2> HIDE DEF Z
  <2> QED
    BY <1>1, <2>2
<1> HIDE DEF Z
<1>3. On(Obj("user", 7, bits), Z) \in Seq(Frame) /\ Len(On(Obj("user", 7, bits), Z)) = 3
  <2> DEFINE f == Obj("user", 7, bits)
             k == 7
  <2>1. k \in Nat \ {0} /\ "user" \in DOMAIN Schema
    BY UserSchema DEF ParamIs
  <2> HIDE DEF k
  <2>3. Obj("user", k, bits) \in Frame
    BY <2>1, FramesTyped
  <2>4. f \in Frame
    BY <2>3 DEF k
  <2> HIDE DEF f
  <2>2. On(f, Z) \in Seq(Frame) /\ Len(On(f, Z)) = Len(Z) + 1
    BY <1>2, <2>4, OnTyped
  <2> QED
    BY <1>2, <2>2 DEF f
<1>4. 3 < 4
  OBVIOUS
<1> QED
  BY <1>3, <1>4 DEF InList, InUser, Z, Shallow

\* Behind the last word nothing is read.
LEMMA AtTheEnd ==
  ASSUME NEW ws \in Seq(Word), NEW S \in Seq(Frame), NEW y \in Nat \ {0}
  PROVE  Fails(ws, Len(ws) + 1, On(Elements(y), S))
<1> DEFINE p == Len(ws) + 1
<1>1. p \in Nat \ {0} /\ p > Len(ws)
  BY LenProperties
<1>2. Unreadable(ws, p)
  BY <1>1 DEF Unreadable
<1> HIDE DEF p
<1>3. Fails(ws, p, On(Elements(y), S))
  BY <1>1, <1>2, ElementFails
<1> QED
  BY <1>3 DEF p

\* A count greater than the list: the walk takes what follows for usernames, and
\* runs out of words.
LEMMA TooMany ==
  ASSUME NEW ws \in Seq(Word), NEW x \in Nat \ {0}, NEW l \in Nat, NEW m \in Nat, l < m,
         NEW e \in Nat \ {0}, Row(ws, x, l, e, 4, 0), NEW bits \in SUBSET Text, NEW b \in Nat,
         IF "color" \in bits THEN ws[e].is # "ctor" ELSE Row(ws, e, b, Len(ws) + 1, 4, 0)
  PROVE  Fails(ws, x, On(Elements(m), InList(bits, b)))
<1> DEFINE V == InList(bits, b)
           z == Len(ws) + 1
           d == 4
           sure == 0
           y == m - l
<1>1. /\ Shallow(V, d) /\ V \in Seq(Frame) /\ z \in Nat \ {0} /\ y \in Nat \ {0} /\ m = l + y
      /\ Shallow(Root, d) /\ Root \in Seq(Frame)
  BY InListShallow, RootShallow, LenProperties
<1>2. Row(ws, x, l, e, d, sure) /\ ("color" \notin bits => Row(ws, e, b, z, d, sure))
  OBVIOUS
<1>3. \A S, k : S \in Seq(Frame) /\ k \in Nat \ {0} => Fails(ws, z, On(Elements(k), S))
  BY AtTheEnd
<1>4. InUser(7, bits, b, Root) = V /\ Shallow(Root, 4)
  BY RootShallow DEF InList
<1> HIDE DEF V, z, d, sure, y
<1>5. \/ Goes(ws, x, On(Elements(m), V), e, On(Elements(y), V))
      \/ Fails(ws, x, On(Elements(m), V))
  BY <1>1, <1>2, RowGoesAll
<1>6. CASE "color" \in bits
  <2>1. Unreadable(ws, e)
    BY <1>6 DEF Unreadable
  <2>2. Fails(ws, e, On(Elements(y), V))
    BY <1>1, <2>1, ElementFails
  <2> QED
    BY <1>5, <2>2, GoesToFail DEF V
<1>7. CASE "color" \notin bits /\ y > b
  <2> DEFINE k == y - b
  <2>1. k \in Nat \ {0} /\ y = b + k
    BY <1>1, <1>7
  <2> HIDE DEF k
  <2>2. \/ Goes(ws, e, On(Elements(y), V), z, On(Elements(k), V))
        \/ Fails(ws, e, On(Elements(y), V))
    BY <1>1, <1>2, <1>7, <2>1, RowGoesAll
  <2>3. Fails(ws, z, On(Elements(k), V))
    BY <1>1, <1>3, <2>1
  <2> QED
    BY <1>5, <2>2, <2>3, GoesToFail DEF V
<1>8. CASE "color" \notin bits /\ y <= b
  <2> DEFINE none == 0
             k == b - y
  <2>1. none \in Nat /\ y = y + none /\ y \in Nat /\ k \in Nat /\ b = k + y
    BY <1>1, <1>8
  <2> HIDE DEF none, k
  <2>2. \E q : /\ Row(ws, q, b - y, z, d, sure)
               /\ \/ Goes(ws, e, On(Elements(y), V), q, On(Elements(none), V))
                  \/ sure = 0 /\ Fails(ws, e, On(Elements(y), V))
    <3> DEFINE xy == y
    <3>1. xy = y + none
      BY <2>1
    <3> HIDE DEF xy
    <3>2. \E q : /\ Row(ws, q, b - y, z, d, sure)
                 /\ \/ Goes(ws, e, On(Elements(xy), V), q, On(Elements(none), V))
                    \/ sure = 0 /\ Fails(ws, e, On(Elements(xy), V))
      BY <1>1, <1>2, <1>8, <2>1, <3>1, RowGoes
    <3> QED
      BY <3>2 DEF xy
  <2>3. PICK q : /\ Row(ws, q, b - y, z, d, sure)
                 /\ \/ Goes(ws, e, On(Elements(y), V), q, On(Elements(none), V))
                    \/ Fails(ws, e, On(Elements(y), V))
    BY <2>2
  <2>4. Row(ws, q, k, z, d, sure)
    BY <2>3 DEF k
  <2>5. q \in Nat \ {0}
    BY <2>1, <2>4, RowGrows
  <2>6. Goes(ws, q, On(Elements(none), V), q, V)
    BY <1>1, <2>5, LeaveVector DEF none
  <2>7. Goes(ws, q, V, q, On(Elements(b), Root))
    BY <1>4, <1>8, <2>5, ReadsTail
  <2>8. \/ Goes(ws, q, On(Elements(b), Root), z, On(Elements(y), Root))
        \/ Fails(ws, q, On(Elements(b), Root))
    BY <1>1, <2>1, <2>4, RowGoesAll
  <2>9. Fails(ws, z, On(Elements(y), Root))
    BY <1>1, <1>3
  <2>10. Fails(ws, e, On(Elements(y), V))
    BY <2>3, <2>6, <2>7, <2>8, <2>9, GoesToFail
  <2> QED
    BY <1>5, <2>10, GoesToFail DEF V
<1> QED
  BY <1>1, <1>6, <1>7, <1>8

\* A count less than the list: the walk takes usernames for what should follow,
\* and does not come to the end of the words.
LEMMA TooFew ==
  ASSUME NEW ws \in Seq(Word), NEW x \in Nat \ {0}, NEW l \in Nat, NEW m \in Nat, m < l,
         \A j \in 0 .. l - 1 : /\ x + 3 * j + 2 <= Len(ws) /\ ws[x + 3 * j] = Ctor("username")
                               /\ ws[x + 3 * j + 1].is = "flags",
         NEW bits \in SUBSET Text, NEW b \in Nat,
         "color" \notin bits => Row(ws, x + 3 * l, b, Len(ws) + 1, 4, 0)
  PROVE  \E q \in Nat \ {0} :
           q # Len(ws) + 1 /\ \/ Goes(ws, x, On(Elements(m), InList(bits, b)), q, Root)
                              \/ Fails(ws, x, On(Elements(m), InList(bits, b)))
<1> DEFINE V == InList(bits, b)
           z == Len(ws) + 1
           d == 4
           sure == 0
           none == 0
           g == x + 3 * m
           e == x + 3 * l
           k == l - m
<1>1. /\ Shallow(V, d) /\ V \in Seq(Frame) /\ z \in Nat \ {0} /\ m = m + none /\ none \in Nat
      /\ Shallow(Root, d) /\ Root \in Seq(Frame) /\ Len(ws) \in Nat
      /\ g \in Nat \ {0} /\ e \in Nat \ {0} /\ k \in Nat \ {0} /\ z = Len(ws) + 1
  BY InListShallow, RootShallow, LenProperties
<1>2. InUser(7, bits, b, Root) = V /\ Shallow(Root, 4)
  BY RootShallow DEF InList
<1>3. g + 2 <= Len(ws) /\ ws[g + 1].is = "flags"
  <2>1. m \in 0 .. l - 1
    OBVIOUS
  <2> QED
    BY <2>1
<1>4. Row(ws, x, m, g, d, sure)
  <2>1. \A j \in 0 .. m - 1 : x + 3 * j + 2 <= Len(ws) /\ ws[x + 3 * j] = Ctor("username")
    OBVIOUS
  <2>2. Row(ws, x, m, g, 20, 1)
    BY <2>1, UsernameRow
  <2> HIDE DEF g
  <2>3. Row(ws, x, m, g, 4, 1)
    BY <2>2, RowShallower
  <2> QED
    BY <2>3, RowUnsure
<1>5. Row(ws, g, k, e, d, sure)
  <2>1. ASSUME NEW j \in 0 .. k - 1
        PROVE  g + 3 * j + 2 <= Len(ws) /\ ws[g + 3 * j] = Ctor("username")
    <3>1. m + j \in 0 .. l - 1 /\ x + 3 * (m + j) = g + 3 * j
      OBVIOUS
    <3> HIDE DEF g
    <3>2. x + 3 * (m + j) + 2 <= Len(ws) /\ ws[x + 3 * (m + j)] = Ctor("username")
      BY <3>1
    <3> QED
      BY <3>1, <3>2
  <2>2. g + 3 * k = e
    OBVIOUS
  <2> HIDE DEF g, k, e
  <2>3. Row(ws, g, k, g + 3 * k, 20, 1)
    BY <1>1, <2>1, UsernameRow
  <2>4. Row(ws, g, k, e, 20, 1)
    BY <2>2, <2>3
  <2>5. Row(ws, g, k, e, 4, 1)
    BY <2>4, RowShallower
  <2> QED
    BY <2>5, RowUnsure
<1>6. "color" \notin bits => Row(ws, e, b, z, d, sure)
  OBVIOUS
<1> HIDE DEF V, z, d, sure, none, g, e, k
<1>7. \/ Goes(ws, x, On(Elements(m), V), g, On(Elements(none), V))
      \/ Fails(ws, x, On(Elements(m), V))
  <2> DEFINE xy == m
  <2>1. xy = m + none
    BY <1>1
  <2> HIDE DEF xy
  <2>2. \/ Goes(ws, x, On(Elements(xy), V), g, On(Elements(none), V))
        \/ sure = 0 /\ Fails(ws, x, On(Elements(xy), V))
    BY <1>1, <1>4, <2>1, RowGoesAll
  <2> QED
    BY <2>2 DEF xy
<1>8. Goes(ws, g, On(Elements(none), V), g, V)
  BY <1>1, LeaveVector DEF none
<1>9. CASE "color" \in bits
  <2> DEFINE h == g + 1
  <2>1. h \in Nat \ {0} /\ h # z /\ g <= Len(ws)
    BY <1>1, <1>3
  <2>2. Unreadable(ws, h)
    BY <1>3 DEF Unreadable
  <2>3. Goes(ws, g, V, h, On(Elements(b), Root))
    BY <1>1, <1>2, <1>9, <2>1, ReadsTail
  <2> HIDE DEF h
  <2>4. CASE b = 0
    <3>1. Goes(ws, h, On(Elements(b), Root), h, Root)
      BY <1>1, <2>1, <2>4, LeaveVector
    <3>2. \/ Goes(ws, x, On(Elements(m), V), h, Root)
          \/ Fails(ws, x, On(Elements(m), V))
      BY <1>7, <1>8, <2>3, <3>1, GoesOn
    <3> QED
      BY <2>1, <3>2 DEF V, z
  <2>5. CASE b # 0
    <3>1. Fails(ws, h, On(Elements(b), Root))
      BY <1>1, <2>1, <2>2, <2>5, ElementFails
    <3>2. Fails(ws, x, On(Elements(m), V))
      BY <1>7, <1>8, <2>3, <3>1, GoesToFail
    <3> QED
      BY <2>1, <3>2 DEF V, z
  <2> QED
    BY <2>4, <2>5
<1>10. CASE "color" \notin bits
  <2>1. Goes(ws, g, V, g, On(Elements(b), Root))
    BY <1>1, <1>2, <1>10, ReadsTail
  <2>2. Row(ws, g, k + b, z, d, sure)
    BY <1>1, <1>5, <1>6, <1>10, RowsJoin
  <2> DEFINE kb == k + b
  <2>3. kb \in Nat /\ b <= kb /\ kb - b = k
    BY <1>1
  <2>4. Row(ws, g, kb, z, d, sure)
    BY <2>2
  <2> HIDE DEF kb
  <2>5. \E q : /\ Row(ws, q, kb - b, z, d, sure)
               /\ \/ Goes(ws, g, On(Elements(b), Root), q, On(Elements(none), Root))
                  \/ sure = 0 /\ Fails(ws, g, On(Elements(b), Root))
    <3> DEFINE xy == b
    <3>1. xy = b + none
      BY <1>1 DEF none
    <3> HIDE DEF xy
    <3>2. \E q : /\ Row(ws, q, kb - b, z, d, sure)
                 /\ \/ Goes(ws, g, On(Elements(xy), Root), q, On(Elements(none), Root))
                    \/ sure = 0 /\ Fails(ws, g, On(Elements(xy), Root))
      BY <1>1, <2>3, <2>4, <3>1, RowGoes
    <3> QED
      BY <3>2 DEF xy
  <2>6. PICK q : /\ Row(ws, q, kb - b, z, d, sure)
                 /\ \/ Goes(ws, g, On(Elements(b), Root), q, On(Elements(none), Root))
                    \/ Fails(ws, g, On(Elements(b), Root))
    BY <2>5
  <2>7. q \in Nat \ {0} /\ q # z
    <3>1. Row(ws, q, k, z, d, sure)
      BY <2>3, <2>6
    <3>2. q \in Nat \ {0} /\ q + k <= z
      BY <1>1, <3>1, RowGrows
    <3> QED
      BY <1>1, <3>2
  <2>8. Goes(ws, q, On(Elements(none), Root), q, Root)
    BY <1>1, <2>7, LeaveVector DEF none
  <2>9. \/ Goes(ws, x, On(Elements(m), V), q, Root)
        \/ Fails(ws, x, On(Elements(m), V))
    BY <1>7, <1>8, <2>1, <2>6, <2>8, GoesOn, GoesToFail
  <2> QED
    BY <2>7, <2>9 DEF V, z
<1> QED
  BY <1>9, <1>10

\* A reply in which a user's list, from q on, says it has m usernames and has l, which
\* begin at x.  There are a users before that one and b behind it.
Miscounted(ws, a, p, bits, q, m, l, x, b) ==
  /\ FullIs(ws, a + 1 + b) /\ Row(ws, 5, a, p, 4, 0)
  /\ bits \in SUBSET Text /\ PlaceIs(ws, p, bits, q, 0) /\ "usernames" \in bits
  /\ ListBegins(ws, q, m) /\ l # m /\ x = q + 2
  /\ \A j \in 0 .. l - 1 : /\ x + 3 * j + 2 <= Len(ws) /\ ws[x + 3 * j] = Ctor("username")
                           /\ ws[x + 3 * j + 1].is = "flags"
  /\ IF "color" \in bits THEN ws[x + 3 * l].is # "ctor"
                         ELSE Row(ws, x + 3 * l, b, Len(ws) + 1, 4, 0)

\* It does not pass.
LEMMA FullMiscounted ==
  ASSUME NEW ws \in Seq(Word), NEW a \in Nat, NEW b \in Nat, NEW p, NEW q \in Nat \ {0},
         NEW bits, NEW m \in Nat, NEW l \in Nat, NEW x, Miscounted(ws, a, p, bits, q, m, l, x, b)
  PROVE  ~(Walk(ws).err = 0 /\ Walk(ws).pos = Len(ws) + 1)
<1> USE DEF Miscounted
<1> DEFINE V == InList(bits, b)
           y == b + 1
           ab == a + 1 + b
           d == 4
           sure == 0
           o == 5
<1>1. /\ p \in Nat \ {0} /\ y \in Nat /\ ab = a + y /\ ab \in Nat /\ sure = 0
      /\ Shallow(Root, d) /\ x \in Nat \ {0}
  BY RootShallow, RowGrows
<1>2. Row(ws, o, a, p, d, sure)
  OBVIOUS
<1> HIDE DEF ab, y, d, sure, o
<1>3. \/ Goes(ws, o, On(Elements(ab), Root), p, On(Elements(y), Root))
      \/ Fails(ws, o, On(Elements(ab), Root))
  BY <1>1, <1>2, RowGoesAll
<1>4. \/ Goes(ws, p, On(Elements(y), Root), q, InUser(6, bits, b, Root))
      \/ Fails(ws, p, On(Elements(y), Root))
  BY <1>1, RootShallow, ReadsPlace DEF y
<1>5. Goes(ws, q, InUser(6, bits, b, Root), x, On(Elements(m), V))
  BY RootShallow, EntersList DEF InList
<1> HIDE DEF V
<1>6. \E z \in Nat \ {0} :
        z # Len(ws) + 1 /\ \/ Goes(ws, x, On(Elements(m), V), z, Root)
                           \/ Fails(ws, x, On(Elements(m), V))
  <2>1. CASE l < m
    <3> DEFINE e == x + 3 * l
    <3>1. e \in Nat \ {0}
      <4> HIDE DEF Miscounted
      <4> QED
        BY <1>1
    <3>2. Row(ws, x, l, e, 4, 0)
      <4>1. Row(ws, x, l, e, 20, 1)
        BY <1>1, UsernameRow
      <4> HIDE DEF e
      <4>2. Row(ws, x, l, e, 4, 1)
        BY <4>1, RowShallower
      <4> QED
        BY <4>2, RowUnsure
    <3>3. IF "color" \in bits THEN ws[e].is # "ctor" ELSE Row(ws, e, b, Len(ws) + 1, 4, 0)
      OBVIOUS
    <3> HIDE DEF e
    <3>4. Fails(ws, x, On(Elements(m), V))
      BY <1>1, <2>1, <3>1, <3>2, <3>3, TooMany DEF V
    <3>5. Len(ws) + 2 \in Nat \ {0} /\ Len(ws) + 2 # Len(ws) + 1
      BY LenProperties
    <3> QED
      BY <3>4, <3>5
  <2>2. CASE m < l
    BY <1>1, <2>2, TooFew DEF V
  <2> QED
    BY <2>1, <2>2
<1>7. PICK z \in Nat \ {0} :
        z # Len(ws) + 1 /\ \/ Goes(ws, x, On(Elements(m), V), z, Root)
                           \/ Fails(ws, x, On(Elements(m), V))
  BY <1>6
<1>8. FullIs(ws, ab)
  BY DEF ab
<1>9. \/ Goes(ws, o, On(Elements(ab), Root), z, Root)
      \/ Fails(ws, o, On(Elements(ab), Root))
  BY <1>3, <1>4, <1>5, <1>7, GoesOn, GoesToFail
<1>10. CASE Goes(ws, o, On(Elements(ab), Root), z, Root)
  BY <1>1, <1>7, <1>8, <1>10, FullRead DEF o
<1>11. CASE Fails(ws, o, On(Elements(ab), Root))
  BY <1>1, <1>8, <1>11, FullFails DEF o
<1> QED
  BY <1>9, <1>10, <1>11
===============================================================================
