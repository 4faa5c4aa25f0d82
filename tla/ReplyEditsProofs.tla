--------------------------- MODULE ReplyEditsProofs ---------------------------
(***************************************************************************)
(* ReplyEdits keeps its types, never has a block freed under a holder,     *)
(* gives none of its own blocks away, changes no buffer that Telegram      *)
(* keeps, leaves every reply whole and implements AtomicReplies, for any   *)
(* number of blocks, any replies and any configurations.                   *)
(***************************************************************************)
EXTENDS ReplyEdits, FiniteSetTheorems, SequenceTheorems, WellFoundedInduction, TLAPS

USE DEF vars, telegramVars, hookVars

\* A function on the first numbers is a sequence.
LEMMA SeqOfFunction ==
  ASSUME NEW S, NEW n \in Nat, NEW f \in [1 .. n -> S]
  PROVE  f \in Seq(S) /\ Len(f) = n /\ DOMAIN f = 1 .. n
OBVIOUS

\* A set of numbers that is not empty has a least one.
LEMMA LeastExists ==
  ASSUME NEW T, T \subseteq Nat, T # {}
  PROVE  \E x \in T : \A y \in T : x <= y
<1>1. PICK x \in T : \A y \in T : ~ (<<y, x>> \in OpToRel(<, Nat))
  BY NatLessThanWellFounded, WFMin
<1>2. \A y \in T : ~(y < x)
  BY <1>1 DEF OpToRel
<1> QED
  BY <1>2

\* An allocator that has a block left hands out one that nobody has.
LEMMA FreshBlock ==
  ASSUME Unallocated # {}
  PROVE  LeastUnallocated \in Address /\ heap[LeastUnallocated].owner = "none"
<1>1. Unallocated \subseteq Nat
  BY DEF Unallocated, Address
<1>2. \E a \in Unallocated : \A b \in Unallocated : a <= b
  BY <1>1, LeastExists
<1>3. LeastUnallocated \in Unallocated
  BY <1>2 DEF LeastUnallocated
<1> QED
  BY <1>3 DEF Unallocated

----------------------------------------------------------------------------
(* Blocks.                                                                 *)

Block == [owner : {"none", "telegram", "host"}, ref : Int, kind : Kind,
          size : Nat, count : Nat, words : Seq(Word)]

\* A block that publishes no more than it has.
Sound(b) == b \in Block /\ b.size <= Capacity(b)

\* Nothing, what arrives, and what is built are blocks.
LEMMA NoBlockType == Sound(NoBlock) /\ NoBlock.owner = "none"
BY DEF Sound, Block, NoBlock, Kind, Capacity

LEMMA ReceivedType ==
  ASSUME NEW reply \in Replies, NEW ref \in Int
  PROVE  /\ Sound(Received(reply, ref))
         /\ Received(reply, ref).owner = "telegram" /\ Received(reply, ref).ref = ref
<1>1. /\ reply.kind \in Kind /\ reply.elements \in Seq(Word) /\ reply.slack \in Nat
      /\ reply.elements \in Seq(Element)
  BY RepliesAssumption DEF Word
<1>2. [k \in 1 .. reply.slack |-> "trash"] \in Seq(Word)
  BY <1>1, SeqOfFunction DEF Word
<1>3. Len([k \in 1 .. reply.slack |-> "trash"]) = reply.slack
  BY <1>1, SeqOfFunction
<1>4. /\ reply.elements \o [k \in 1 .. reply.slack |-> "trash"] \in Seq(Word)
      /\ Len(reply.elements \o [k \in 1 .. reply.slack |-> "trash"])
           = Len(reply.elements) + reply.slack
  BY <1>1, <1>2, <1>3, ConcatProperties
<1>5. CountOf(reply.elements) \in Nat
  <2>1. DOMAIN reply.elements = 1 .. Len(reply.elements) /\ Len(reply.elements) \in Nat
    BY <1>1
  <2>2. IsFiniteSet(1 .. Len(reply.elements))
    BY <2>1, FS_Interval
  <2>3. {k \in DOMAIN reply.elements : reply.elements[k] # "alien"} \in SUBSET (1 .. Len(reply.elements))
    BY <2>1
  <2>4. IsFiniteSet({k \in DOMAIN reply.elements : reply.elements[k] # "alien"})
    BY <2>2, <2>3, FS_Subset
  <2> QED
    BY <2>4, FS_CardinalityType DEF CountOf
<1>6. Len(reply.elements) \in Nat
  BY <1>1
<1> QED
  BY <1>1, <1>4, <1>5, <1>6 DEF Received, Sound, Block, Capacity

LEMMA BuiltType ==
  ASSUME NEW kind \in Kind, NEW elements \in Seq(Word)
  PROVE  /\ Sound(Built(kind, elements))
         /\ Built(kind, elements).owner = "host" /\ Built(kind, elements).ref = STATIC
BY DEF Built, Sound, Block, Capacity, STATIC

\* A copy with more room is ours.
LEMMA GrownType ==
  ASSUME NEW b, Sound(b), NEW capacity \in Nat, b.size <= capacity
  PROVE  /\ Sound(Grown(b, capacity)) /\ Capacity(Grown(b, capacity)) = capacity
         /\ Grown(b, capacity).owner = "host" /\ Grown(b, capacity).ref = STATIC
         /\ Grown(b, capacity).size = b.size
<1> DEFINE w == [k \in 1 .. capacity |-> IF k <= b.size THEN b.words[k] ELSE "trash"]
<1>1. /\ b.size \in Nat /\ b.words \in Seq(Word) /\ b.size <= Len(b.words)
      /\ b.kind \in Kind /\ b.count \in Nat
  BY DEF Sound, Block, Capacity
<1>2. w \in [1 .. capacity -> Word]
  BY <1>1 DEF Word
<1>3. w \in Seq(Word) /\ Len(w) = capacity
  BY <1>2, SeqOfFunction
<1>4. Grown(b, capacity) = [owner |-> "host", ref |-> STATIC, kind |-> b.kind, size |-> b.size,
                            count |-> b.count, words |-> w]
  BY DEF Grown
<1> HIDE DEF w
<1> QED
  BY <1>1, <1>3, <1>4 DEF Sound, Block, Capacity, STATIC

\* What a feature adds.
LEMMA AddedType ==
  ASSUME NEW f
  PROVE  Added(f) \in Seq(Word) /\ Len(Added(f)) \in 1 .. 3
<1>1. /\ <<"since", "until", "appeal">> \in Seq(Word) /\ Len(<<"since", "until", "appeal">>) = 3
      /\ <<"blocked">> \in Seq(Word) /\ Len(<<"blocked">>) = 1
      /\ <<"hiddenGift">> \in Seq(Word) /\ Len(<<"hiddenGift">>) = 1
  BY DEF Word, Element
<1>2. \/ Added(f) = <<"since", "until", "appeal">>
      \/ Added(f) = <<"blocked">>
      \/ Added(f) = <<"hiddenGift">>
  BY DEF Added
<1>3. 1 \in 1 .. 3 /\ 3 \in 1 .. 3
  OBVIOUS
<1> QED
  BY <1>1, <1>2, <1>3, Zenon

\* A block with another count and other words.
Rewritten(b, n, w) == [b EXCEPT !.count = n, !.words = w]

LEMMA RewrittenType ==
  ASSUME NEW b \in Block, NEW n \in Nat, NEW w \in Seq(Word), Len(w) = Len(b.words)
  PROVE  /\ Rewritten(b, n, w) \in Block /\ Len(Rewritten(b, n, w).words) = Len(b.words)
         /\ Rewritten(b, n, w).size = b.size /\ Rewritten(b, n, w).owner = b.owner
         /\ Rewritten(b, n, w).ref = b.ref /\ Rewritten(b, n, w).count = n
<1> DEFINE d == [b EXCEPT !.count = n]
<1>1. d \in Block /\ d.size = b.size /\ d.owner = b.owner /\ d.ref = b.ref /\ d.count = n
  BY DEF Block
<1>2. Rewritten(b, n, w) = [d EXCEPT !.words = w]
  BY DEF Rewritten
<1> HIDE DEF d
<1>3. Rewritten(b, n, w) \in Block
  BY <1>1, <1>2 DEF Block
<1> QED
  BY <1>1, <1>2, <1>3 DEF Block

\* Words that are moved up, and back, stay in their block.
LEMMA OpenedType ==
  ASSUME NEW b, Sound(b), NEW at \in 1 .. b.size + 1, NEW new \in Seq(Word),
         b.size + Len(new) <= Capacity(b)
  PROVE  LET c == Opened(b, at, new)
         IN /\ c \in Block /\ Capacity(c) = Capacity(b) /\ c.size = b.size
            /\ c.owner = b.owner /\ c.ref = b.ref /\ c.count = b.count + Len(new)
<1> DEFINE n == Len(new)
           w == [k \in DOMAIN b.words |->
                    IF k \in at .. at + n - 1 THEN new[k - at + 1]
                    ELSE IF k \in at + n .. b.size + n THEN b.words[k - n]
                    ELSE b.words[k]]
<1>1. /\ b \in Block /\ b.size \in Nat /\ b.words \in Seq(Word) /\ b.size <= Len(b.words)
      /\ b.count \in Nat /\ n \in Nat /\ Len(b.words) \in Nat
      /\ DOMAIN b.words = 1 .. Len(b.words) /\ DOMAIN new = 1 .. n
      /\ \A k \in 1 .. Len(b.words) : b.words[k] \in Word
      /\ \A k \in 1 .. n : new[k] \in Word
  BY DEF Sound, Block, Capacity
<1>2. ASSUME NEW k \in 1 .. Len(b.words) PROVE w[k] \in Word
  <2>1. CASE k \in at .. at + n - 1
    <3>1. k - at + 1 \in 1 .. n
      BY <1>1, <2>1
    <3> QED
      BY <1>1, <2>1, <3>1
  <2>2. CASE k \notin at .. at + n - 1 /\ k \in at + n .. b.size + n
    <3>1. k - n \in 1 .. Len(b.words)
      BY <1>1, <2>2
    <3> QED
      BY <1>1, <2>2, <3>1
  <2>3. CASE k \notin at .. at + n - 1 /\ k \notin at + n .. b.size + n
    BY <1>1, <2>3
  <2> QED
    BY <2>1, <2>2, <2>3
<1>3. w \in [1 .. Len(b.words) -> Word]
  BY <1>1, <1>2
<1>4. w \in Seq(Word) /\ Len(w) = Len(b.words)
  BY <1>1, <1>3, SeqOfFunction
<1>5. Opened(b, at, new) = Rewritten(b, b.count + n, w)
  BY <1>1 DEF Opened, Block, Rewritten
<1>6. b.count + n \in Nat
  BY <1>1
<1> HIDE DEF w
<1>7. PICK m \in Nat : m = b.count + n
  BY <1>6
<1>8. /\ Rewritten(b, m, w) \in Block /\ Len(Rewritten(b, m, w).words) = Len(b.words)
      /\ Rewritten(b, m, w).size = b.size /\ Rewritten(b, m, w).count = m
      /\ Rewritten(b, m, w).owner = b.owner /\ Rewritten(b, m, w).ref = b.ref
  BY <1>1, <1>4, RewrittenType
<1> QED
  BY <1>5, <1>7, <1>8 DEF Capacity

LEMMA UndoneType ==
  ASSUME NEW b, b \in Block, NEW at \in 1 .. b.size + 1, NEW new \in Seq(Word),
         b.size + Len(new) <= Capacity(b), b.count - Len(new) \in Nat
  PROVE  /\ Sound(Undone(b, at, new))
         /\ Undone(b, at, new).owner = b.owner /\ Undone(b, at, new).ref = b.ref
<1> DEFINE n == Len(new)
           w == [k \in DOMAIN b.words |-> IF k \in at .. b.size THEN b.words[k + n] ELSE b.words[k]]
<1>1. /\ b.size \in Nat /\ b.words \in Seq(Word) /\ b.size + n <= Len(b.words)
      /\ b.count \in Nat /\ n \in Nat /\ Len(b.words) \in Nat
      /\ DOMAIN b.words = 1 .. Len(b.words)
      /\ \A k \in 1 .. Len(b.words) : b.words[k] \in Word
  BY DEF Block, Capacity
<1>2. ASSUME NEW k \in 1 .. Len(b.words) PROVE w[k] \in Word
  <2>1. CASE k \in at .. b.size
    <3>1. k + n \in 1 .. Len(b.words)
      BY <1>1, <2>1
    <3> QED
      BY <1>1, <2>1, <3>1
  <2>2. CASE k \notin at .. b.size
    BY <1>1, <2>2
  <2> QED
    BY <2>1, <2>2
<1>3. w \in [1 .. Len(b.words) -> Word]
  BY <1>1, <1>2
<1>4. w \in Seq(Word) /\ Len(w) = Len(b.words)
  BY <1>1, <1>3, SeqOfFunction
<1>5. Undone(b, at, new) = Rewritten(b, b.count - n, w)
  BY <1>1 DEF Undone, Block, Rewritten
<1>6. b.count - n \in Nat /\ b.size <= Len(b.words)
  BY <1>1
<1> HIDE DEF w, n
<1>7. /\ Rewritten(b, b.count - n, w) \in Block
      /\ Len(Rewritten(b, b.count - n, w).words) = Len(b.words)
      /\ Rewritten(b, b.count - n, w).size = b.size
      /\ Rewritten(b, b.count - n, w).owner = b.owner /\ Rewritten(b, b.count - n, w).ref = b.ref
  BY <1>4, <1>6, RewrittenType
<1> QED
  BY <1>5, <1>6, <1>7 DEF Sound, Capacity

\* Whether the edit is published or reverted, the block is the same one.
LEMMA EditedType ==
  ASSUME NEW b, Sound(b), NEW f, Fits(f, b)
  PROVE  Sound(Edited(b, f)) /\ Edited(b, f).owner = b.owner /\ Edited(b, f).ref = b.ref
<1> DEFINE new == Added(f)
           at == Place(f, b)
           tried == Opened(b, at, new)
<1>1. new \in Seq(Word) /\ Len(new) \in Nat /\ b.size \in Nat /\ b.count \in Nat
  BY AddedType DEF Sound, Block
<1>2. at \in 1 .. b.size + 1 /\ b.size + Len(new) <= Capacity(b)
  BY <1>1 DEF Place, Fits, Needed
<1>3. /\ tried \in Block /\ Capacity(tried) = Capacity(b) /\ tried.size = b.size
      /\ tried.owner = b.owner /\ tried.ref = b.ref /\ tried.count = b.count + Len(new)
  BY <1>1, <1>2, OpenedType
<1>4. Edited(b, f) = IF Valid(tried, b.size + Len(new)) THEN [tried EXCEPT !.size = b.size + Len(new)]
                                                        ELSE Undone(tried, at, new)
  BY DEF Edited
<1> HIDE DEF tried, at, new
<1>5. CASE Valid(tried, b.size + Len(new))
  <2>1. /\ Edited(b, f) = [tried EXCEPT !.size = b.size + Len(new)]
        /\ b.size + Len(new) \in Nat
    BY <1>1, <1>4, <1>5
  <2>2. Edited(b, f) \in Block
    BY <1>3, <2>1 DEF Block
  <2>3. /\ Edited(b, f).size = b.size + Len(new) /\ Edited(b, f).words = tried.words
        /\ Edited(b, f).owner = tried.owner /\ Edited(b, f).ref = tried.ref
    BY <1>3, <2>1 DEF Block
  <2> QED
    BY <1>2, <1>3, <2>2, <2>3 DEF Sound, Capacity
<1>6. CASE ~Valid(tried, b.size + Len(new))
  <2>1. at \in 1 .. tried.size + 1 /\ tried.count - Len(new) \in Nat
    BY <1>1, <1>2, <1>3
  <2> QED
    BY <1>1, <1>2, <1>3, <1>4, <1>6, <2>1, UndoneType
<1> QED
  BY <1>5, <1>6

LEMMA FlippedType ==
  ASSUME NEW b, Sound(b)
  PROVE  Sound(Flipped(b)) /\ Flipped(b).owner = b.owner /\ Flipped(b).ref = b.ref
<1> DEFINE w == [k \in DOMAIN b.words |-> IF k <= b.size /\ b.words[k] = "notBlocked"
                                            THEN "blocked" ELSE b.words[k]]
<1>1. /\ b \in Block /\ b.words \in Seq(Word) /\ Len(b.words) \in Nat
      /\ DOMAIN b.words = 1 .. Len(b.words)
      /\ \A k \in 1 .. Len(b.words) : b.words[k] \in Word
  BY DEF Sound, Block
<1>2. w \in [1 .. Len(b.words) -> Word]
  BY <1>1 DEF Word, Element
<1>3. w \in Seq(Word) /\ Len(w) = Len(b.words)
  BY <1>1, <1>2, SeqOfFunction
<1>4. Flipped(b) = [b EXCEPT !.words = w]
  BY <1>1 DEF Flipped, Block
<1> HIDE DEF w
<1> QED
  BY <1>1, <1>3, <1>4 DEF Sound, Block, Capacity

----------------------------------------------------------------------------
(* References.                                                             *)

Entry == [at : Address, came : Replies, tracked : BOOLEAN]

InQueue(a) == \E i \in DOMAIN queue : queue[i].at = a

\* While the hook walks, what it saw is still there.
WalkInv == walk \in 1 .. seen => seen <= Len(queue)

\* No two replies live in one block.
Distinct == \A i, j \in DOMAIN queue : queue[i].at = queue[j].at => i = j

\* Nobody holds a free block, a block of Telegram is counted at least once for the
\* queue and once for whoever keeps it, and ours are never counted.
RefInv ==
  \A a \in Address :
    /\ heap[a].owner = "none" => kept[a] = 0 /\ ~InQueue(a)
    /\ heap[a].owner = "telegram" => heap[a].ref >= kept[a] + (IF InQueue(a) THEN 1 ELSE 0)
    /\ heap[a].owner = "host" => heap[a].ref = STATIC

IInv == TypeOK /\ WalkInv /\ Distinct /\ RefInv

\* What a step may not do to a block: take one of ours away, or change one that
\* Telegram keeps.
Spared(a) ==
  /\ heap[a].owner = "host" => heap'[a].owner = "host"
  /\ kept[a] > 0 /\ kept'[a] > 0 =>
       /\ heap'[a].count = heap[a].count
       /\ heap'[a].size = heap[a].size
       /\ heap'[a].words = heap[a].words

\* The memory consists of sound blocks.
LEMMA HeapType ==
  /\ TypeOK => heap \in [Address -> Block] /\ \A a \in Address : Sound(heap[a])
  /\ TypeOK => queue \in Seq(Entry) /\ kept \in [Address -> Nat]
BY DEF TypeOK, Block, Sound, Entry

\* The types, part by part, after a step.
LEMMA TypeAfter ==
  ASSUME heap' \in [Address -> Block], \A a \in Address : Sound(heap'[a]),
         queue' \in Seq(Entry), kept' \in [Address -> Nat], on' \in Configs,
         relocated' \in BOOLEAN,
         seen' \in Nat, walk' \in 0 .. seen' + 1, turn' \in 1 .. Len(Chain)
  PROVE  TypeOK'
BY DEF TypeOK, Block, Sound, Entry

\* The hook is at a reply, which somebody owns.
LEMMA HereIsReply ==
  ASSUME IInv, walk \in 1 .. seen
  PROVE  /\ walk \in DOMAIN queue /\ queue[walk] \in Entry /\ Sound(Here)
         /\ queue[walk].at \in Address /\ Here = heap[queue[walk].at]
         /\ Here.owner # "none"
         /\ Here.ref = 1 => kept[queue[walk].at] = 0 /\ Here.owner = "telegram"
<1>1. queue \in Seq(Entry) /\ Len(queue) \in Nat /\ DOMAIN queue = 1 .. Len(queue) /\ seen \in Nat
  <2>1. queue \in Seq(Entry)
    BY HeapType DEF IInv
  <2>2. seen \in Nat
    BY DEF IInv, TypeOK
  <2> QED
    BY <2>1, <2>2
<1>2. walk \in DOMAIN queue /\ queue[walk] \in Entry
  BY <1>1 DEF IInv, WalkInv
<1>3. queue[walk].at \in Address /\ InQueue(queue[walk].at)
  BY <1>2 DEF Entry, InQueue
<1>4. Sound(Here) /\ Here.owner \in {"none", "telegram", "host"} /\ kept[queue[walk].at] \in Nat
  BY <1>3, HeapType DEF IInv, Here, Sound, Block
<1>5. Here.owner # "none" /\ (Here.ref = 1 => kept[queue[walk].at] = 0 /\ Here.owner = "telegram")
  BY <1>3, <1>4 DEF IInv, RefInv, Here, STATIC
<1> QED
  BY <1>2, <1>3, <1>4, <1>5 DEF Here

\* The walk goes on within what it saw.
LEMMA NextTurnType ==
  ASSUME IInv, walk \in 1 .. seen, NextTurn
  PROVE  /\ seen' = seen /\ seen \in Nat /\ walk' \in 0 .. seen' + 1 /\ turn' \in 1 .. Len(Chain)
<1>1. seen \in Nat /\ turn \in 1 .. Len(Chain) /\ Len(Chain) = 5
  BY DEF IInv, TypeOK, Chain
<1> QED
  BY <1>1 DEF NextTurn

\* A rewriter that edits in place changes a block nobody else holds.
LEMMA EditKeeps ==
  ASSUME IInv, walk \in 1 .. seen, NEW b, Sound(b), b.owner = Here.owner, b.ref = Here.ref,
         Here.ref = 1, heap' = [heap EXCEPT ![queue[walk].at] = b], NextTurn,
         UNCHANGED <<on, telegramVars, relocated>>
  PROVE  IInv' /\ \A a \in Address : Spared(a)
<1>1. PICK c \in Address : c = queue[walk].at /\ Here = heap[c] /\ kept[c] = 0
                           /\ Here.owner = "telegram"
  BY HereIsReply
<1>2. /\ heap'[c] = b /\ heap' \in [Address -> Block]
      /\ \A a \in Address : a # c => heap'[a] = heap[a]
      /\ \A a \in Address : Sound(heap'[a])
  BY <1>1, HeapType DEF IInv, Sound
<1>3. TypeOK'
  BY <1>2, NextTurnType DEF IInv, TypeOK, Block, Sound
<1>4. WalkInv' /\ Distinct'
  BY NextTurnType DEF IInv, WalkInv, Distinct
<1>5. \A a \in Address : heap'[a].owner = heap[a].owner /\ heap'[a].ref = heap[a].ref
  BY <1>1, <1>2
<1>6. RefInv'
  <2>1. \A a : InQueue(a)' <=> InQueue(a)
    BY DEF InQueue
  <2> QED
    BY <1>5, <2>1 DEF IInv, RefInv
<1>7. \A a \in Address : Spared(a)
  BY <1>1, <1>2, <1>5 DEF Spared
<1> QED
  BY <1>3, <1>4, <1>6, <1>7 DEF IInv

\* A rewriter that swaps puts a fresh block of ours into the queue.
LEMMA SwapKeeps ==
  ASSUME IInv, walk \in 1 .. seen, Unallocated # {}, NEW b, Sound(b), b.owner = "host",
         b.ref = STATIC, NEW x \in BOOLEAN, Swap(b, x), NextTurn, UNCHANGED <<on, kept>>,
         relocated' \in BOOLEAN
  PROVE  IInv' /\ \A a \in Address : Spared(a)
<1>1. PICK n \in Address : n = LeastUnallocated /\ heap[n].owner = "none"
  BY FreshBlock
<1>2. kept[n] = 0 /\ ~InQueue(n)
  BY <1>1 DEF IInv, RefInv
<1>3. /\ heap'[n] = b /\ heap' \in [Address -> Block]
      /\ \A a \in Address : a # n => heap'[a] = heap[a]
      /\ \A a \in Address : Sound(heap'[a])
  BY <1>1, HeapType DEF IInv, Sound, Swap
<1>4. /\ walk \in DOMAIN queue /\ queue[walk] \in Entry /\ queue \in Seq(Entry)
      /\ DOMAIN queue = 1 .. Len(queue) /\ Len(queue) \in Nat
  BY HereIsReply, HeapType DEF IInv
<1>5. PICK e \in Entry : e.at = n /\ queue' = [queue EXCEPT ![walk] = e]
  <2> DEFINE e == [at |-> n, came |-> queue[walk].came, tracked |-> x]
  <2>1. e \in Entry /\ e.at = n
    BY <1>4 DEF Entry
  <2>2. queue' = [queue EXCEPT ![walk] = e]
    BY <1>1, <1>4 DEF Swap, Entry
  <2> QED
    BY <2>1, <2>2
<1>6. /\ queue' \in Seq(Entry) /\ Len(queue') = Len(queue) /\ DOMAIN queue' = DOMAIN queue
      /\ queue'[walk].at = n
      /\ \A i \in DOMAIN queue : i # walk => queue'[i] = queue[i]
  BY <1>4, <1>5
<1>7. TypeOK'
  BY <1>3, <1>6, NextTurnType DEF IInv, TypeOK, Block, Sound, Entry
<1>8. WalkInv'
  BY <1>6, NextTurnType DEF IInv, WalkInv
<1>9. Distinct'
  BY <1>2, <1>6 DEF IInv, Distinct, InQueue
<1>10. \A a \in Address : a # n /\ InQueue(a)' => InQueue(a)
  BY <1>6 DEF InQueue
<1>11. RefInv'
  <2> SUFFICES ASSUME NEW a \in Address
               PROVE  /\ heap'[a].owner = "none" => kept'[a] = 0 /\ ~InQueue(a)'
                      /\ heap'[a].owner = "telegram" =>
                           heap'[a].ref >= kept'[a] + (IF InQueue(a)' THEN 1 ELSE 0)
                      /\ heap'[a].owner = "host" => heap'[a].ref = STATIC
    BY DEF RefInv
  <2>1. CASE a = n
    BY <1>3, <2>1
  <2>2. CASE a # n
    <3>1. heap'[a] = heap[a] /\ kept'[a] = kept[a] /\ kept[a] \in Nat /\ heap[a].ref \in Int
      BY <1>3, <2>2, HeapType DEF IInv, Block
    <3> QED
      BY <1>10, <2>2, <3>1 DEF IInv, RefInv
  <2> QED
    BY <2>1, <2>2
<1>12. \A a \in Address : Spared(a)
  BY <1>1, <1>2, <1>3 DEF Spared
<1> QED
  BY <1>7, <1>8, <1>9, <1>11, <1>12 DEF IInv

\* A reference is dropped: at the last one Telegram frees the block.
LEMMA ReleasedType ==
  ASSUME IInv, NEW c \in Address
  PROVE  /\ Released(heap, c) \in [Address -> Block]
         /\ \A a \in Address : Sound(Released(heap, c)[a])
         /\ \A a \in Address : a # c => Released(heap, c)[a] = heap[a]
         /\ heap[c].owner = "host" => Released(heap, c)[c] = heap[c]
         /\ heap[c].owner = "telegram" =>
              \/ heap[c].ref = STATIC
              \/ heap[c].ref = 1 /\ Released(heap, c)[c] = NoBlock
              \/ /\ Released(heap, c)[c].owner = "telegram"
                 /\ Released(heap, c)[c].ref = heap[c].ref - 1
                 /\ Released(heap, c)[c].count = heap[c].count
                 /\ Released(heap, c)[c].size = heap[c].size
                 /\ Released(heap, c)[c].words = heap[c].words
                 /\ Released(heap, c)[c].kind = heap[c].kind
<1>1. heap \in [Address -> Block] /\ \A a \in Address : Sound(heap[a])
  BY HeapType DEF IInv
<1>2. CASE heap[c].ref = STATIC
  <2>1. STATIC # 1
    BY DEF STATIC
  <2>2. heap[c].ref # 1
    BY <1>2, <2>1
  <2>3. Released(heap, c) = heap
    BY <1>2, <2>2, Zenon DEF Released
  <2> QED
    BY <1>1, <1>2, <2>3
<1>3. CASE heap[c].ref = 1
  <2>1. Released(heap, c) = [heap EXCEPT ![c] = NoBlock]
    BY <1>3 DEF Released, STATIC
  <2>2. heap[c].owner # "host"
    BY <1>3 DEF IInv, RefInv, STATIC
  <2> DEFINE d == NoBlock
  <2>3. Sound(d) /\ d = NoBlock
    BY NoBlockType
  <2> HIDE DEF d
  <2>4. Released(heap, c) = [heap EXCEPT ![c] = d]
    BY <2>1, <2>3
  <2> QED
    BY <1>1, <1>3, <2>2, <2>3, <2>4 DEF Sound
<1>4. CASE heap[c].ref # STATIC /\ heap[c].ref # 1
  <2> DEFINE d == Dropped(heap[c])
  <2>1. /\ Sound(d) /\ d.owner = heap[c].owner /\ d.ref = heap[c].ref - 1
        /\ d.count = heap[c].count /\ d.size = heap[c].size /\ d.words = heap[c].words
        /\ d.kind = heap[c].kind
    <3>1. heap[c] \in Block /\ heap[c].size <= Len(heap[c].words)
      BY <1>1 DEF Sound, Capacity
    <3>2. d \in Block
      BY <3>1 DEF Block, Dropped
    <3>3. /\ d.owner = heap[c].owner /\ d.ref = heap[c].ref - 1
          /\ d.count = heap[c].count /\ d.size = heap[c].size /\ d.words = heap[c].words
          /\ d.kind = heap[c].kind
      BY <3>1 DEF Block, Dropped
    <3> QED
      BY <3>1, <3>2, <3>3 DEF Sound, Capacity
  <2>2. Released(heap, c) = [heap EXCEPT ![c] = d]
    BY <1>1, <1>4 DEF Released
  <2>3. heap[c].owner # "host"
    BY <1>4 DEF IInv, RefInv
  <2> HIDE DEF d
  <2> QED
    BY <1>1, <2>1, <2>2, <2>3 DEF Sound
<1> QED
  BY <1>2, <1>3, <1>4

\* Telegram lets go of a buffer it keeps.
LEMMA ForgetKeeps ==
  ASSUME IInv, NEW c \in Address, Forget(c)
  PROVE  IInv' /\ \A a \in Address : Spared(a)
<1>1. /\ heap \in [Address -> Block] /\ kept \in [Address -> Nat] /\ kept[c] > 0
      /\ kept' = [kept EXCEPT ![c] = kept[c] - 1] /\ heap' = Released(heap, c)
  BY HeapType DEF IInv, Forget
<1>2. heap[c].owner \in {"none", "telegram", "host"} /\ heap[c].ref \in Int
  BY <1>1 DEF Block
<1>3. TypeOK'
  <2>1. kept' \in [Address -> Nat]
    BY <1>1
  <2> QED
    <3>1. heap' \in [Address -> Block] /\ \A a \in Address : Sound(heap'[a])
      BY <1>1, ReleasedType
    <3>2. UNCHANGED <<on, queue, hookVars, relocated>> /\ queue \in Seq(Entry)
      BY HeapType DEF Forget, IInv
    <3>3. /\ on \in Configs /\ relocated \in BOOLEAN /\ seen \in Nat /\ walk \in 0 .. seen + 1
          /\ turn \in 1 .. Len(Chain)
      BY DEF IInv, TypeOK
    <3> QED
      BY <2>1, <3>1, <3>2, <3>3, TypeAfter
<1>4. WalkInv' /\ Distinct' /\ \A a : InQueue(a)' <=> InQueue(a)
  BY DEF IInv, Forget, WalkInv, Distinct, InQueue
<1>5. ASSUME NEW a \in Address, a # c
      PROVE  heap'[a] = heap[a] /\ kept'[a] = kept[a]
  BY <1>1, <1>5, ReleasedType
<1>6. CASE heap[c].owner = "host"
  <2>1. heap'[c] = heap[c]
    BY <1>1, <1>6, ReleasedType
  <2>2. RefInv'
    BY <1>1, <1>4, <1>5, <1>6, <2>1 DEF IInv, RefInv
  <2> QED
    BY <1>3, <1>4, <1>5, <2>1, <2>2 DEF IInv, Spared
<1>7. CASE heap[c].owner = "telegram"
  <2>1. heap[c].ref >= kept[c] + (IF InQueue(c) THEN 1 ELSE 0) /\ kept[c] \in Nat
    BY <1>1, <1>7 DEF IInv, RefInv
  <2>2. \/ heap[c].ref = 1 /\ kept[c] = 1 /\ ~InQueue(c) /\ heap'[c] = NoBlock
        \/ /\ heap'[c].owner = "telegram" /\ heap'[c].ref = heap[c].ref - 1
           /\ heap'[c].count = heap[c].count /\ heap'[c].size = heap[c].size
           /\ heap'[c].words = heap[c].words
    <3>1. heap[c].ref # STATIC
      BY <1>1, <1>2, <2>1 DEF STATIC
    <3>2. heap[c].ref = 1 => kept[c] = 1 /\ ~InQueue(c)
      BY <1>1, <2>1
    <3> QED
      BY <1>1, <1>7, <3>1, <3>2, ReleasedType
  <2>3. kept'[c] = kept[c] - 1
    BY <1>1
  <2>4. ASSUME NEW a \in Address
        PROVE  /\ heap'[a].owner = "none" => kept'[a] = 0 /\ ~InQueue(a)
               /\ heap'[a].owner = "telegram" =>
                    heap'[a].ref >= kept'[a] + (IF InQueue(a) THEN 1 ELSE 0)
               /\ heap'[a].owner = "host" => heap'[a].ref = STATIC
    <3>1. CASE a = c /\ heap[c].ref = 1 /\ kept[c] = 1 /\ ~InQueue(c) /\ heap'[c] = NoBlock
      BY <2>3, <3>1, NoBlockType
    <3>2. CASE a = c /\ heap'[c].owner = "telegram" /\ heap'[c].ref = heap[c].ref - 1
      BY <1>2, <2>1, <2>3, <3>2
    <3>3. CASE a # c
      BY <1>5, <3>3 DEF IInv, RefInv
    <3> QED
      BY <2>2, <3>1, <3>2, <3>3
  <2>5. RefInv'
    BY <1>4, <2>4 DEF RefInv
  <2>6. ASSUME NEW a \in Address PROVE Spared(a)
    <3>1. CASE a = c
      BY <1>7, <2>1, <2>2, <2>3, <3>1 DEF Spared
    <3>2. CASE a # c
      BY <1>5, <3>2 DEF Spared
    <3> QED
      BY <3>1, <3>2
  <2> QED
    BY <1>3, <1>4, <2>5, <2>6 DEF IInv
<1>8. CASE heap[c].owner = "none"
  BY <1>1, <1>8 DEF IInv, RefInv
<1> QED
  BY <1>2, <1>6, <1>7, <1>8

\* A reply leaves the queue: its buffer is kept, or its reference is dropped.
LEMMA DispatchKeeps ==
  ASSUME IInv, NEW keep \in BOOLEAN, Dispatch(keep)
  PROVE  IInv' /\ \A a \in Address : Spared(a)
<1>1. /\ heap \in [Address -> Block] /\ kept \in [Address -> Nat]
      /\ queue \in Seq(Entry) /\ queue # <<>> /\ queue' = Tail(queue) /\ walk > seen
  BY HeapType DEF IInv, Dispatch, Walked
<1>2. PICK c : c = Head(queue).at
  OBVIOUS
<1>3. /\ Len(queue) \in Nat /\ Len(queue) >= 1 /\ DOMAIN queue = 1 .. Len(queue)
      /\ queue[1] = Head(queue) /\ c \in Address
  <2>1. Len(queue) \in Nat /\ Len(queue) >= 1 /\ DOMAIN queue = 1 .. Len(queue)
    BY <1>1
  <2>2. queue[1] = Head(queue) /\ Head(queue) \in Entry
    BY <1>1, <2>1, HeadTailProperties
  <2> QED
    BY <1>2, <2>1, <2>2 DEF Entry
<1>4. /\ queue' \in Seq(Entry) /\ Len(queue') = Len(queue) - 1
      /\ DOMAIN queue' = 1 .. Len(queue) - 1
      /\ \A i \in 1 .. Len(queue) - 1 : queue'[i] = queue[i + 1]
  <2>1. Tail(queue) \in Seq(Entry) /\ Len(Tail(queue)) = Len(queue) - 1
    BY <1>1, HeadTailProperties
  <2>2. \A i \in 1 .. Len(queue) - 1 : Tail(queue)[i] = queue[i + 1]
    BY <1>1, <1>3
  <2> QED
    BY <1>1, <1>3, <2>1, <2>2
<1>5. /\ heap[c].owner \in {"none", "telegram", "host"} /\ heap[c].ref \in Int
      /\ kept[c] \in Nat /\ InQueue(c)
  <2>1. InQueue(c)
    BY <1>2, <1>3 DEF InQueue
  <2> QED
    BY <1>1, <1>3, <2>1 DEF Block
<1>6. ~InQueue(c)' /\ \A a : a # c => (InQueue(a)' <=> InQueue(a))
  <2>1. ~InQueue(c)'
    BY <1>2, <1>3, <1>4 DEF IInv, Distinct, InQueue
  <2>2. ASSUME NEW a, a # c, InQueue(a)' PROVE InQueue(a)
    BY <1>3, <1>4, <2>2 DEF InQueue
  <2>3. ASSUME NEW a, a # c, InQueue(a) PROVE InQueue(a)'
    <3>1. PICK i \in 1 .. Len(queue) : queue[i].at = a
      BY <1>3, <2>3 DEF InQueue
    <3>2. i # 1
      BY <1>2, <1>3, <2>3, <3>1
    <3>3. i - 1 \in 1 .. Len(queue) - 1 /\ queue'[i - 1] = queue[i]
      BY <1>3, <1>4, <3>1, <3>2
    <3> QED
      BY <1>4, <3>1, <3>3 DEF InQueue
  <2> QED
    BY <2>1, <2>2, <2>3
<1>7. WalkInv' /\ Distinct'
  <2>1. WalkInv'
    BY <1>1 DEF IInv, TypeOK, WalkInv, Dispatch
  <2>2. ASSUME NEW i \in DOMAIN queue', NEW j \in DOMAIN queue', queue'[i].at = queue'[j].at
        PROVE  i = j
    <3>1. /\ i + 1 \in DOMAIN queue /\ j + 1 \in DOMAIN queue /\ i \in Int /\ j \in Int
          /\ queue[i + 1].at = queue[j + 1].at
      BY <1>3, <1>4, <2>2
    <3>2. i + 1 = j + 1
      BY <3>1 DEF IInv, Distinct
    <3> QED
      BY <3>1, <3>2
  <2> QED
    BY <2>1, <2>2 DEF Distinct
<1>8. heap[c].owner # "none" /\ (heap[c].owner = "telegram" => heap[c].ref >= kept[c] + 1)
      /\ (heap[c].owner = "host" => heap[c].ref = STATIC)
  BY <1>3, <1>5 DEF IInv, RefInv
<1>9. CASE keep
  <2>1. kept[c] = 0 /\ kept' = [kept EXCEPT ![c] = 1] /\ heap' = heap
    BY <1>2, <1>9 DEF Dispatch
  <2>2. TypeOK'
    <3>1. kept' \in [Address -> Nat]
      BY <1>1, <1>3, <2>1
    <3> QED
      BY <1>4, <2>1, <3>1 DEF IInv, TypeOK, Dispatch, Entry
  <2>3. ASSUME NEW a \in Address
        PROVE  /\ heap'[a].owner = "none" => kept'[a] = 0 /\ ~InQueue(a)'
               /\ heap'[a].owner = "telegram" =>
                    heap'[a].ref >= kept'[a] + (IF InQueue(a)' THEN 1 ELSE 0)
               /\ heap'[a].owner = "host" => heap'[a].ref = STATIC
    <3>1. CASE a = c
      BY <1>1, <1>5, <1>6, <1>8, <2>1, <3>1
    <3>2. CASE a # c
      BY <1>1, <1>6, <2>1, <3>2 DEF IInv, RefInv
    <3> QED
      BY <3>1, <3>2
  <2>4. RefInv'
    BY <2>3 DEF RefInv
  <2> QED
    BY <1>7, <2>1, <2>2, <2>4 DEF IInv, Spared
<1>10. CASE ~keep
  <2>1. kept' = kept /\ heap' = Released(heap, c)
    BY <1>2, <1>10 DEF Dispatch
  <2>2. TypeOK'
    BY <1>3, <1>4, <2>1, ReleasedType DEF IInv, TypeOK, Dispatch, Entry, Block, Sound
  <2>3. \A a \in Address : a # c => heap'[a] = heap[a]
    BY <1>3, <2>1, ReleasedType
  <2>4. \/ heap[c].owner = "host" /\ heap'[c] = heap[c]
        \/ kept[c] = 0 /\ heap[c].owner = "telegram" /\ heap'[c] = NoBlock
        \/ /\ heap[c].owner = "telegram"
           /\ heap'[c].owner = "telegram" /\ heap'[c].ref = heap[c].ref - 1
           /\ heap'[c].count = heap[c].count /\ heap'[c].size = heap[c].size
           /\ heap'[c].words = heap[c].words
    <3>1. heap[c].owner = "telegram" =>
            heap[c].ref # STATIC /\ (heap[c].ref = 1 => kept[c] = 0)
      BY <1>5, <1>8 DEF STATIC
    <3> QED
      BY <1>3, <1>5, <1>8, <2>1, <3>1, ReleasedType
  <2>5. ASSUME NEW a \in Address
        PROVE  /\ heap'[a].owner = "none" => kept'[a] = 0 /\ ~InQueue(a)'
               /\ heap'[a].owner = "telegram" =>
                    heap'[a].ref >= kept'[a] + (IF InQueue(a)' THEN 1 ELSE 0)
               /\ heap'[a].owner = "host" => heap'[a].ref = STATIC
    <3>1. CASE a = c /\ heap[c].owner = "host" /\ heap'[c] = heap[c]
      BY <1>8, <3>1
    <3>2. CASE a = c /\ kept[c] = 0 /\ heap'[c] = NoBlock
      BY <1>6, <2>1, <3>2, NoBlockType
    <3>3. CASE a = c /\ heap[c].owner = "telegram"
               /\ heap'[c].owner = "telegram" /\ heap'[c].ref = heap[c].ref - 1
      BY <1>5, <1>6, <1>8, <2>1, <3>3
    <3>4. CASE a # c
      BY <1>6, <2>1, <2>3, <3>4 DEF IInv, RefInv
    <3> QED
      BY <2>4, <3>1, <3>2, <3>3, <3>4
  <2>6. RefInv'
    BY <2>5 DEF RefInv
  <2>7. ASSUME NEW a \in Address PROVE Spared(a)
    <3>1. CASE a = c
      BY <2>4, <3>1 DEF Spared
    <3>2. CASE a # c
      BY <2>3, <3>2 DEF Spared
    <3> QED
      BY <3>1, <3>2
  <2> QED
    BY <1>7, <2>2, <2>6, <2>7 DEF IInv
<1> QED
  BY <1>9, <1>10

\* A reply that arrives gets a block nobody holds.
LEMMA ArriveKeeps ==
  ASSUME IInv, NEW reply \in Replies, NEW shared \in BOOLEAN, Arrive(reply, shared)
  PROVE  IInv' /\ \A a \in Address : Spared(a)
<1>1. PICK n \in Address : n = LeastUnallocated /\ heap[n].owner = "none"
  BY FreshBlock DEF Arrive
<1>2. PICK b : b = Received(reply, IF shared THEN 2 ELSE 1)
  OBVIOUS
<1>3. PICK e : e = [at |-> n, came |-> reply, tracked |-> reply.kind = "asked"]
  OBVIOUS
<1>4. PICK r \in {0, 1} : r = IF shared THEN 1 ELSE 0
  OBVIOUS
<1>5. Sound(b) /\ b.owner = "telegram" /\ b.ref = r + 1 /\ e \in Entry /\ e.at = n
  <2>1. (IF shared THEN 2 ELSE 1) = r + 1 /\ r + 1 \in Int
    BY <1>4
  <2>2. b = Received(reply, r + 1)
    BY <1>2, <2>1
  <2> QED
    BY <1>3, <2>1, <2>2, ReceivedType DEF Entry
<1>6. /\ heap' = [heap EXCEPT ![n] = b] /\ kept' = [kept EXCEPT ![n] = r]
      /\ queue' = Append(queue, e) /\ UNCHANGED <<on, hookVars, relocated>>
  BY <1>1, <1>2, <1>3, <1>4 DEF Arrive
<1>7. /\ heap \in [Address -> Block] /\ kept \in [Address -> Nat] /\ queue \in Seq(Entry)
      /\ Len(queue) \in Nat /\ DOMAIN queue = 1 .. Len(queue)
      /\ \A a \in Address : Sound(heap[a])
  BY HeapType DEF IInv
<1>8. /\ heap' \in [Address -> Block] /\ kept' \in [Address -> Nat]
      /\ heap'[n] = b /\ kept'[n] = r
      /\ \A a \in Address : a # n => heap'[a] = heap[a] /\ kept'[a] = kept[a]
      /\ \A a \in Address : Sound(heap'[a])
  BY <1>5, <1>6, <1>7 DEF Sound
<1>9. /\ queue' \in Seq(Entry) /\ Len(queue') = Len(queue) + 1
      /\ DOMAIN queue' = 1 .. Len(queue) + 1 /\ queue'[Len(queue) + 1] = e
      /\ \A i \in 1 .. Len(queue) : queue'[i] = queue[i]
  <2>1. Append(queue, e) \in Seq(Entry) /\ Len(Append(queue, e)) = Len(queue) + 1
    BY <1>5, <1>7, AppendProperties
  <2>2. /\ \A i \in 1 .. Len(queue) : Append(queue, e)[i] = queue[i]
        /\ Append(queue, e)[Len(queue) + 1] = e
    BY <1>5, <1>7, AppendProperties
  <2> QED
    BY <1>6, <1>7, <2>1, <2>2
<1>10. kept[n] = 0 /\ ~InQueue(n)
  BY <1>1 DEF IInv, RefInv
<1>11. TypeOK'
  BY <1>6, <1>8, <1>9 DEF IInv, TypeOK, Block, Sound, Entry
<1>12. WalkInv'
  BY <1>6, <1>7, <1>9 DEF IInv, TypeOK, WalkInv
<1>13. Distinct'
  <2> SUFFICES ASSUME NEW i \in DOMAIN queue', NEW j \in DOMAIN queue',
                      queue'[i].at = queue'[j].at
               PROVE  i = j
    BY DEF Distinct
  <2>1. CASE i \in 1 .. Len(queue) /\ j \in 1 .. Len(queue)
    BY <1>7, <1>9, <2>1 DEF IInv, Distinct
  <2>2. \A k \in 1 .. Len(queue) : queue'[k].at # n
    BY <1>7, <1>9, <1>10 DEF InQueue
  <2>3. queue'[Len(queue) + 1].at = n
    BY <1>5, <1>9
  <2> QED
    BY <1>7, <1>9, <2>1, <2>2, <2>3
<1>14. ASSUME NEW a \in Address, a # n, InQueue(a)' PROVE InQueue(a)
  <2>1. PICK i \in DOMAIN queue' : queue'[i].at = a
    BY <1>14 DEF InQueue
  <2>2. i # Len(queue) + 1
    BY <1>5, <1>9, <1>14, <2>1
  <2>3. i \in DOMAIN queue /\ queue'[i] = queue[i]
    BY <1>7, <1>9, <2>1, <2>2
  <2> QED
    BY <2>1, <2>3 DEF InQueue
<1>15. RefInv'
  <2> SUFFICES ASSUME NEW a \in Address
               PROVE  /\ heap'[a].owner = "none" => kept'[a] = 0 /\ ~InQueue(a)'
                      /\ heap'[a].owner = "telegram" =>
                           heap'[a].ref >= kept'[a] + (IF InQueue(a)' THEN 1 ELSE 0)
                      /\ heap'[a].owner = "host" => heap'[a].ref = STATIC
    BY DEF RefInv
  <2>1. CASE a = n
    BY <1>5, <1>8, <2>1
  <2>2. CASE a # n
    <3>1. kept[a] \in Nat /\ heap[a].ref \in Int
      BY <1>7 DEF Block
    <3> QED
      BY <1>8, <1>14, <2>2, <3>1 DEF IInv, RefInv
  <2> QED
    BY <2>1, <2>2
<1>16. \A a \in Address : Spared(a)
  BY <1>1, <1>8, <1>10 DEF Spared
<1> QED
  BY <1>11, <1>12, <1>13, <1>15, <1>16 DEF IInv

\* A step that leaves the memory and the references alone.
LEMMA IdleKeeps ==
  ASSUME IInv, UNCHANGED <<heap, kept>>, on' \in Configs, relocated' \in BOOLEAN,
         queue' \in Seq(Entry), Len(queue') = Len(queue),
         \A i \in DOMAIN queue : queue'[i].at = queue[i].at,
         seen' \in Nat, walk' \in 0 .. seen' + 1, turn' \in 1 .. Len(Chain),
         walk' \in 1 .. seen' => seen' <= Len(queue)
  PROVE  IInv' /\ \A a \in Address : Spared(a)
<1>1. DOMAIN queue' = DOMAIN queue
  BY HeapType DEF IInv
<1>2. TypeOK' /\ WalkInv' /\ Distinct'
  BY <1>1 DEF IInv, TypeOK, WalkInv, Distinct, Entry, Capacity
<1>3. \A a : InQueue(a)' <=> InQueue(a)
  BY <1>1 DEF InQueue
<1> QED
  BY <1>2, <1>3 DEF IInv, RefInv, Spared

\* No two replies in one block: at most one of its holders is in the queue.
LEMMA HoldersCount ==
  ASSUME IInv, NEW a \in Address
  PROVE  Holders(a) = kept[a] + (IF InQueue(a) THEN 1 ELSE 0)
<1>1. CASE InQueue(a)
  <2>1. PICK i \in DOMAIN queue : queue[i].at = a
    BY <1>1 DEF InQueue
  <2>2. {j \in DOMAIN queue : queue[j].at = a} = {i}
    BY <2>1 DEF IInv, Distinct
  <2>3. Cardinality({i}) = 1
    BY FS_Singleton
  <2> QED
    BY <1>1, <2>2, <2>3 DEF Holders
<1>2. CASE ~InQueue(a)
  <2>1. {j \in DOMAIN queue : queue[j].at = a} = {}
    BY <1>2 DEF InQueue
  <2> QED
    BY <1>2, <2>1, FS_EmptySet DEF Holders
<1> QED
  BY <1>1, <1>2

----------------------------------------------------------------------------
(* The steps.                                                              *)

\* Nothing has arrived, nothing is held.
LEMMA InitInv == Init => IInv
<1> SUFFICES ASSUME Init PROVE IInv
  OBVIOUS
<1>1. /\ \A a \in Address : heap[a] = NoBlock /\ kept[a] = 0
      /\ heap \in [Address -> Block] /\ kept \in [Address -> Nat]
  BY NoBlockType DEF Init, Sound
<1>2. \A a \in Address : Sound(heap[a]) /\ heap[a].owner = "none"
  BY <1>1, NoBlockType
<1>3. queue = <<>> /\ DOMAIN queue = {} /\ queue \in Seq(Entry)
  BY DEF Init
<1>4. 1 \in 1 .. Len(Chain) /\ seen = 0 /\ walk = 0 /\ turn = 1 /\ relocated = FALSE /\ on \in Configs
  BY DEF Init, Chain
<1>5. TypeOK
  <2>1. \A a \in Address : heap[a].size <= Capacity(heap[a])
    BY <1>2 DEF Sound
  <2>2. /\ heap \in [Address -> [owner : {"none", "telegram", "host"}, ref : Int, kind : Kind,
                                size : Nat, count : Nat, words : Seq(Word)]]
        /\ queue \in Seq([at : Address, came : Replies, tracked : BOOLEAN])
    BY <1>1, <1>3 DEF Block, Entry
  <2>3. seen \in Nat /\ walk \in 0 .. seen + 1
    BY DEF Init
  <2>4. relocated \in BOOLEAN /\ turn \in 1 .. Len(Chain)
    BY <1>4, Zenon
  <2> QED
    BY <1>1, <1>4, <2>1, <2>2, <2>3, <2>4 DEF TypeOK
<1> QED
  BY <1>2, <1>1, <1>3, <1>4, <1>5 DEF IInv, WalkInv, Distinct, RefInv, InQueue

\* An edit in place, by either rewriter that may.
LEMMA InPlaceKeeps ==
  ASSUME IInv, NEW f \in Feature, ExtendInPlace(f)
  PROVE  IInv' /\ \A a \in Address : Spared(a)
<1>1. walk \in 1 .. seen /\ Fits(f, Here) /\ Here.ref = 1
  BY DEF ExtendInPlace, Turn, MayEdit
<1>2. Sound(Here) /\ Here = heap[queue[walk].at] /\ queue[walk].at \in Address
  BY <1>1, HereIsReply
<1>3. PICK b : b = Edited(Here, f)
  OBVIOUS
<1>4. Sound(b) /\ b.owner = Here.owner /\ b.ref = Here.ref
  BY <1>1, <1>2, <1>3, EditedType
<1>5. heap' = [heap EXCEPT ![queue[walk].at] = b]
  BY <1>2, <1>3, HeapType DEF IInv, ExtendInPlace
<1>6. NextTurn /\ UNCHANGED <<on, telegramVars, relocated>>
  BY DEF ExtendInPlace
<1> QED
  BY <1>1, <1>4, <1>5, <1>6, EditKeeps

LEMMA FlipKeeps ==
  ASSUME IInv, FlipPurchaseBlocked
  PROVE  IInv' /\ \A a \in Address : Spared(a)
<1>1. walk \in 1 .. seen /\ Here.ref = 1
  BY DEF FlipPurchaseBlocked, Turn, MayEdit
<1>2. Sound(Here) /\ Here = heap[queue[walk].at] /\ queue[walk].at \in Address
  BY <1>1, HereIsReply
<1>3. PICK b : b = Flipped(Here)
  OBVIOUS
<1>4. Sound(b) /\ b.owner = Here.owner /\ b.ref = Here.ref
  BY <1>2, <1>3, FlippedType
<1>5. heap' = [heap EXCEPT ![queue[walk].at] = b]
  BY <1>2, <1>3, HeapType DEF IInv, FlipPurchaseBlocked
<1>6. NextTurn /\ UNCHANGED <<on, telegramVars, relocated>>
  BY DEF FlipPurchaseBlocked
<1> QED
  BY <1>1, <1>4, <1>5, <1>6, EditKeeps

\* The swaps: a grown copy, a relocated one, an answer.
LEMMA GrownKeeps ==
  ASSUME IInv, NEW f \in Feature, ExtendGrown(f)
  PROVE  IInv' /\ \A a \in Address : Spared(a)
<1>1. /\ walk \in 1 .. seen /\ Unallocated # {} /\ NextTurn /\ UNCHANGED <<on, kept, relocated>>
      /\ Swap(Edited(Grown(Here, Needed(f, Here)), f), queue[walk].tracked)
  BY DEF ExtendGrown, Turn
<1>2. Sound(Here) /\ queue[walk] \in Entry
  BY <1>1, HereIsReply
<1>3. Needed(f, Here) \in Nat /\ Here.size <= Needed(f, Here)
  BY <1>2, AddedType DEF Needed, Sound, Block
<1>4. PICK g : g = Grown(Here, Needed(f, Here))
  OBVIOUS
<1>5. /\ Sound(g) /\ Capacity(g) = Needed(f, Here) /\ g.owner = "host" /\ g.ref = STATIC
      /\ g.size = Here.size
  BY <1>2, <1>3, <1>4, GrownType
<1>6. Fits(f, g)
  BY <1>3, <1>5 DEF Fits, Needed
<1>7. Sound(Edited(g, f)) /\ Edited(g, f).owner = "host" /\ Edited(g, f).ref = STATIC
  BY <1>5, <1>6, EditedType
<1>8. queue[walk].tracked \in BOOLEAN /\ relocated' \in BOOLEAN
  BY <1>1, <1>2 DEF Entry, IInv, TypeOK
<1> QED
  BY <1>1, <1>4, <1>7, <1>8, SwapKeeps

LEMMA RelocateKeeps ==
  ASSUME IInv, Relocate
  PROVE  IInv' /\ \A a \in Address : Spared(a)
<1>1. walk \in 1 .. seen /\ NextTurn /\ UNCHANGED <<on, kept>> /\ relocated' \in BOOLEAN
  BY DEF Relocate, Turn
<1>2. Sound(Here) /\ queue[walk] \in Entry
  BY <1>1, HereIsReply
<1>3. CASE Unallocated # {}
  <2>1. /\ Sound(Grown(Here, Here.size)) /\ Grown(Here, Here.size).owner = "host"
        /\ Grown(Here, Here.size).ref = STATIC
    BY <1>2, GrownType DEF Sound, Block
  <2>2. Swap(Grown(Here, Here.size), queue[walk].tracked) /\ queue[walk].tracked \in BOOLEAN
    BY <1>2, <1>3 DEF Relocate, Entry
  <2> QED
    BY <1>1, <1>3, <2>1, <2>2, SwapKeeps
<1>4. CASE Unallocated = {}
  <2>1. UNCHANGED <<heap, queue>>
    BY <1>4 DEF Relocate
  <2> QED
    BY <1>1, <2>1, NextTurnType, HeapType, IdleKeeps DEF IInv, TypeOK, WalkInv, NextTurn
<1> QED
  BY <1>3, <1>4

LEMMA SubstituteKeeps ==
  ASSUME IInv, Substitute
  PROVE  IInv' /\ \A a \in Address : Spared(a)
<1>1. walk \in 1 .. seen /\ NextTurn /\ UNCHANGED <<on, kept, relocated>> /\ relocated' \in BOOLEAN
  BY DEF Substitute, Turn, IInv, TypeOK
<1>2. Sound(Here) /\ queue[walk] \in Entry /\ walk \in DOMAIN queue /\ queue \in Seq(Entry)
  BY <1>1, HereIsReply, HeapType DEF IInv
<1>3. CASE Unallocated # {}
  <2>1. Here.kind \in Kind /\ <<"answer">> \in Seq(Word)
    BY <1>2 DEF Sound, Block, Word, Element
  <2>2. /\ Sound(Built(Here.kind, <<"answer">>)) /\ Built(Here.kind, <<"answer">>).owner = "host"
        /\ Built(Here.kind, <<"answer">>).ref = STATIC
    BY <2>1, BuiltType
  <2>3. Swap(Built(Here.kind, <<"answer">>), FALSE)
    BY <1>3 DEF Substitute
  <2> QED
    BY <1>1, <1>3, <2>2, <2>3, SwapKeeps
<1>4. CASE Unallocated = {}
  <2>1. heap' = heap /\ queue' = [queue EXCEPT ![walk].tracked = FALSE]
    BY <1>4 DEF Substitute
  <2>2. PICK e \in Entry : e.at = queue[walk].at /\ queue' = [queue EXCEPT ![walk] = e]
    BY <1>2, <2>1 DEF Entry
  <2>3. /\ queue' \in Seq(Entry) /\ Len(queue') = Len(queue)
        /\ \A i \in DOMAIN queue : queue'[i].at = queue[i].at
    BY <1>2, <2>2
  <2> QED
    BY <1>1, <2>1, <2>3, NextTurnType, IdleKeeps DEF IInv, TypeOK, WalkInv, NextTurn
<1> QED
  BY <1>3, <1>4

\* Every step keeps the invariant and spares what it has to.
LEMMA Step ==
  ASSUME IInv, [Next]_vars
  PROVE  IInv' /\ \A a \in Address : Spared(a)
<1>1. CASE EnterHook
  <2>1. 1 \in 1 .. Len(Chain) /\ Len(queue) \in Nat /\ queue \in Seq(Entry)
    BY HeapType DEF IInv, Chain
  <2>2. UNCHANGED <<on, heap, queue, kept, relocated>> /\ seen' = Len(queue) /\ walk' = 1 /\ turn' = 1
    BY <1>1 DEF EnterHook
  <2>3. on \in Configs /\ relocated \in BOOLEAN
    BY DEF IInv, TypeOK
  <2> QED
    BY <2>1, <2>2, <2>3, IdleKeeps
<1>2. CASE \E f \in Feature : ExtendInPlace(f)
  BY <1>2, InPlaceKeeps
<1>3. CASE \E f \in Feature : ExtendGrown(f)
  BY <1>3, GrownKeeps
<1>4. CASE FlipPurchaseBlocked
  BY <1>4, FlipKeeps
<1>5. CASE Relocate
  BY <1>5, RelocateKeeps
<1>6. CASE Substitute
  BY <1>6, SubstituteKeeps
<1>7. CASE \E f \in Feature : PassOver(f)
  <2>1. walk \in 1 .. seen /\ NextTurn /\ UNCHANGED <<on, heap, telegramVars, relocated>>
    BY <1>7 DEF PassOver, Turn
  <2> QED
    BY <2>1, NextTurnType, HeapType, IdleKeeps DEF IInv, TypeOK, WalkInv, NextTurn
<1>8. CASE \E c \in Configs : Reload(c)
  BY <1>8, HeapType, IdleKeeps DEF IInv, TypeOK, WalkInv, Reload
<1>9. CASE \E reply \in Replies, shared \in BOOLEAN : Arrive(reply, shared)
  BY <1>9, ArriveKeeps
<1>10. CASE Paused \/ LeaveHook
  <2>1. 1 \in 1 .. Len(Chain)
    BY DEF Chain
  <2>2. UNCHANGED <<on, heap, queue, kept, relocated>> /\ seen' = 0 /\ walk' = 0 /\ turn' = 1
    BY <1>10 DEF Paused, LeaveHook
  <2>3. queue \in Seq(Entry) /\ on \in Configs /\ relocated \in BOOLEAN
    BY HeapType DEF IInv, TypeOK
  <2> QED
    BY <2>1, <2>2, <2>3, IdleKeeps
<1>11. CASE \E keep \in BOOLEAN : Dispatch(keep)
  BY <1>11, DispatchKeeps
<1>12. CASE \E a \in Address : Forget(a)
  BY <1>12, ForgetKeeps
<1>13. CASE UNCHANGED vars
  BY <1>13, HeapType, IdleKeeps DEF IInv, TypeOK, WalkInv
<1> QED
  BY <1>1, <1>2, <1>3, <1>4, <1>5, <1>6, <1>7, <1>8, <1>9, <1>10, <1>11, <1>12, <1>13 DEF Next

THEOREM InvAlways == Spec => []IInv
<1>1. IInv /\ [Next]_vars => IInv'
  BY Step
<1> QED
  BY InitInv, <1>1, PTL DEF Spec

\* Type correctness of the memory, the queue and the walk.
THEOREM TypeCorrect == Spec => []TypeOK
<1>1. IInv => TypeOK
  BY DEF IInv
<1> QED
  BY InvAlways, <1>1, PTL

\* No block is freed under a holder: Telegram's count of its own blocks never
\* falls below the references there are.
THEOREM CountCoversHolders_Always == Spec => []CountCoversHolders
<1>1. ASSUME IInv PROVE CountCoversHolders
  <2> SUFFICES ASSUME NEW a \in Address
               PROVE  /\ heap[a].owner = "none" => Holders(a) = 0
                      /\ heap[a].owner = "telegram" => heap[a].ref >= Holders(a)
    BY DEF CountCoversHolders
  <2>1. Holders(a) = kept[a] + (IF InQueue(a) THEN 1 ELSE 0)
    BY <1>1, HoldersCount
  <2> QED
    BY <1>1, <2>1 DEF IInv, RefInv
<1> QED
  BY InvAlways, <1>1, PTL

\* Telegram's allocator never gets one of our blocks back.
THEOREM OurBlocksStay_Always == Spec => OurBlocksStay
<1> DEFINE Stay == \A a \in Address : heap[a].owner = "host" => heap'[a].owner = "host"
<1>1. IInv /\ [Next]_vars => [Stay]_vars
  BY Step DEF Spared
<1>2. OurBlocksStay <=> [][Stay]_vars
  BY PTL DEF OurBlocksStay
<1> HIDE DEF Stay
<1> QED
  BY InvAlways, <1>1, <1>2, PTL DEF Spec

\* A buffer Telegram keeps outside the queue never changes under it, whatever
\* the rewriters do to the replies that wait.
THEOREM KeptUntouched_Always == Spec => KeptUntouched
<1> DEFINE Untouched ==
      \A a \in Address :
        kept[a] > 0 /\ kept'[a] > 0 =>
           /\ heap'[a].count = heap[a].count
           /\ heap'[a].size = heap[a].size
           /\ heap'[a].words = heap[a].words
<1>1. IInv /\ [Next]_vars => [Untouched]_vars
  BY Step DEF Spared
<1>2. KeptUntouched <=> [][Untouched]_vars
  BY PTL DEF KeptUntouched
<1> HIDE DEF Untouched
<1> QED
  BY InvAlways, <1>1, <1>2, PTL DEF Spec

----------------------------------------------------------------------------
(* What a block publishes.                                                 *)

LEMMA ElementsType ==
  ASSUME NEW b, Sound(b)
  PROVE  /\ Elements(b) \in Seq(Word) /\ Len(Elements(b)) = b.size /\ b.size \in Nat
         /\ DOMAIN Elements(b) = 1 .. b.size
         /\ \A k \in 1 .. b.size : Elements(b)[k] = b.words[k]
<1>1. b.words \in Seq(Word) /\ b.size \in Nat /\ b.size <= Len(b.words)
  BY DEF Sound, Block, Capacity
<1> QED
  BY <1>1 DEF Elements

\* One sequence behind another.
LEMMA ConcatType ==
  ASSUME NEW s \in Seq(Word), NEW t \in Seq(Word)
  PROVE  s \o t \in Seq(Word)
OBVIOUS

LEMMA Concat ==
  ASSUME NEW s \in Seq(Word), NEW t \in Seq(Word)
  PROVE  \E u \in Seq(Word) :
           /\ u = s \o t /\ Len(u) = Len(s) + Len(t)
           /\ \A k \in 1 .. Len(s) + Len(t) : u[k] = IF k <= Len(s) THEN s[k] ELSE t[k - Len(s)]
<1> DEFINE u == s \o t
<1>1. /\ u \in Seq(Word) /\ Len(u) = Len(s) + Len(t)
      /\ \A k \in 1 .. Len(s) + Len(t) : u[k] = IF k <= Len(s) THEN s[k] ELSE t[k - Len(s)]
  BY ConcatProperties
<1> HIDE DEF u
<1> QED
  BY <1>1 DEF u

\* It is the first size words.
LEMMA SameElements ==
  ASSUME NEW b, Sound(b), NEW seq \in Seq(Word), Len(seq) = b.size,
         \A k \in 1 .. b.size : b.words[k] = seq[k]
  PROVE  Elements(b) = seq
<1>1. \A k \in 1 .. Len(Elements(b)) : Elements(b)[k] = seq[k]
  BY ElementsType
<1> QED
  BY <1>1, ElementsType, SeqEqual

\* A vector without foreign elements counts them all.
LEMMA CountOfAll ==
  ASSUME NEW seq \in Seq(Word), \A k \in 1 .. Len(seq) : seq[k] # "alien"
  PROVE  CountOf(seq) = Len(seq)
<1>1. PICK m \in Nat : m = Len(seq)
  OBVIOUS
<1>2. {k \in DOMAIN seq : seq[k] # "alien"} = 1 .. m
  BY <1>1
<1>3. Cardinality(1 .. m) = m
  <2>1. Cardinality(1 .. m) = IF 1 > m THEN 0 ELSE m - 1 + 1
    BY FS_Interval
  <2> QED
    BY <2>1
<1> QED
  BY <1>1, <1>2, <1>3 DEF CountOf

\* The new words are in the gap, and the tail behind them.
LEMMA OpenedWords ==
  ASSUME NEW b, Sound(b), NEW at \in 1 .. b.size + 1, NEW new \in Seq(Word),
         b.size + Len(new) <= Capacity(b)
  PROVE  LET c == Opened(b, at, new)
         IN /\ c.kind = b.kind
            /\ \A k \in 1 .. at - 1 : c.words[k] = b.words[k]
            /\ \A k \in 1 .. Len(new) : c.words[at + k - 1] = new[k]
            /\ \A k \in at .. b.size : c.words[k + Len(new)] = b.words[k]
<1> DEFINE n == Len(new)
           w == [k \in DOMAIN b.words |->
                    IF k \in at .. at + n - 1 THEN new[k - at + 1]
                    ELSE IF k \in at + n .. b.size + n THEN b.words[k - n]
                    ELSE b.words[k]]
           d == [b EXCEPT !.count = b.count + n]
<1>1. /\ b \in Block /\ b.size \in Nat /\ b.words \in Seq(Word) /\ b.size + n <= Len(b.words)
      /\ n \in Nat /\ Len(b.words) \in Nat /\ DOMAIN b.words = 1 .. Len(b.words)
  BY DEF Sound, Block, Capacity
<1>2. Opened(b, at, new) = [d EXCEPT !.words = w]
  BY <1>1 DEF Opened, Block
<1>3. d.kind = b.kind /\ DOMAIN d = DOMAIN b /\ "words" \in DOMAIN b /\ "kind" \in DOMAIN b
  BY <1>1 DEF Block
<1>4. \A k \in 1 .. at - 1 : w[k] = b.words[k]
  BY <1>1
<1>5. \A k \in 1 .. n : w[at + k - 1] = new[k]
  <2> SUFFICES ASSUME NEW k \in 1 .. n PROVE w[at + k - 1] = new[k]
    OBVIOUS
  <2>1. at + k - 1 \in 1 .. Len(b.words) /\ at + k - 1 \in at .. at + n - 1
        /\ (at + k - 1) - at + 1 = k
    BY <1>1
  <2> QED
    BY <1>1, <2>1
<1>6. \A k \in at .. b.size : w[k + n] = b.words[k]
  <2> SUFFICES ASSUME NEW k \in at .. b.size PROVE w[k + n] = b.words[k]
    OBVIOUS
  <2>1. /\ k + n \in 1 .. Len(b.words) /\ k + n \in at + n .. b.size + n
        /\ k + n \notin at .. at + n - 1 /\ (k + n) - n = k
    BY <1>1
  <2> QED
    BY <1>1, <2>1
<1> HIDE DEF w, d
<1>7. Opened(b, at, new).words = w /\ Opened(b, at, new).kind = b.kind
  BY <1>2, <1>3
<1> QED
  BY <1>4, <1>5, <1>6, <1>7

\* The tail is back where it was.
LEMMA UndoneWords ==
  ASSUME NEW b \in Block, NEW at \in 1 .. b.size + 1, NEW new \in Seq(Word),
         b.size + Len(new) <= Capacity(b)
  PROVE  LET c == Undone(b, at, new)
         IN /\ c.kind = b.kind /\ c.size = b.size /\ c.count = b.count - Len(new)
            /\ \A k \in 1 .. at - 1 : c.words[k] = b.words[k]
            /\ \A k \in at .. b.size : c.words[k] = b.words[k + Len(new)]
<1> DEFINE n == Len(new)
           w == [k \in DOMAIN b.words |-> IF k \in at .. b.size THEN b.words[k + n] ELSE b.words[k]]
           d == [b EXCEPT !.count = b.count - n]
<1>1. /\ b.size \in Nat /\ b.words \in Seq(Word) /\ b.size + n <= Len(b.words)
      /\ n \in Nat /\ Len(b.words) \in Nat /\ DOMAIN b.words = 1 .. Len(b.words)
  BY DEF Block, Capacity
<1>2. Undone(b, at, new) = [d EXCEPT !.words = w]
  BY <1>1 DEF Undone, Block
<1>3. /\ d.kind = b.kind /\ d.size = b.size /\ d.count = b.count - n /\ DOMAIN d = DOMAIN b
      /\ DOMAIN b = {"owner", "ref", "kind", "size", "count", "words"}
  BY <1>1 DEF Block
<1>4. \A k \in 1 .. at - 1 : w[k] = b.words[k]
  BY <1>1
<1>5. \A k \in at .. b.size : w[k] = b.words[k + n]
  BY <1>1
<1> HIDE DEF w, d
<1>6. /\ Undone(b, at, new).words = w /\ Undone(b, at, new).kind = b.kind
      /\ Undone(b, at, new).size = b.size /\ Undone(b, at, new).count = b.count - n
  BY <1>2, <1>3
<1> QED
  BY <1>4, <1>5, <1>6

\* An edit that fails leaves what was published and its count; one that does not
\* has the new elements in their place and counts them all.
LEMMA EditedElements ==
  ASSUME NEW b, Sound(b), NEW f, Fits(f, b)
  PROVE  LET c == Edited(b, f)
         IN /\ c.kind = b.kind
            /\ \/ Elements(c) = Elements(b) /\ c.count = b.count /\ c.size = b.size
               \/ /\ c.count = CountOf(Elements(c)) /\ c.size = b.size + Len(Added(f))
                  /\ f # "hidden" => Elements(c) = Elements(b) \o Added(f)
                  /\ f = "hidden" => Elements(c) = Added(f) \o Elements(b)
<1> DEFINE new == Added(f)
           at == Place(f, b)
           tried == Opened(b, at, new)
           size == b.size + Len(new)
<1>1. new \in Seq(Word) /\ Len(new) \in Nat /\ b.size \in Nat /\ b.count \in Nat
  BY AddedType DEF Sound, Block
<1>2. at \in 1 .. b.size + 1 /\ size <= Capacity(b) /\ size \in Nat
  BY <1>1 DEF Place, Fits, Needed
<1>3. /\ tried \in Block /\ Capacity(tried) = Capacity(b) /\ tried.size = b.size
      /\ tried.count = b.count + Len(new)
  BY <1>1, <1>2, OpenedType
<1>4. /\ tried.kind = b.kind
      /\ \A k \in 1 .. at - 1 : tried.words[k] = b.words[k]
      /\ \A k \in 1 .. Len(new) : tried.words[at + k - 1] = new[k]
      /\ \A k \in at .. b.size : tried.words[k + Len(new)] = b.words[k]
  BY <1>1, <1>2, OpenedWords
<1>5. Edited(b, f) = IF Valid(tried, size) THEN [tried EXCEPT !.size = size]
                                           ELSE Undone(tried, at, new)
  BY DEF Edited
<1>6. (f = "hidden" => at = 1) /\ (f # "hidden" => at = b.size + 1)
  BY DEF Place
<1>7. PICK c : c = Edited(b, f)
  OBVIOUS
<1>8. Sound(c)
  BY <1>7, EditedType
<1> HIDE DEF tried, at, new, size
<1>9. CASE ~Valid(tried, size)
  <2>1. c = Undone(tried, at, new) /\ tried.size + Len(new) <= Capacity(tried)
    BY <1>2, <1>3, <1>5, <1>7, <1>9 DEF size
  <2>2. /\ c.kind = tried.kind /\ c.size = tried.size /\ c.count = tried.count - Len(new)
        /\ \A k \in 1 .. at - 1 : c.words[k] = tried.words[k]
        /\ \A k \in at .. tried.size : c.words[k] = tried.words[k + Len(new)]
    BY <1>1, <1>2, <1>3, <2>1, UndoneWords
  <2>3. \A k \in 1 .. b.size : c.words[k] = b.words[k]
    <3> SUFFICES ASSUME NEW k \in 1 .. b.size PROVE c.words[k] = b.words[k]
      OBVIOUS
    <3>1. k \in 1 .. at - 1 \/ k \in at .. b.size
      BY <1>1, <1>2
    <3> QED
      BY <1>3, <1>4, <2>2, <3>1
  <2>4. Elements(b) \in Seq(Word) /\ Len(Elements(b)) = c.size
        /\ \A k \in 1 .. c.size : c.words[k] = Elements(b)[k]
    BY <1>3, <2>2, <2>3, ElementsType
  <2>5. Elements(c) = Elements(b)
    BY <1>8, <2>4, SameElements
  <2>6. c.count = b.count
    BY <1>1, <1>3, <2>2
  <2> QED
    BY <1>3, <1>4, <1>7, <2>2, <2>5, <2>6
<1>10. CASE Valid(tried, size)
  <2>1. /\ c.size = size /\ c.words = tried.words /\ c.kind = tried.kind /\ c.count = tried.count
    BY <1>3, <1>5, <1>7, <1>10 DEF Block
  <2>2. c.count = size /\ \A k \in 1 .. size : c.words[k] # "alien"
    BY <1>10, <2>1 DEF Valid
  <2>3. Elements(c) \in Seq(Word) /\ Len(Elements(c)) = size
        /\ \A k \in 1 .. size : Elements(c)[k] = c.words[k]
    BY <1>8, <2>1, ElementsType
  <2>4. c.count = CountOf(Elements(c))
    BY <2>2, <2>3, CountOfAll
  <2>5. PICK e \in Seq(Word) : /\ e = Elements(b) /\ Len(e) = b.size
                              /\ \A k \in 1 .. b.size : e[k] = b.words[k]
    BY ElementsType
  <2>6. ASSUME f # "hidden" PROVE Elements(c) = Elements(b) \o new
    <3>0. PICK u \in Seq(Word) :
             /\ u = e \o new /\ Len(u) = Len(e) + Len(new)
             /\ \A k \in 1 .. Len(e) + Len(new) : u[k] = IF k <= Len(e) THEN e[k] ELSE new[k - Len(e)]
      BY <1>1, <2>5, Concat
    <3>1. Len(u) = size
      BY <1>1, <2>5, <3>0 DEF size
    <3>2. \A k \in 1 .. size : c.words[k] = u[k]
      <4> SUFFICES ASSUME NEW k \in 1 .. size PROVE c.words[k] = u[k]
        OBVIOUS
      <4>1. CASE k <= b.size
        <5>1. u[k] = e[k]
          BY <1>1, <2>5, <3>0, <4>1 DEF size
        <5>2. k \in 1 .. at - 1 /\ k \in 1 .. b.size
          BY <1>1, <1>6, <2>6, <4>1
        <5> QED
          BY <1>4, <2>1, <2>5, <5>1, <5>2
      <4>2. CASE k > b.size
        <5>0. at = b.size + 1
          BY <1>6, <2>6
        <5>1. k - b.size \in 1 .. Len(new) /\ at + (k - b.size) - 1 = k
          <6>1. k \in 1 .. b.size + Len(new)
            BY DEF size
          <6>2. k - b.size \in 1 .. Len(new) /\ (b.size + 1) + (k - b.size) - 1 = k
            BY <1>1, <4>2, <6>1
          <6> QED
            BY <5>0, <6>2
        <5>2. u[k] = new[k - b.size]
          <6>1. k \in 1 .. Len(e) + Len(new) /\ ~(k <= Len(e)) /\ k - Len(e) = k - b.size
            BY <1>1, <2>5, <4>2 DEF size
          <6>2. u[k] = new[k - Len(e)]
            BY <3>0, <6>1
          <6> QED
            BY <6>1, <6>2
        <5> QED
          BY <1>4, <2>1, <5>1, <5>2
      <4> QED
        BY <1>1, <1>2, <4>1, <4>2
    <3> QED
      BY <1>8, <2>1, <2>5, <3>0, <3>1, <3>2, SameElements
  <2>7. ASSUME f = "hidden" PROVE Elements(c) = new \o Elements(b)
    <3>0. PICK u \in Seq(Word) :
             /\ u = new \o e /\ Len(u) = Len(new) + Len(e)
             /\ \A k \in 1 .. Len(new) + Len(e) : u[k] = IF k <= Len(new) THEN new[k] ELSE e[k - Len(new)]
      BY <1>1, <2>5, Concat
    <3>1. Len(u) = size
      BY <1>1, <2>5, <3>0 DEF size
    <3>2. \A k \in 1 .. size : c.words[k] = u[k]
      <4> SUFFICES ASSUME NEW k \in 1 .. size PROVE c.words[k] = u[k]
        OBVIOUS
      <4>1. CASE k <= Len(new)
        <5>1. u[k] = new[k] /\ at + k - 1 = k /\ k \in 1 .. Len(new)
          BY <1>1, <1>6, <2>5, <2>7, <3>0, <4>1 DEF size
        <5> QED
          BY <1>4, <2>1, <5>1
      <4>2. CASE k > Len(new)
        <5>1. k - Len(new) \in at .. b.size /\ (k - Len(new)) + Len(new) = k
              /\ k - Len(new) \in 1 .. b.size
          BY <1>1, <1>6, <2>7, <4>2 DEF size
        <5>2. u[k] = e[k - Len(new)]
          <6>1. k \in 1 .. Len(new) + Len(e) /\ ~(k <= Len(new))
            BY <1>1, <2>5, <4>2 DEF size
          <6> QED
            BY <3>0, <6>1
        <5> QED
          BY <1>4, <2>1, <2>5, <5>1, <5>2
      <4> QED
        BY <1>1, <1>2, <4>1, <4>2
    <3> QED
      BY <1>8, <2>1, <2>5, <3>0, <3>1, <3>2, SameElements
  <2> QED
    BY <1>4, <1>7, <2>1, <2>4, <2>6, <2>7 DEF new, size
<1> QED
  BY <1>9, <1>10

\* What arrives publishes what came, and a copy what the block did.
LEMMA ReceivedElements ==
  ASSUME NEW reply \in Replies, NEW ref \in Int
  PROVE  LET b == Received(reply, ref)
         IN /\ Elements(b) = reply.elements /\ b.kind = reply.kind
            /\ b.count = CountOf(reply.elements) /\ b.size = Len(reply.elements)
<1>1. reply.elements \in Seq(Word) /\ reply.slack \in Nat
  BY RepliesAssumption DEF Word
<1> DEFINE slack == [k \in 1 .. reply.slack |-> "trash"]
<1>2. slack \in Seq(Word)
  BY <1>1, SeqOfFunction DEF Word
<1>3. \A k \in 1 .. Len(reply.elements) : (reply.elements \o slack)[k] = reply.elements[k]
  <2> HIDE DEF slack
  <2> QED
    BY <1>1, <1>2, ConcatProperties
<1>4. PICK b : b = Received(reply, ref)
  OBVIOUS
<1>5. b.size = Len(reply.elements) /\ b.words = reply.elements \o slack /\ b.kind = reply.kind
      /\ b.count = CountOf(reply.elements)
  BY <1>4 DEF Received
<1>6. Sound(b)
  BY <1>4, ReceivedType
<1> HIDE DEF slack
<1>7. Elements(b) = reply.elements
  BY <1>1, <1>3, <1>5, <1>6, SameElements
<1> QED
  BY <1>4, <1>5, <1>7

LEMMA GrownElements ==
  ASSUME NEW b, Sound(b), NEW capacity \in Nat, b.size <= capacity
  PROVE  LET c == Grown(b, capacity)
         IN Elements(c) = Elements(b) /\ c.kind = b.kind /\ c.count = b.count /\ c.size = b.size
<1>1. PICK c : c = Grown(b, capacity)
  OBVIOUS
<1>2. Sound(c) /\ c.size = b.size /\ c.kind = b.kind /\ c.count = b.count
  BY <1>1, GrownType DEF Grown
<1>3. b.size \in Nat
  BY DEF Sound, Block
<1>4. \A k \in 1 .. b.size : c.words[k] = b.words[k]
  BY <1>1, <1>3 DEF Grown
<1>5. Elements(b) \in Seq(Word) /\ Len(Elements(b)) = c.size
      /\ \A k \in 1 .. c.size : c.words[k] = Elements(b)[k]
  BY <1>2, <1>4, ElementsType
<1>6. Elements(c) = Elements(b)
  BY <1>2, <1>5, SameElements
<1> QED
  BY <1>1, <1>2, <1>6

----------------------------------------------------------------------------
(* The edits of a reply.                                                   *)

\* The elements with the purchase key set.
FlippedSeq(seq) == [k \in DOMAIN seq |-> IF seq[k] = "notBlocked" THEN "blocked" ELSE seq[k]]

LEMMA FlippedSeqType ==
  ASSUME NEW seq \in Seq(Word)
  PROVE  FlippedSeq(seq) \in Seq(Word) /\ Len(FlippedSeq(seq)) = Len(seq)
         /\ DOMAIN FlippedSeq(seq) = 1 .. Len(seq) /\ Len(seq) \in Nat
<1>1. DOMAIN seq = 1 .. Len(seq) /\ Len(seq) \in Nat /\ \A k \in 1 .. Len(seq) : seq[k] \in Word
  OBVIOUS
<1>2. FlippedSeq(seq) \in [1 .. Len(seq) -> Word]
  BY <1>1 DEF FlippedSeq, Word, Element
<1> QED
  BY <1>1, <1>2, SeqOfFunction

LEMMA FlippedConcat ==
  ASSUME NEW s \in Seq(Word), NEW t \in Seq(Word)
  PROVE  FlippedSeq(s \o t) = FlippedSeq(s) \o FlippedSeq(t)
<1>1. PICK st \in Seq(Word) :
         /\ st = s \o t /\ Len(st) = Len(s) + Len(t)
         /\ \A k \in 1 .. Len(s) + Len(t) : st[k] = IF k <= Len(s) THEN s[k] ELSE t[k - Len(s)]
  BY Concat
<1>2. PICK fs \in Seq(Word) : fs = FlippedSeq(s) /\ Len(fs) = Len(s)
  BY FlippedSeqType
<1>3. PICK ft \in Seq(Word) : ft = FlippedSeq(t) /\ Len(ft) = Len(t)
  BY FlippedSeqType
<1>4. PICK fst \in Seq(Word) : fst = FlippedSeq(st) /\ Len(fst) = Len(st)
  BY FlippedSeqType
<1>5. PICK both \in Seq(Word) :
         /\ both = fs \o ft /\ Len(both) = Len(fs) + Len(ft)
         /\ \A k \in 1 .. Len(fs) + Len(ft) :
               both[k] = IF k <= Len(fs) THEN fs[k] ELSE ft[k - Len(fs)]
  BY Concat
<1>6. Len(s) \in Nat /\ Len(t) \in Nat /\ DOMAIN s = 1 .. Len(s) /\ DOMAIN t = 1 .. Len(t)
      /\ DOMAIN st = 1 .. Len(s) + Len(t)
  BY <1>1
<1>7. ASSUME NEW k \in 1 .. Len(s) + Len(t) PROVE fst[k] = both[k]
  <2>1. fst[k] = IF st[k] = "notBlocked" THEN "blocked" ELSE st[k]
    BY <1>4, <1>6 DEF FlippedSeq
  <2>2. CASE k <= Len(s)
    <3>1. k \in DOMAIN s
      BY <1>6, <2>2
    <3>2. fs[k] = IF s[k] = "notBlocked" THEN "blocked" ELSE s[k]
      BY <1>2, <3>1 DEF FlippedSeq
    <3> QED
      BY <1>1, <1>2, <1>3, <1>5, <2>1, <2>2, <3>2
  <2>3. CASE ~(k <= Len(s))
    <3>1. k - Len(s) \in DOMAIN t
      BY <1>6, <2>3
    <3>2. ft[k - Len(s)] = IF t[k - Len(s)] = "notBlocked" THEN "blocked" ELSE t[k - Len(s)]
      BY <1>3, <3>1 DEF FlippedSeq
    <3> QED
      BY <1>1, <1>2, <1>3, <1>5, <2>1, <2>3, <3>2
  <2> QED
    BY <2>2, <2>3
<1>8. fst = both
  BY <1>1, <1>2, <1>3, <1>4, <1>5, <1>7, SeqEqual
<1> QED
  BY <1>1, <1>2, <1>3, <1>4, <1>5, <1>8

\* To set the key again changes nothing, and what features add has no such key.
LEMMA FlippedAgain ==
  ASSUME NEW seq \in Seq(Word)
  PROVE  FlippedSeq(FlippedSeq(seq)) = FlippedSeq(seq)
<1>1. PICK once \in Seq(Word) : once = FlippedSeq(seq) /\ Len(once) = Len(seq)
  BY FlippedSeqType
<1>2. PICK twice \in Seq(Word) : twice = FlippedSeq(once) /\ Len(twice) = Len(once)
  BY FlippedSeqType
<1>3. Len(seq) \in Nat /\ DOMAIN seq = 1 .. Len(seq) /\ DOMAIN once = 1 .. Len(seq)
  BY <1>1
<1>4. \A k \in 1 .. Len(seq) : twice[k] = once[k]
  BY <1>1, <1>2, <1>3 DEF FlippedSeq
<1> QED
  BY <1>1, <1>2, <1>4, SeqEqual

LEMMA FlippedNothing ==
  ASSUME NEW seq \in Seq(Word), \A k \in 1 .. Len(seq) : seq[k] # "notBlocked"
  PROVE  FlippedSeq(seq) = seq
<1>1. PICK once \in Seq(Word) : once = FlippedSeq(seq) /\ Len(once) = Len(seq)
  BY FlippedSeqType
<1>2. Len(seq) \in Nat /\ DOMAIN seq = 1 .. Len(seq)
  OBVIOUS
<1>3. \A k \in 1 .. Len(seq) : once[k] = seq[k]
  BY <1>1, <1>2 DEF FlippedSeq
<1> QED
  BY <1>1, <1>3, SeqEqual

\* The key is set, the count stays.
LEMMA FlippedElements ==
  ASSUME NEW b, Sound(b)
  PROVE  LET c == Flipped(b)
         IN /\ Elements(c) = FlippedSeq(Elements(b)) /\ c.kind = b.kind
            /\ c.count = b.count /\ c.size = b.size
<1> DEFINE w == [k \in DOMAIN b.words |-> IF k <= b.size /\ b.words[k] = "notBlocked"
                                            THEN "blocked" ELSE b.words[k]]
<1>1. b \in Block /\ b.size \in Nat /\ b.size <= Len(b.words) /\ DOMAIN b.words = 1 .. Len(b.words)
      /\ Len(b.words) \in Nat
  BY DEF Sound, Block, Capacity
<1>2. Flipped(b) = [b EXCEPT !.words = w]
  BY <1>1 DEF Flipped, Block
<1>3. \A k \in 1 .. b.size : w[k] = IF b.words[k] = "notBlocked" THEN "blocked" ELSE b.words[k]
  BY <1>1
<1>4. PICK c : c = Flipped(b)
  OBVIOUS
<1> HIDE DEF w
<1>5. /\ c.words = w /\ c.kind = b.kind /\ c.count = b.count /\ c.size = b.size
      /\ Sound(c)
  <2>1. Sound(c)
    BY <1>4, FlippedType
  <2> QED
    BY <1>1, <1>2, <1>4, <2>1 DEF Block
<1>6. PICK e \in Seq(Word) : /\ e = Elements(b) /\ Len(e) = b.size /\ DOMAIN e = 1 .. b.size
                            /\ \A k \in 1 .. b.size : e[k] = b.words[k]
  BY ElementsType
<1>7. PICK flipped \in Seq(Word) : flipped = FlippedSeq(e) /\ Len(flipped) = Len(e)
  BY FlippedSeqType
<1>8. \A k \in 1 .. b.size : flipped[k] = IF e[k] = "notBlocked" THEN "blocked" ELSE e[k]
  BY <1>6, <1>7 DEF FlippedSeq
<1>9. \A k \in 1 .. c.size : c.words[k] = flipped[k]
  BY <1>3, <1>5, <1>6, <1>8
<1>10. Elements(c) = flipped
  BY <1>5, <1>6, <1>7, <1>9, SameElements
<1> QED
  BY <1>4, <1>5, <1>6, <1>7, <1>10

LEMMA FlippedCount ==
  ASSUME NEW seq \in Seq(Word)
  PROVE  CountOf(FlippedSeq(seq)) = CountOf(seq)
<1>1. PICK once \in Seq(Word) : once = FlippedSeq(seq) /\ DOMAIN once = DOMAIN seq
  BY FlippedSeqType
<1>2. \A k \in DOMAIN seq : once[k] = "alien" <=> seq[k] = "alien"
  BY <1>1 DEF FlippedSeq
<1>3. {k \in DOMAIN once : once[k] # "alien"} = {k \in DOMAIN seq : seq[k] # "alien"}
  BY <1>1, <1>2
<1> QED
  BY <1>1, <1>3 DEF CountOf

\* Whether an element is in a vector.
Occurs(w, seq) == \E k \in DOMAIN seq : seq[k] = w

LEMMA OccursConcat ==
  ASSUME NEW s \in Seq(Word), NEW t \in Seq(Word), NEW w
  PROVE  Occurs(w, s \o t) <=> Occurs(w, s) \/ Occurs(w, t)
<1>1. PICK u \in Seq(Word) :
         /\ u = s \o t /\ Len(u) = Len(s) + Len(t)
         /\ \A k \in 1 .. Len(s) + Len(t) : u[k] = IF k <= Len(s) THEN s[k] ELSE t[k - Len(s)]
  BY Concat
<1>2. /\ Len(s) \in Nat /\ Len(t) \in Nat /\ DOMAIN s = 1 .. Len(s) /\ DOMAIN t = 1 .. Len(t)
      /\ DOMAIN u = 1 .. Len(s) + Len(t)
  BY <1>1
<1>3. ASSUME NEW k \in DOMAIN u, u[k] = w PROVE Occurs(w, s) \/ Occurs(w, t)
  <2>1. CASE k <= Len(s)
    BY <1>1, <1>2, <1>3, <2>1 DEF Occurs
  <2>2. CASE ~(k <= Len(s))
    <3>1. k - Len(s) \in DOMAIN t
      BY <1>2, <2>2
    <3> QED
      BY <1>1, <1>2, <1>3, <2>2, <3>1 DEF Occurs
  <2> QED
    BY <2>1, <2>2
<1>4. ASSUME NEW k \in DOMAIN s, s[k] = w PROVE Occurs(w, u)
  <2>1. k \in DOMAIN u /\ u[k] = s[k]
    BY <1>1, <1>2
  <2> QED
    BY <1>4, <2>1 DEF Occurs
<1>5. ASSUME NEW k \in DOMAIN t, t[k] = w PROVE Occurs(w, u)
  <2>1. k + Len(s) \in DOMAIN u /\ ~(k + Len(s) <= Len(s)) /\ (k + Len(s)) - Len(s) = k
    BY <1>2
  <2>2. u[k + Len(s)] = t[k]
    BY <1>1, <1>2, <2>1
  <2> QED
    BY <1>5, <2>1, <2>2 DEF Occurs
<1> QED
  BY <1>1, <1>3, <1>4, <1>5 DEF Occurs

LEMMA HasOccurs ==
  ASSUME NEW b, Sound(b), NEW w
  PROVE  Has(b, w) <=> Occurs(w, Elements(b))
BY ElementsType DEF Has, Occurs

\* What the two rewriters of help.appConfig add.
LEMMA AddedKeys ==
  /\ Added("freeze") \in Seq(Word) /\ Added("monetization") \in Seq(Word)
  /\ Occurs("since", Added("freeze")) /\ Occurs("blocked", Added("monetization"))
  /\ FlippedSeq(Added("freeze")) = Added("freeze")
  /\ FlippedSeq(Added("monetization")) = Added("monetization")
<1>1. Added("freeze") \in Seq(Word) /\ Added("monetization") \in Seq(Word)
  BY AddedType
<1>2. /\ Len(Added("freeze")) = 3 /\ Added("freeze")[1] = "since"
      /\ Added("freeze")[2] = "until" /\ Added("freeze")[3] = "appeal"
  BY DEF Added
<1>3. Len(Added("monetization")) = 1 /\ Added("monetization")[1] = "blocked"
  BY DEF Added
<1>4. /\ 1 \in DOMAIN Added("freeze") /\ 1 \in DOMAIN Added("monetization")
  BY <1>1, <1>2, <1>3
<1>5. \A k \in 1 .. Len(Added("freeze")) : Added("freeze")[k] # "notBlocked"
  <2> SUFFICES ASSUME NEW k \in 1 .. 3 PROVE Added("freeze")[k] # "notBlocked"
    BY <1>2
  <2>1. k = 1 \/ k = 2 \/ k = 3
    OBVIOUS
  <2> QED
    BY <1>2, <2>1
<1>6. \A k \in 1 .. Len(Added("monetization")) : Added("monetization")[k] # "notBlocked"
  <2> SUFFICES ASSUME NEW k \in 1 .. 1 PROVE Added("monetization")[k] # "notBlocked"
    BY <1>3
  <2>1. k = 1
    OBVIOUS
  <2> QED
    BY <1>3, <2>1
<1> QED
  BY <1>1, <1>2, <1>3, <1>4, <1>5, <1>6, FlippedNothing DEF Occurs

\* An appConfig as it came, perhaps with its key set, and behind it the freeze keys
\* and the purchase key in either order, each perhaps and only if it had none.
AppConfigEdit(own, e) ==
  \E base \in {own, FlippedSeq(own)},
     x \in {<<>>, Added("freeze")}, y \in {<<>>, Added("monetization")} :
    /\ x # <<>> => ~Occurs("since", own)
    /\ y # <<>> => ~Occurs("blocked", own) /\ ~Occurs("notBlocked", own)
    /\ e = base \o x \o y \/ e = base \o y \o x

LEMMA AppConfigEdits ==
  ASSUME NEW reply \in Replies, reply.kind = "appConfig", NEW size, NEW e
  PROVE  e \in Edits(reply, size) <=> AppConfigEdit(reply.elements, e)
<1> DEFINE own == reply.elements
           lacks(w) == \A k \in DOMAIN own : own[k] # w
           flipped == [k \in DOMAIN own |-> IF own[k] = "notBlocked" THEN "blocked" ELSE own[k]]
           freeze == IF lacks("since") THEN {<<>>, Added("freeze")} ELSE {<<>>}
           block == IF lacks("blocked") /\ lacks("notBlocked") THEN {<<>>, Added("monetization")}
                                                             ELSE {<<>>}
           joined(base, x, y) == base \o x \o y
           edits == {joined(base, x, y) : base \in {own, flipped}, x \in freeze, y \in block}
                    \cup {joined(base, y, x) : base \in {own, flipped}, x \in freeze, y \in block}
<1>1. Edits(reply, size) = edits
  BY DEF Edits
<1>2. flipped = FlippedSeq(own)
  BY DEF FlippedSeq
<1>3. \A w : lacks(w) <=> ~Occurs(w, own)
  BY DEF Occurs
<1>4. \A x : x \in freeze <=> x \in {<<>>, Added("freeze")} /\ (x # <<>> => ~Occurs("since", own))
  BY <1>3
<1>5. \A y : y \in block <=> /\ y \in {<<>>, Added("monetization")}
                             /\ y # <<>> => ~Occurs("blocked", own) /\ ~Occurs("notBlocked", own)
  BY <1>3
<1>6. e \in edits <=> \E base \in {own, flipped}, x \in freeze, y \in block :
                         e = joined(base, x, y) \/ e = joined(base, y, x)
  <2> HIDE DEF own, flipped, freeze, block, joined
  <2> QED
    OBVIOUS
<1> HIDE DEF flipped, freeze, block, edits
<1> QED
  BY <1>1, <1>2, <1>4, <1>5, <1>6, Zenon DEF AppConfigEdit

\* The parts of an edited appConfig are vectors, and setting the key of what came
\* leaves it with a key, or without one.
LEMMA BaseKeys ==
  ASSUME NEW own \in Seq(Word), NEW base \in {own, FlippedSeq(own)}
  PROVE  /\ base \in Seq(Word)
         /\ Occurs("since", own) => Occurs("since", base)
         /\ Occurs("blocked", own) => Occurs("blocked", base)
         /\ Occurs("notBlocked", own) => Occurs("blocked", base) \/ Occurs("notBlocked", base)
         /\ FlippedSeq(base) = FlippedSeq(own)
<1>1. CASE base = own
  BY <1>1
<1>2. CASE base = FlippedSeq(own)
  <2>1. base \in Seq(Word) /\ DOMAIN base = DOMAIN own
    BY <1>2, FlippedSeqType
  <2>2. \A k \in DOMAIN own : base[k] = IF own[k] = "notBlocked" THEN "blocked" ELSE own[k]
    BY <1>2 DEF FlippedSeq
  <2>3. FlippedSeq(base) = FlippedSeq(own)
    BY <1>2, FlippedAgain
  <2> QED
    BY <2>1, <2>2, <2>3 DEF Occurs
<1> QED
  BY <1>1, <1>2

\* Whether an element is in three vectors put together.
LEMMA OccursJoined ==
  ASSUME NEW base \in Seq(Word), NEW x \in Seq(Word), NEW y \in Seq(Word), NEW w
  PROVE  /\ base \o x \o y \in Seq(Word)
         /\ Occurs(w, base \o x \o y) <=> Occurs(w, base) \/ Occurs(w, x) \/ Occurs(w, y)
<1>1. PICK u \in Seq(Word) : u = base \o x
  BY ConcatType
<1>2. Occurs(w, u) <=> Occurs(w, base) \/ Occurs(w, x)
  BY <1>1, OccursConcat
<1>3. u \o y \in Seq(Word)
  BY <1>1, ConcatType
<1>4. Occurs(w, u \o y) <=> Occurs(w, u) \/ Occurs(w, y)
  BY <1>1, OccursConcat
<1> QED
  BY <1>1, <1>2, <1>3, <1>4

LEMMA EmptyTail ==
  ASSUME NEW s \in Seq(Word)
  PROVE  s \o <<>> = s
BY ConcatEmptySeq

\* Without one of the freeze keys there is none of ours, nor did any come, so the
\* keys may be added; and so it is with the purchase key.
LEMMA FreezeEdit ==
  ASSUME NEW own \in Seq(Word), NEW e, AppConfigEdit(own, e), ~Occurs("since", e)
  PROVE  AppConfigEdit(own, e \o Added("freeze"))
<1>1. PICK base \in {own, FlippedSeq(own)},
           x \in {<<>>, Added("freeze")}, y \in {<<>>, Added("monetization")} :
             /\ y # <<>> => ~Occurs("blocked", own) /\ ~Occurs("notBlocked", own)
             /\ e = base \o x \o y \/ e = base \o y \o x
  BY DEF AppConfigEdit
<1>0. e = base \o x \o y \/ e = base \o y \o x
  BY <1>1
<1>2. base \in Seq(Word) /\ x \in Seq(Word) /\ y \in Seq(Word)
      /\ (Occurs("since", own) => Occurs("since", base))
  <2>1. base \in Seq(Word) /\ (Occurs("since", own) => Occurs("since", base))
    BY BaseKeys
  <2> QED
    BY <2>1, AddedKeys, EmptySeq
<1>3. ~Occurs("since", base) /\ ~Occurs("since", x)
  <2>1. Occurs("since", base) \/ Occurs("since", x)
          => Occurs("since", base \o x \o y) /\ Occurs("since", base \o y \o x)
    BY <1>2, OccursJoined
  <2> QED
    BY <1>0, <2>1
<1>4. x = <<>>
  BY <1>3, AddedKeys
<1>5. base \o y \in Seq(Word)
  BY <1>2, ConcatType
<1>6. e = base \o y
  BY <1>1, <1>2, <1>4, <1>5, EmptyTail
<1> QED
  BY <1>1, <1>2, <1>3, <1>6, Zenon DEF AppConfigEdit

LEMMA BlockEdit ==
  ASSUME NEW own \in Seq(Word), NEW e, AppConfigEdit(own, e),
         ~Occurs("blocked", e), ~Occurs("notBlocked", e)
  PROVE  AppConfigEdit(own, e \o Added("monetization"))
<1>1. PICK base \in {own, FlippedSeq(own)},
           x \in {<<>>, Added("freeze")}, y \in {<<>>, Added("monetization")} :
             /\ x # <<>> => ~Occurs("since", own)
             /\ e = base \o x \o y \/ e = base \o y \o x
  BY DEF AppConfigEdit
<1>0. e = base \o x \o y \/ e = base \o y \o x
  BY <1>1
<1>2. base \in Seq(Word) /\ x \in Seq(Word) /\ y \in Seq(Word)
      /\ (Occurs("blocked", own) => Occurs("blocked", base))
      /\ (Occurs("notBlocked", own) => Occurs("blocked", base) \/ Occurs("notBlocked", base))
  <2>1. /\ base \in Seq(Word)
        /\ Occurs("blocked", own) => Occurs("blocked", base)
        /\ Occurs("notBlocked", own) => Occurs("blocked", base) \/ Occurs("notBlocked", base)
    BY BaseKeys
  <2> QED
    BY <2>1, AddedKeys, EmptySeq
<1>3. ~Occurs("blocked", base) /\ ~Occurs("blocked", y)
  <2>1. Occurs("blocked", base) \/ Occurs("blocked", y)
          => Occurs("blocked", base \o x \o y) /\ Occurs("blocked", base \o y \o x)
    BY <1>2, OccursJoined
  <2> QED
    BY <1>0, <2>1
<1>4. ~Occurs("notBlocked", base)
  <2>1. Occurs("notBlocked", base)
          => Occurs("notBlocked", base \o x \o y) /\ Occurs("notBlocked", base \o y \o x)
    BY <1>2, OccursJoined
  <2> QED
    BY <1>0, <2>1
<1>5. y = <<>>
  BY <1>3, AddedKeys
<1>6. base \o x \in Seq(Word)
  BY <1>2, ConcatType
<1>7. e = base \o x
  BY <1>1, <1>2, <1>5, <1>6, EmptyTail
<1> QED
  BY <1>1, <1>2, <1>3, <1>4, <1>7, Zenon DEF AppConfigEdit

LEMMA FlipEdit ==
  ASSUME NEW own \in Seq(Word), NEW e, AppConfigEdit(own, e)
  PROVE  AppConfigEdit(own, FlippedSeq(e))
<1>1. PICK base \in {own, FlippedSeq(own)},
           x \in {<<>>, Added("freeze")}, y \in {<<>>, Added("monetization")} :
             /\ x # <<>> => ~Occurs("since", own)
             /\ y # <<>> => ~Occurs("blocked", own) /\ ~Occurs("notBlocked", own)
             /\ e = base \o x \o y \/ e = base \o y \o x
  BY DEF AppConfigEdit
<1>2. base \in Seq(Word) /\ x \in Seq(Word) /\ y \in Seq(Word)
      /\ FlippedSeq(base) = FlippedSeq(own)
  <2>1. base \in Seq(Word) /\ FlippedSeq(base) = FlippedSeq(own)
    BY BaseKeys
  <2> QED
    BY <2>1, AddedKeys, EmptySeq
<1>3. FlippedSeq(<<>>) = <<>>
  <2>1. PICK nothing \in Seq(Word) : nothing = <<>> /\ Len(nothing) = 0
    BY EmptySeq
  <2>2. \A k \in 1 .. Len(nothing) : nothing[k] # "notBlocked"
    BY <2>1
  <2>3. FlippedSeq(nothing) = nothing
    BY <2>2, FlippedNothing
  <2> QED
    BY <2>1, <2>3
<1>4. FlippedSeq(x) = x /\ FlippedSeq(y) = y
  BY <1>3, AddedKeys
<1> DEFINE u == base \o x
           v == base \o y
<1>5. u \in Seq(Word) /\ v \in Seq(Word)
  BY <1>2, ConcatType
<1>6. FlippedSeq(u) = FlippedSeq(own) \o x /\ FlippedSeq(v) = FlippedSeq(own) \o y
  <2>1. FlippedSeq(u) = FlippedSeq(base) \o FlippedSeq(x)
    BY <1>2, FlippedConcat
  <2>2. FlippedSeq(v) = FlippedSeq(base) \o FlippedSeq(y)
    BY <1>2, FlippedConcat
  <2> HIDE DEF u, v
  <2> QED
    BY <1>2, <1>4, <2>1, <2>2
<1>7. e = u \o y \/ e = v \o x
  BY <1>1
<1> HIDE DEF u, v
<1>8. FlippedSeq(e) = FlippedSeq(own) \o x \o y \/ FlippedSeq(e) = FlippedSeq(own) \o y \o x
  <2>1. FlippedSeq(u \o y) = FlippedSeq(u) \o FlippedSeq(y)
    BY <1>2, <1>5, FlippedConcat
  <2>2. FlippedSeq(v \o x) = FlippedSeq(v) \o FlippedSeq(x)
    BY <1>2, <1>5, FlippedConcat
  <2> QED
    BY <1>4, <1>6, <1>7, <2>1, <2>2, Zenon
<1> QED
  BY <1>1, <1>8, Zenon DEF AppConfigEdit

\* One more hidden gift in front.
Gifts(n) == [k \in 1 .. n |-> "hiddenGift"]

LEMMA GiftsType ==
  ASSUME NEW n \in Nat
  PROVE  Gifts(n) \in Seq(Word) /\ Len(Gifts(n)) = n /\ \A k \in 1 .. n : Gifts(n)[k] = "hiddenGift"
<1>1. Gifts(n) \in [1 .. n -> Word]
  BY DEF Word, Element, Gifts
<1> QED
  BY <1>1, SeqOfFunction DEF Gifts

LEMMA GiftInFront ==
  ASSUME NEW n \in Nat
  PROVE  Added("hidden") \in Seq(Word) /\ Added("hidden") \o Gifts(n) = Gifts(n + 1)
<1>1. PICK one \in Seq(Word) : one = Added("hidden") /\ Len(one) = 1 /\ one[1] = "hiddenGift"
  <2>1. Added("hidden") = <<"hiddenGift">>
    BY DEF Added
  <2> QED
    BY <2>1, AddedType
<1>2. PICK f \in Seq(Word) : f = Gifts(n) /\ Len(f) = n /\ \A k \in 1 .. n : f[k] = "hiddenGift"
  BY GiftsType
<1>3. n + 1 \in Nat
  OBVIOUS
<1>4. PICK g \in Seq(Word) : /\ g = Gifts(n + 1) /\ Len(g) = n + 1
                             /\ \A k \in 1 .. n + 1 : g[k] = "hiddenGift"
  BY <1>3, GiftsType
<1>5. PICK u \in Seq(Word) :
         /\ u = one \o f /\ Len(u) = Len(one) + Len(f)
         /\ \A k \in 1 .. Len(one) + Len(f) :
               u[k] = IF k <= Len(one) THEN one[k] ELSE f[k - Len(one)]
  BY Concat
<1>6. Len(u) = n + 1
  <2>1. Len(one) = 1
    BY <1>1
  <2>2. Len(f) = n
    BY <1>2
  <2>3. Len(u) = Len(one) + Len(f)
    BY <1>5
  <2> QED
    BY <2>1, <2>2, <2>3
<1>7. \A k \in 1 .. n + 1 : u[k] = g[k]
  <2> SUFFICES ASSUME NEW k \in 1 .. n + 1 PROVE u[k] = "hiddenGift"
    BY <1>4
  <2>1. CASE k = 1
    BY <1>1, <1>2, <1>5, <2>1
  <2>2. CASE k # 1
    <3>1. k - 1 \in 1 .. n /\ ~(k <= 1) /\ k \in 1 .. 1 + n
      BY <2>2
    <3> QED
      BY <1>1, <1>2, <1>5, <3>1
  <2> QED
    BY <2>1, <2>2
<1>8. u = g
  BY <1>4, <1>6, <1>7, SeqEqual
<1> QED
  BY <1>1, <1>2, <1>4, <1>5, <1>8

LEMMA StarGiftsEdits ==
  ASSUME NEW reply \in Replies, reply.kind = "starGifts", NEW size, NEW e
  PROVE  e \in Edits(reply, size) <=> \E n \in 0 .. size : e = Gifts(n) \o reply.elements
BY DEF Edits, Gifts

LEMMA HiddenEdit ==
  ASSUME NEW reply \in Replies, reply.kind = "starGifts", NEW size \in Nat,
         NEW e \in Edits(reply, size)
  PROVE  Added("hidden") \o e \in Edits(reply, size + 1)
<1>1. PICK n \in 0 .. size : e = Gifts(n) \o reply.elements
  BY StarGiftsEdits
<1>2. PICK own \in Seq(Word) : own = reply.elements
  BY RepliesAssumption DEF Word
<1>3. n \in Nat /\ n + 1 \in 0 .. size + 1
  OBVIOUS
<1>4. Gifts(n) \in Seq(Word) /\ Added("hidden") \in Seq(Word)
      /\ Added("hidden") \o Gifts(n) = Gifts(n + 1)
  BY <1>3, GiftsType, GiftInFront
<1>5. Added("hidden") \o (Gifts(n) \o own) = (Added("hidden") \o Gifts(n)) \o own
  <2>1. \A s, t \in Seq(Word) : s \o (t \o own) = (s \o t) \o own
    BY ConcatAssociative, SMTT(30)
  <2> QED
    BY <1>4, <2>1
<1>6. Added("hidden") \o e = Gifts(n + 1) \o reply.elements
  BY <1>1, <1>2, <1>4, <1>5
<1> QED
  BY <1>3, <1>6, StarGiftsEdits

----------------------------------------------------------------------------
(* Replies stay whole.                                                     *)

\* What a block holds is what came, under whole edits, and is counted; only a reply
\* to a request the DLL asked for is tracked.
WholeReply(reply, tracked, b) ==
  /\ b.kind = reply.kind
  /\ tracked => b.kind = "asked"
  /\ b.count = CountOf(Elements(b))
  /\ Elements(b) \in Edits(reply, b.size)

WholeInv ==
  \A i \in DOMAIN queue : WholeReply(queue[i].came, queue[i].tracked, heap[queue[i].at])

\* It only depends on the kind, the count, the size and the words.
LEMMA SameWhole ==
  ASSUME NEW reply, NEW tracked, NEW b, NEW c, WholeReply(reply, tracked, b),
         c.kind = b.kind, c.count = b.count, c.size = b.size, Elements(c) = Elements(b)
  PROVE  WholeReply(reply, tracked, c)
BY DEF WholeReply

\* It is of no consequence how much room there is.
LEMMA GrownWhole ==
  ASSUME NEW reply, NEW tracked, NEW b, Sound(b), WholeReply(reply, tracked, b),
         NEW capacity \in Nat, b.size <= capacity
  PROVE  WholeReply(reply, tracked, Grown(b, capacity))
BY GrownElements, SameWhole

LEMMA GrownExtends ==
  ASSUME NEW b, Sound(b), NEW capacity \in Nat, b.size <= capacity, NEW f, Extends(f, b)
  PROVE  Extends(f, Grown(b, capacity))
<1>1. PICK c : c = Grown(b, capacity) /\ Sound(c)
  BY GrownType
<1>2. Elements(c) = Elements(b) /\ c.kind = b.kind
  BY <1>1, GrownElements
<1>3. \A w : Has(c, w) <=> Has(b, w)
  BY <1>1, <1>2, HasOccurs
<1> QED
  BY <1>1, <1>2, <1>3 DEF Extends

\* What each rewriter leaves of a reply that is whole.
LEMMA EditedKeepsWhole ==
  ASSUME NEW reply \in Replies, NEW tracked, NEW b, Sound(b), WholeReply(reply, tracked, b),
         NEW f, Fits(f, b), Extends(f, b)
  PROVE  WholeReply(reply, tracked, Edited(b, f))
<1>1. PICK c : c = Edited(b, f)
  OBVIOUS
<1>2. /\ c.kind = b.kind
      /\ \/ Elements(c) = Elements(b) /\ c.count = b.count /\ c.size = b.size
         \/ /\ c.count = CountOf(Elements(c)) /\ c.size = b.size + Len(Added(f))
            /\ f # "hidden" => Elements(c) = Elements(b) \o Added(f)
            /\ f = "hidden" => Elements(c) = Added(f) \o Elements(b)
  BY <1>1, EditedElements
<1>3. CASE Elements(c) = Elements(b) /\ c.count = b.count /\ c.size = b.size
  BY <1>1, <1>2, <1>3, SameWhole
<1>4. CASE /\ c.count = CountOf(Elements(c)) /\ c.size = b.size + Len(Added(f))
           /\ f # "hidden" => Elements(c) = Elements(b) \o Added(f)
           /\ f = "hidden" => Elements(c) = Added(f) \o Elements(b)
  <2>1. b.kind = reply.kind /\ Elements(b) \in Edits(reply, b.size) /\ b.size \in Nat
    BY DEF WholeReply, Sound, Block
  <2>2. PICK own \in Seq(Word) : own = reply.elements
    BY RepliesAssumption DEF Word
  <2>3. ASSUME f = "freeze", b.kind = "appConfig", ~Has(b, "since")
        PROVE  Elements(c) \in Edits(reply, c.size)
    <3>1. AppConfigEdit(own, Elements(b)) /\ ~Occurs("since", Elements(b))
      BY <2>1, <2>2, <2>3, AppConfigEdits, HasOccurs
    <3>2. Elements(c) = Elements(b) \o Added("freeze")
      BY <1>4, <2>3
    <3>3. AppConfigEdit(own, Elements(c))
      BY <3>1, <3>2, FreezeEdit
    <3> QED
      BY <1>4, <2>1, <2>2, <2>3, <3>3, AppConfigEdits
  <2>4. ASSUME f = "monetization", b.kind = "appConfig", ~Has(b, "blocked"), ~Has(b, "notBlocked")
        PROVE  Elements(c) \in Edits(reply, c.size)
    <3>1. AppConfigEdit(own, Elements(b)) /\ ~Occurs("blocked", Elements(b))
          /\ ~Occurs("notBlocked", Elements(b))
      BY <2>1, <2>2, <2>4, AppConfigEdits, HasOccurs
    <3>2. Elements(c) = Elements(b) \o Added("monetization")
      BY <1>4, <2>4
    <3>3. AppConfigEdit(own, Elements(c))
      BY <3>1, <3>2, BlockEdit
    <3> QED
      BY <1>4, <2>1, <2>2, <2>4, <3>3, AppConfigEdits
  <2>5. ASSUME f = "hidden", b.kind = "starGifts"
        PROVE  Elements(c) \in Edits(reply, c.size)
    <3>1. Elements(c) = Added("hidden") \o Elements(b) /\ c.size = b.size + Len(Added("hidden"))
      BY <1>4, <2>5
    <3>2. Len(Added("hidden")) = 1
      BY DEF Added
    <3>3. Added("hidden") \o Elements(b) \in Edits(reply, b.size + 1)
      BY <2>1, <2>5, HiddenEdit
    <3> QED
      BY <3>1, <3>2, <3>3
  <2>6. Elements(c) \in Edits(reply, c.size)
    BY <2>3, <2>4, <2>5 DEF Extends
  <2> QED
    BY <1>1, <1>2, <1>4, <2>6 DEF WholeReply
<1> QED
  BY <1>2, <1>3, <1>4

LEMMA FlippedKeepsWhole ==
  ASSUME NEW reply \in Replies, NEW tracked, NEW b, Sound(b), WholeReply(reply, tracked, b),
         b.kind = "appConfig"
  PROVE  WholeReply(reply, tracked, Flipped(b))
<1>1. PICK c : c = Flipped(b)
  OBVIOUS
<1>2. /\ Elements(c) = FlippedSeq(Elements(b)) /\ c.kind = b.kind
      /\ c.count = b.count /\ c.size = b.size
  BY <1>1, FlippedElements
<1>3. Elements(b) \in Seq(Word)
  BY ElementsType
<1>4. CountOf(Elements(c)) = CountOf(Elements(b))
  BY <1>2, <1>3, FlippedCount
<1>5. PICK own \in Seq(Word) : own = reply.elements
  BY RepliesAssumption DEF Word
<1>6. reply.kind = "appConfig" /\ AppConfigEdit(own, Elements(b))
  BY <1>5, AppConfigEdits DEF WholeReply
<1>7. AppConfigEdit(own, Elements(c))
  BY <1>2, <1>3, <1>6, FlipEdit
<1>8. Elements(c) \in Edits(reply, c.size)
  BY <1>5, <1>6, <1>7, AppConfigEdits
<1> QED
  BY <1>1, <1>2, <1>4, <1>8 DEF WholeReply

\* The answer we put in is whole, and so is what has just arrived.
LEMMA BuiltWhole ==
  ASSUME NEW reply \in Replies, reply.kind = "asked"
  PROVE  WholeReply(reply, FALSE, Built("asked", <<"answer">>))
<1>1. PICK b : b = Built("asked", <<"answer">>)
  OBVIOUS
<1>2. PICK answer \in Seq(Word) : answer = <<"answer">> /\ Len(answer) = 1 /\ answer[1] = "answer"
  <2>1. "answer" \in Word
    BY DEF Word, Element
  <2>2. <<"answer">> \in Seq(Word)
    BY <2>1
  <2>3. Len(<<"answer">>) = 1 /\ <<"answer">>[1] = "answer"
    OBVIOUS
  <2> QED
    BY <2>2, <2>3, Zenon
<1>3. /\ b.kind = "asked" /\ b.size = 1 /\ b.count = 1 /\ b.words = answer /\ Sound(b)
  BY <1>1, <1>2, BuiltType DEF Built, Kind
<1>4. Elements(b) = answer
  BY <1>2, <1>3, SameElements
<1>5. CountOf(answer) = 1
  <2>1. \A k \in 1 .. 1 : answer[k] # "alien"
    BY <1>2
  <2> QED
    BY <1>2, <2>1, CountOfAll
<1>6. answer \in Edits(reply, 1)
  BY <1>2 DEF Edits
<1> QED
  BY <1>1, <1>3, <1>4, <1>5, <1>6 DEF WholeReply

\* A reply is an edit of itself: nothing set, nothing added.
LEMMA OwnEdit ==
  ASSUME NEW reply \in Replies, NEW size \in Nat
  PROVE  reply.elements \in Edits(reply, size)
<1>1. PICK own \in Seq(Word) : own = reply.elements
  BY RepliesAssumption DEF Word
<1>2. CASE reply.kind = "appConfig"
  <2>1. own = own \o <<>> \o <<>>
    BY <1>1, EmptyTail
  <2>2. AppConfigEdit(own, own)
    BY <2>1, Zenon DEF AppConfigEdit
  <2> QED
    BY <1>1, <1>2, <2>2, AppConfigEdits
<1>3. CASE reply.kind = "starGifts"
  <2>1. PICK none \in Seq(Word) : none = Gifts(0) /\ Len(none) = 0
    BY GiftsType
  <2>2. none = <<>>
    BY <2>1
  <2>3. own = Gifts(0) \o own
    BY <2>1, <2>2, ConcatEmptySeq
  <2>4. 0 \in 0 .. size
    OBVIOUS
  <2> QED
    BY <1>1, <1>3, <2>3, <2>4, StarGiftsEdits
<1>4. CASE reply.kind # "appConfig" /\ reply.kind # "starGifts"
  <2>1. reply.kind \in Kind
    BY RepliesAssumption
  <2>2. CASE reply.kind = "asked"
    BY <2>2 DEF Edits
  <2>3. CASE reply.kind = "config"
    BY <2>3 DEF Edits
  <2> QED
    BY <1>4, <2>1, <2>2, <2>3 DEF Kind
<1> QED
  BY <1>2, <1>3, <1>4

LEMMA ReceivedWhole ==
  ASSUME NEW reply \in Replies, NEW ref \in Int
  PROVE  WholeReply(reply, reply.kind = "asked", Received(reply, ref))
<1>1. PICK b : b = Received(reply, ref)
  OBVIOUS
<1>2. /\ Elements(b) = reply.elements /\ b.kind = reply.kind
      /\ b.count = CountOf(reply.elements) /\ b.size = Len(reply.elements)
  BY <1>1, ReceivedElements
<1>3. Len(reply.elements) \in Nat
  BY RepliesAssumption
<1>4. Elements(b) \in Edits(reply, b.size)
  BY <1>2, <1>3, OwnEdit
<1> QED
  BY <1>1, <1>2, <1>4 DEF WholeReply

\* A step after which the replies that wait are some that waited, in blocks that
\* hold the same, keeps them whole.
LEMMA SameReplies ==
  ASSUME WholeInv,
         \A i \in DOMAIN queue' : \E j \in DOMAIN queue :
            /\ queue'[i].at = queue[j].at /\ queue'[i].came = queue[j].came
            /\ queue'[i].tracked => queue[j].tracked
            /\ heap'[queue[j].at].kind = heap[queue[j].at].kind
            /\ heap'[queue[j].at].count = heap[queue[j].at].count
            /\ heap'[queue[j].at].size = heap[queue[j].at].size
            /\ heap'[queue[j].at].words = heap[queue[j].at].words
  PROVE  WholeInv'
<1> SUFFICES ASSUME NEW i \in DOMAIN queue'
             PROVE  WholeReply(queue'[i].came, queue'[i].tracked, heap'[queue'[i].at])
  BY DEF WholeInv
<1>1. PICK j \in DOMAIN queue :
         /\ queue'[i].at = queue[j].at /\ queue'[i].came = queue[j].came
         /\ queue'[i].tracked => queue[j].tracked
         /\ heap'[queue[j].at].kind = heap[queue[j].at].kind
         /\ heap'[queue[j].at].count = heap[queue[j].at].count
         /\ heap'[queue[j].at].size = heap[queue[j].at].size
         /\ heap'[queue[j].at].words = heap[queue[j].at].words
  OBVIOUS
<1>2. WholeReply(queue[j].came, queue[j].tracked, heap[queue[j].at])
  BY DEF WholeInv
<1>3. PICK b : b = heap[queue[j].at]
  OBVIOUS
<1>4. PICK c : c = heap'[queue[j].at]
  OBVIOUS
<1>5. c.kind = b.kind /\ c.count = b.count /\ c.size = b.size /\ Elements(c) = Elements(b)
  BY <1>1, <1>3, <1>4 DEF Elements
<1>6. WholeReply(queue[j].came, queue'[i].tracked, b)
  BY <1>1, <1>2, <1>3 DEF WholeReply
<1>7. WholeReply(queue[j].came, queue'[i].tracked, c)
  BY <1>5, <1>6, SameWhole
<1> QED
  BY <1>1, <1>4, <1>7

\* A rewriter that edits in place edits one reply: no other lives in its block.
LEMMA EditWhole ==
  ASSUME IInv, WholeInv, walk \in 1 .. seen, NEW b,
         WholeReply(queue[walk].came, queue[walk].tracked, b),
         heap' = [heap EXCEPT ![queue[walk].at] = b], queue' = queue
  PROVE  WholeInv'
<1>1. PICK c \in Address : c = queue[walk].at /\ walk \in DOMAIN queue /\ queue \in Seq(Entry)
  BY HereIsReply, HeapType DEF IInv
<1>2. heap'[c] = b /\ \A a \in Address : a # c => heap'[a] = heap[a]
  BY <1>1, HeapType DEF IInv
<1>3. ASSUME NEW i \in DOMAIN queue
      PROVE  WholeReply(queue[i].came, queue[i].tracked, heap'[queue[i].at])
  <2>1. CASE i = walk
    BY <1>1, <1>2, <2>1
  <2>2. CASE i # walk
    <3>1. queue[i].at \in Address /\ queue[i].at # c
      <4>1. queue[i] \in Entry
        BY <1>1
      <4>2. queue[i].at # queue[walk].at
        BY <1>1, <2>2 DEF IInv, Distinct
      <4> QED
        BY <1>1, <4>1, <4>2 DEF Entry
    <3> QED
      BY <1>2, <3>1 DEF WholeInv
  <2> QED
    BY <2>1, <2>2
<1> QED
  BY <1>3 DEF WholeInv

\* One that swaps puts a fresh block in its place: no reply lives there.
LEMMA SwapWhole ==
  ASSUME IInv, WholeInv, walk \in 1 .. seen, Unallocated # {}, NEW b, NEW x \in BOOLEAN,
         WholeReply(queue[walk].came, x, b), Swap(b, x)
  PROVE  WholeInv'
<1>1. PICK n \in Address : n = LeastUnallocated /\ heap[n].owner = "none"
  BY FreshBlock
<1>2. ~InQueue(n)
  BY <1>1 DEF IInv, RefInv
<1>3. heap'[n] = b /\ \A a \in Address : a # n => heap'[a] = heap[a]
  BY <1>1, HeapType DEF IInv, Swap
<1>4. walk \in DOMAIN queue /\ queue[walk] \in Entry /\ queue \in Seq(Entry)
  BY HereIsReply, HeapType DEF IInv
<1>5. PICK e : e = [at |-> n, came |-> queue[walk].came, tracked |-> x]
  OBVIOUS
<1>6. queue' = [queue EXCEPT ![walk] = e]
  BY <1>1, <1>4, <1>5 DEF Swap, Entry
<1>7. DOMAIN queue' = DOMAIN queue /\ queue'[walk] = e
      /\ \A i \in DOMAIN queue : i # walk => queue'[i] = queue[i]
  BY <1>4, <1>6
<1>8. ASSUME NEW i \in DOMAIN queue
      PROVE  WholeReply(queue'[i].came, queue'[i].tracked, heap'[queue'[i].at])
  <2>1. CASE i = walk
    BY <1>3, <1>5, <1>7, <2>1
  <2>2. CASE i # walk
    <3>1. queue[i].at \in Address /\ queue[i].at # n
      <4>1. queue[i] \in Entry
        BY <1>4
      <4> QED
        BY <1>2, <4>1 DEF Entry, InQueue
    <3> QED
      BY <1>3, <1>7, <2>2, <3>1 DEF WholeInv
  <2> QED
    BY <2>1, <2>2
<1> QED
  BY <1>7, <1>8 DEF WholeInv

\* The steps of the hook.
LEMMA HereIsWhole ==
  ASSUME IInv, WholeInv, walk \in 1 .. seen
  PROVE  /\ queue[walk].came \in Replies /\ queue[walk].tracked \in BOOLEAN /\ Sound(Here)
         /\ WholeReply(queue[walk].came, queue[walk].tracked, Here)
<1>1. walk \in DOMAIN queue /\ queue[walk] \in Entry /\ Sound(Here) /\ Here = heap[queue[walk].at]
  BY HereIsReply
<1> QED
  BY <1>1 DEF WholeInv, Entry

LEMMA InPlaceWhole ==
  ASSUME IInv, WholeInv, NEW f \in Feature, ExtendInPlace(f)
  PROVE  WholeInv'
<1>1. walk \in 1 .. seen /\ Fits(f, Here) /\ Extends(f, Here) /\ queue' = queue
  BY DEF ExtendInPlace, Turn
<1>2. PICK b : b = Edited(Here, f)
  OBVIOUS
<1>3. WholeReply(queue[walk].came, queue[walk].tracked, b)
  BY <1>1, <1>2, HereIsWhole, EditedKeepsWhole
<1>4. Here = heap[queue[walk].at] /\ queue[walk].at \in Address
  BY <1>1, HereIsReply
<1>5. heap' = [heap EXCEPT ![queue[walk].at] = b]
  BY <1>2, <1>4, HeapType DEF IInv, ExtendInPlace
<1> QED
  BY <1>1, <1>3, <1>5, EditWhole

LEMMA FlipWhole ==
  ASSUME IInv, WholeInv, FlipPurchaseBlocked
  PROVE  WholeInv'
<1>1. walk \in 1 .. seen /\ Here.kind = "appConfig" /\ queue' = queue
  BY DEF FlipPurchaseBlocked, Turn, CanFlip
<1>2. PICK b : b = Flipped(Here)
  OBVIOUS
<1>3. WholeReply(queue[walk].came, queue[walk].tracked, b)
  BY <1>1, <1>2, HereIsWhole, FlippedKeepsWhole
<1>4. Here = heap[queue[walk].at] /\ queue[walk].at \in Address
  BY <1>1, HereIsReply
<1>5. heap' = [heap EXCEPT ![queue[walk].at] = b]
  BY <1>2, <1>4, HeapType DEF IInv, FlipPurchaseBlocked
<1> QED
  BY <1>1, <1>3, <1>5, EditWhole

LEMMA CopyWhole ==
  ASSUME IInv, WholeInv, NEW f \in Feature, ExtendGrown(f)
  PROVE  WholeInv'
<1>1. /\ walk \in 1 .. seen /\ Unallocated # {} /\ Extends(f, Here)
      /\ Swap(Edited(Grown(Here, Needed(f, Here)), f), queue[walk].tracked)
  BY DEF ExtendGrown, Turn
<1>2. /\ queue[walk].came \in Replies /\ queue[walk].tracked \in BOOLEAN /\ Sound(Here)
      /\ WholeReply(queue[walk].came, queue[walk].tracked, Here)
  BY <1>1, HereIsWhole
<1>3. Needed(f, Here) \in Nat /\ Here.size <= Needed(f, Here)
  BY <1>2, AddedType DEF Needed, Sound, Block
<1>4. PICK g : g = Grown(Here, Needed(f, Here))
  OBVIOUS
<1>5. /\ Sound(g) /\ Capacity(g) = Needed(f, Here) /\ g.size = Here.size /\ Extends(f, g)
      /\ WholeReply(queue[walk].came, queue[walk].tracked, g)
  BY <1>1, <1>2, <1>3, <1>4, GrownType, GrownExtends, GrownWhole
<1>6. Fits(f, g)
  BY <1>3, <1>5 DEF Fits, Needed
<1>7. WholeReply(queue[walk].came, queue[walk].tracked, Edited(g, f))
  BY <1>2, <1>5, <1>6, EditedKeepsWhole
<1> QED
  BY <1>1, <1>2, <1>4, <1>7, SwapWhole

LEMMA RelocateWhole ==
  ASSUME IInv, WholeInv, Relocate
  PROVE  WholeInv'
<1>1. walk \in 1 .. seen
  BY DEF Relocate, Turn
<1>2. /\ queue[walk].came \in Replies /\ queue[walk].tracked \in BOOLEAN /\ Sound(Here)
      /\ WholeReply(queue[walk].came, queue[walk].tracked, Here)
  BY <1>1, HereIsWhole
<1>3. CASE Unallocated # {}
  <2>1. Here.size \in Nat /\ Here.size <= Here.size
    BY <1>2 DEF Sound, Block
  <2>2. WholeReply(queue[walk].came, queue[walk].tracked, Grown(Here, Here.size))
    BY <1>2, <2>1, GrownWhole
  <2>3. Swap(Grown(Here, Here.size), queue[walk].tracked)
    BY <1>3 DEF Relocate
  <2> QED
    BY <1>1, <1>2, <1>3, <2>2, <2>3, SwapWhole
<1>4. CASE Unallocated = {}
  <2>1. heap' = heap /\ queue' = queue
    BY <1>4 DEF Relocate
  <2> QED
    BY <2>1, SameReplies
<1> QED
  BY <1>3, <1>4

LEMMA SubstituteWhole ==
  ASSUME IInv, WholeInv, Substitute
  PROVE  WholeInv'
<1>1. walk \in 1 .. seen /\ queue[walk].tracked
  BY DEF Substitute, Turn, Substitutes
<1>2. queue[walk].came \in Replies /\ WholeReply(queue[walk].came, queue[walk].tracked, Here)
  BY <1>1, HereIsWhole
<1>3. Here.kind = "asked" /\ queue[walk].came.kind = "asked"
  BY <1>1, <1>2 DEF WholeReply
<1>4. CASE Unallocated # {}
  <2>1. WholeReply(queue[walk].came, FALSE, Built(Here.kind, <<"answer">>))
    BY <1>2, <1>3, BuiltWhole
  <2>2. Swap(Built(Here.kind, <<"answer">>), FALSE)
    BY <1>4 DEF Substitute
  <2> QED
    BY <1>1, <1>4, <2>1, <2>2, SwapWhole
<1>5. CASE Unallocated = {}
  <2>1. heap' = heap /\ queue' = [queue EXCEPT ![walk].tracked = FALSE]
    BY <1>5 DEF Substitute
  <2>2. walk \in DOMAIN queue /\ queue[walk] \in Entry /\ queue \in Seq(Entry)
    BY <1>1, HereIsReply, HeapType DEF IInv
  <2>3. PICK e : e = [queue[walk] EXCEPT !.tracked = FALSE]
    OBVIOUS
  <2>4. e.at = queue[walk].at /\ e.came = queue[walk].came /\ ~e.tracked
    BY <2>2, <2>3 DEF Entry
  <2>5. queue' = [queue EXCEPT ![walk] = e]
    BY <2>1, <2>2, <2>3
  <2>6. DOMAIN queue' = DOMAIN queue /\ queue'[walk] = e
        /\ \A i \in DOMAIN queue : i # walk => queue'[i] = queue[i]
    BY <2>2, <2>5
  <2>7. \A i \in DOMAIN queue : /\ queue'[i].at = queue[i].at /\ queue'[i].came = queue[i].came
                                /\ queue'[i].tracked => queue[i].tracked
    BY <2>4, <2>6
  <2> QED
    BY <2>1, <2>6, <2>7, SameReplies
<1> QED
  BY <1>4, <1>5

\* The steps of Telegram.
LEMMA ArriveWhole ==
  ASSUME IInv, WholeInv, NEW reply \in Replies, NEW shared \in BOOLEAN, Arrive(reply, shared)
  PROVE  WholeInv'
<1>1. PICK n \in Address : n = LeastUnallocated /\ heap[n].owner = "none"
  BY FreshBlock DEF Arrive
<1>2. PICK b : b = Received(reply, IF shared THEN 2 ELSE 1)
  OBVIOUS
<1>3. PICK e : e = [at |-> n, came |-> reply, tracked |-> reply.kind = "asked"]
  OBVIOUS
<1>4. heap' = [heap EXCEPT ![n] = b] /\ queue' = Append(queue, e)
  BY <1>1, <1>2, <1>3 DEF Arrive
<1>5. e.at = n /\ e.came = reply /\ e.tracked = (reply.kind = "asked") /\ e \in Entry
  BY <1>3 DEF Entry
<1>6. queue \in Seq(Entry) /\ Len(queue) \in Nat /\ DOMAIN queue = 1 .. Len(queue)
  BY HeapType DEF IInv
<1>7. heap'[n] = b /\ \A a \in Address : a # n => heap'[a] = heap[a]
  BY <1>4, HeapType DEF IInv
<1>8. /\ DOMAIN queue' = 1 .. Len(queue) + 1 /\ queue'[Len(queue) + 1] = e
      /\ \A i \in 1 .. Len(queue) : queue'[i] = queue[i]
  <2>1. Append(queue, e) \in Seq(Entry) /\ Len(Append(queue, e)) = Len(queue) + 1
    BY <1>5, <1>6, AppendProperties
  <2>2. /\ \A i \in 1 .. Len(queue) : Append(queue, e)[i] = queue[i]
        /\ Append(queue, e)[Len(queue) + 1] = e
    BY <1>5, <1>6, AppendProperties
  <2> QED
    BY <1>4, <1>6, <2>1, <2>2
<1>9. ~InQueue(n)
  BY <1>1 DEF IInv, RefInv
<1>10. WholeReply(reply, reply.kind = "asked", b)
  BY <1>2, ReceivedWhole
<1>11. ASSUME NEW i \in 1 .. Len(queue) + 1
       PROVE  WholeReply(queue'[i].came, queue'[i].tracked, heap'[queue'[i].at])
  <2>1. CASE i = Len(queue) + 1
    BY <1>5, <1>7, <1>8, <1>10, <2>1
  <2>2. CASE i \in 1 .. Len(queue)
    <3>1. queue[i].at \in Address /\ queue[i].at # n
      <4>1. queue[i] \in Entry /\ i \in DOMAIN queue
        BY <1>6, <2>2
      <4> QED
        BY <1>9, <4>1 DEF Entry, InQueue
    <3> QED
      BY <1>6, <1>7, <1>8, <2>2, <3>1 DEF WholeInv
  <2> QED
    BY <1>6, <2>1, <2>2
<1> QED
  BY <1>8, <1>11 DEF WholeInv

\* Who else waits does not live in the block that is let go.
LEMMA DispatchWhole ==
  ASSUME IInv, WholeInv, NEW keep \in BOOLEAN, Dispatch(keep)
  PROVE  WholeInv'
<1>1. queue \in Seq(Entry) /\ queue # <<>> /\ queue' = Tail(queue)
  BY HeapType DEF IInv, Dispatch
<1>2. /\ Len(queue) \in Nat /\ Len(queue) >= 1 /\ DOMAIN queue = 1 .. Len(queue)
      /\ queue[1] = Head(queue) /\ queue[1] \in Entry
  <2>1. Len(queue) \in Nat /\ Len(queue) >= 1 /\ DOMAIN queue = 1 .. Len(queue)
    BY <1>1
  <2> QED
    BY <1>1, <2>1, HeadTailProperties
<1>3. /\ DOMAIN queue' = 1 .. Len(queue) - 1
      /\ \A i \in 1 .. Len(queue) - 1 : queue'[i] = queue[i + 1]
  <2>1. Tail(queue) \in Seq(Entry) /\ Len(Tail(queue)) = Len(queue) - 1
    BY <1>1, HeadTailProperties
  <2>2. \A i \in 1 .. Len(queue) - 1 : Tail(queue)[i] = queue[i + 1]
    BY <1>1, <1>2
  <2> QED
    BY <1>1, <1>2, <2>1, <2>2
<1>4. PICK c \in Address : c = queue[1].at /\ (heap' = heap \/ heap' = Released(heap, c))
  BY <1>2 DEF Dispatch, Entry
<1>5. \A a \in Address : a # c => heap'[a] = heap[a]
  BY <1>4, ReleasedType
<1>6. ASSUME NEW i \in DOMAIN queue'
      PROVE  /\ i + 1 \in DOMAIN queue /\ queue'[i] = queue[i + 1]
             /\ heap'[queue[i + 1].at] = heap[queue[i + 1].at]
  <2>1. i + 1 \in DOMAIN queue /\ i + 1 # 1 /\ queue'[i] = queue[i + 1] /\ 1 \in DOMAIN queue
    BY <1>2, <1>3
  <2>2. queue[i + 1] \in Entry
    BY <1>1, <2>1
  <2>3. queue[i + 1].at \in Address /\ queue[i + 1].at # c
    BY <1>4, <2>1, <2>2 DEF IInv, Distinct, Entry
  <2> QED
    BY <1>5, <2>1, <2>3
<1> QED
  BY <1>6, SameReplies

\* Nor is a block freed, or anything in it changed, that a reply still waits in.
LEMMA ForgetWhole ==
  ASSUME IInv, WholeInv, NEW c \in Address, Forget(c)
  PROVE  WholeInv'
<1>1. heap' = Released(heap, c) /\ queue' = queue /\ kept[c] > 0
  BY DEF Forget
<1>2. queue \in Seq(Entry)
  BY HeapType DEF IInv
<1>3. \A a \in Address : a # c => heap'[a] = heap[a]
  BY <1>1, ReleasedType
<1>4. ASSUME InQueue(c)
      PROVE  /\ heap'[c].kind = heap[c].kind /\ heap'[c].count = heap[c].count
             /\ heap'[c].size = heap[c].size /\ heap'[c].words = heap[c].words
  <2>1. /\ heap[c].owner \in {"none", "telegram", "host"} /\ heap[c].ref \in Int
        /\ kept[c] \in Nat
    BY HeapType DEF IInv, Block
  <2>2. heap[c].owner = "telegram" => heap[c].ref >= 2
    BY <1>1, <1>4, <2>1 DEF IInv, RefInv
  <2>3. heap[c].owner = "telegram" => heap[c].ref # STATIC /\ heap[c].ref # 1
    BY <2>1, <2>2 DEF STATIC
  <2>4. heap[c].owner # "none"
    BY <1>4 DEF IInv, RefInv
  <2> QED
    BY <1>1, <2>1, <2>3, <2>4, ReleasedType
<1>5. ASSUME NEW i \in DOMAIN queue
      PROVE  /\ heap'[queue[i].at].kind = heap[queue[i].at].kind
             /\ heap'[queue[i].at].count = heap[queue[i].at].count
             /\ heap'[queue[i].at].size = heap[queue[i].at].size
             /\ heap'[queue[i].at].words = heap[queue[i].at].words
  <2>1. queue[i] \in Entry
    BY <1>2
  <2>2. queue[i].at \in Address /\ InQueue(queue[i].at)
    BY <2>1 DEF Entry, InQueue
  <2> QED
    BY <1>3, <1>4, <2>2
<1> QED
  BY <1>1, <1>5, SameReplies

\* Every step keeps the replies whole.
LEMMA NextWhole ==
  ASSUME IInv, WholeInv, [Next]_vars
  PROVE  WholeInv'
<1>1. CASE UNCHANGED <<heap, queue>>
  BY <1>1, SameReplies
<1>2. CASE \E f \in Feature : ExtendInPlace(f)
  BY <1>2, InPlaceWhole
<1>3. CASE \E f \in Feature : ExtendGrown(f)
  BY <1>3, CopyWhole
<1>4. CASE FlipPurchaseBlocked
  BY <1>4, FlipWhole
<1>5. CASE Relocate
  BY <1>5, RelocateWhole
<1>6. CASE Substitute
  BY <1>6, SubstituteWhole
<1>7. CASE \E reply \in Replies, shared \in BOOLEAN : Arrive(reply, shared)
  BY <1>7, ArriveWhole
<1>8. CASE \E keep \in BOOLEAN : Dispatch(keep)
  BY <1>8, DispatchWhole
<1>9. CASE \E a \in Address : Forget(a)
  BY <1>9, ForgetWhole
<1>10. CASE \/ EnterHook \/ Paused \/ LeaveHook
            \/ \E f \in Feature : PassOver(f)
            \/ \E c \in Configs : Reload(c)
  BY <1>1, <1>10 DEF EnterHook, PassOver, Reload, Paused, LeaveHook
<1>11. CASE UNCHANGED vars
  BY <1>1, <1>11
<1> QED
  BY <1>2, <1>3, <1>4, <1>5, <1>6, <1>7, <1>8, <1>9, <1>10, <1>11 DEF Next

\* Whatever is switched, refused, reverted or walked again, a waiting reply is the
\* genuine one under whole edits, and its count is the count of its elements.
THEOREM EditedWhole_Always == Spec => []EditedWhole
<1>1. Init => WholeInv
  BY DEF Init, WholeInv
<1>2. IInv /\ WholeInv /\ [Next]_vars => WholeInv'
  BY NextWhole
<1>3. WholeInv => EditedWhole
  BY DEF WholeInv, WholeReply, EditedWhole
<1> QED
  BY InvAlways, <1>1, <1>2, <1>3, PTL DEF Spec
----------------------------------------------------------------------------
(* The rewriting of replies implements AtomicReplies.                      *)

AtomicStep == [Promise!AtomicNext]_<<on, Waiting, Held>>

\* A step of the queue that does not change the queue changes nothing.
LEMMA QueueSteps ==
  ASSUME Promise!QueueStep, on' = on, Waiting' # Waiting \/ Held' = Held
  PROVE  AtomicStep
BY DEF AtomicStep, Promise!AtomicNext

\* What waits shows what its block publishes.
LEMMA WaitingShows ==
  /\ DOMAIN Waiting = DOMAIN queue
  /\ \A i \in DOMAIN queue :
        /\ Waiting[i].came = queue[i].came /\ Waiting[i].due = queue[i].tracked
        /\ Waiting[i].shows = Elements(heap[queue[i].at])
BY DEF Waiting

\* Other blocks that publish the same show the same.
LEMMA SameWaiting ==
  ASSUME DOMAIN queue' = DOMAIN queue,
         \A i \in DOMAIN queue :
            /\ queue'[i].came = queue[i].came /\ queue'[i].tracked = queue[i].tracked
            /\ Elements(heap'[queue'[i].at]) = Elements(heap[queue[i].at])
  PROVE  Waiting' = Waiting
BY DEF Waiting

\* What is kept before and after a step shows the same after it.
LEMMA KeptShows ==
  ASSUME IInv, [Next]_vars
  PROVE  \A a \in Address : kept[a] > 0 /\ kept'[a] > 0 =>
            Elements(heap'[a]) = Elements(heap[a])
<1>1. \A a \in Address : Spared(a)
  BY Step
<1> QED
  BY <1>1 DEF Spared, Elements

LEMMA SameHeld ==
  ASSUME IInv, [Next]_vars, \A a \in Address : kept'[a] > 0 <=> kept[a] > 0
  PROVE  Held' = Held
BY KeptShows DEF Held

\* A reply in the queue, without its block.
Shown(reply, e, due) == [came |-> reply, shows |-> e, due |-> due]

\* An edit in place shows in one reply: no other lives in its block.
LEMMA EditShows ==
  ASSUME IInv, walk \in 1 .. seen, NEW b,
         heap' = [heap EXCEPT ![queue[walk].at] = b], queue' = queue
  PROVE  Waiting' = [Waiting EXCEPT ![walk] = Shown(queue[walk].came, Elements(b),
                                                    queue[walk].tracked)]
<1>1. PICK c \in Address : c = queue[walk].at /\ walk \in DOMAIN queue /\ queue \in Seq(Entry)
  BY HereIsReply, HeapType DEF IInv
<1>2. heap'[c] = b /\ \A a \in Address : a # c => heap'[a] = heap[a]
  BY <1>1, HeapType DEF IInv
<1>3. ASSUME NEW i \in DOMAIN queue, i # walk
      PROVE  heap'[queue[i].at] = heap[queue[i].at]
  <2>1. queue[i] \in Entry
    BY <1>1
  <2>2. queue[i].at # queue[walk].at
    BY <1>1, <1>3 DEF IInv, Distinct
  <2> QED
    BY <1>1, <1>2, <2>1, <2>2 DEF Entry
<1> QED
  BY <1>1, <1>2, <1>3 DEF Waiting, Shown

\* So does a swap: no reply lives in the fresh block.
LEMMA SwapShows ==
  ASSUME IInv, walk \in 1 .. seen, Unallocated # {}, NEW b, NEW x \in BOOLEAN, Swap(b, x)
  PROVE  Waiting' = [Waiting EXCEPT ![walk] = Shown(queue[walk].came, Elements(b), x)]
<1>1. PICK n \in Address : n = LeastUnallocated /\ heap[n].owner = "none"
  BY FreshBlock
<1>2. ~InQueue(n)
  BY <1>1 DEF IInv, RefInv
<1>3. heap'[n] = b /\ \A a \in Address : a # n => heap'[a] = heap[a]
  BY <1>1, HeapType DEF IInv, Swap
<1>4. walk \in DOMAIN queue /\ queue[walk] \in Entry /\ queue \in Seq(Entry)
  BY HereIsReply, HeapType DEF IInv
<1>5. PICK e : e = [at |-> n, came |-> queue[walk].came, tracked |-> x]
  OBVIOUS
<1>6. queue' = [queue EXCEPT ![walk] = e]
  BY <1>1, <1>4, <1>5 DEF Swap, Entry
<1>7. DOMAIN queue' = DOMAIN queue /\ queue'[walk] = e
      /\ \A i \in DOMAIN queue : i # walk => queue'[i] = queue[i]
  BY <1>4, <1>6
<1>8. e.at = n /\ e.came = queue[walk].came /\ e.tracked = x
  BY <1>5
<1>9. ASSUME NEW i \in DOMAIN queue, i # walk
      PROVE  heap'[queue[i].at] = heap[queue[i].at]
  <2>1. queue[i] \in Entry
    BY <1>4
  <2> QED
    BY <1>2, <1>3, <2>1 DEF Entry, InQueue
<1>10. \A i \in DOMAIN queue : i # walk =>
         /\ queue'[i].came = queue[i].came /\ queue'[i].tracked = queue[i].tracked
         /\ Elements(heap'[queue'[i].at]) = Elements(heap[queue[i].at])
  BY <1>7, <1>9
<1>11. /\ queue'[walk].came = queue[walk].came /\ queue'[walk].tracked = x
       /\ Elements(heap'[queue'[walk].at]) = Elements(b)
  BY <1>3, <1>7, <1>8
<1> QED
  BY <1>4, <1>7, <1>10, <1>11 DEF Waiting, Shown

\* The two kinds of change to one reply: to what it shows, and our answer to it.
LEMMA ShowStep ==
  ASSUME walk \in DOMAIN queue, NEW e, on' = on, Held' = Held,
         Waiting' = [Waiting EXCEPT ![walk] = Shown(queue[walk].came, e, queue[walk].tracked)]
  PROVE  /\ Promise!Show(walk, e)
         /\ e = Elements(heap[queue[walk].at]) => Waiting' = Waiting
<1>1. Shown(queue[walk].came, e, queue[walk].tracked) = [Waiting[walk] EXCEPT !.shows = e]
  BY DEF Waiting, Shown
<1>2. Waiting' = [Waiting EXCEPT ![walk].shows = e]
  BY <1>1
<1>3. e = Elements(heap[queue[walk].at]) => Waiting' = Waiting
  BY WaitingShows DEF Waiting, Shown
<1> QED
  BY <1>2, <1>3 DEF Promise!Show

LEMMA AnswerStep ==
  ASSUME walk \in DOMAIN queue, NEW e, e \in {<<"answer">>, Elements(heap[queue[walk].at])},
         on' = on, Held' = Held, Substitutes,
         Waiting' = [Waiting EXCEPT ![walk] = Shown(queue[walk].came, e, FALSE)]
  PROVE  AtomicStep
<1>1. /\ Waiting[walk].came = queue[walk].came /\ Waiting[walk].due
      /\ Waiting[walk].shows = Elements(heap[queue[walk].at]) /\ walk \in DOMAIN Waiting
  BY WaitingShows DEF Substitutes
<1>2. Waiting' = [Waiting EXCEPT ![walk] = [came |-> @.came, shows |-> e, due |-> FALSE]]
  BY <1>1 DEF Shown
<1>3. Promise!Answer(walk)
  BY <1>1, <1>2 DEF Promise!Answer, Substitutes
<1> QED
  BY <1>1, <1>3, QueueSteps DEF Promise!QueueStep

\* An extension is published if the validator can read the whole reply, in one piece.
LEMMA EditedShows ==
  ASSUME NEW b, Sound(b), NEW f, Fits(f, b)
  PROVE  \/ Elements(Edited(b, f)) = Elements(b)
         \/ /\ ~Occurs("alien", Elements(b))
            /\ f # "hidden" => Elements(Edited(b, f)) = Elements(b) \o Added(f)
            /\ f = "hidden" => Elements(Edited(b, f)) = Added(f) \o Elements(b)
<1> DEFINE new == Added(f)
           at == Place(f, b)
           tried == Opened(b, at, new)
           size == b.size + Len(new)
<1>1. new \in Seq(Word) /\ Len(new) \in 1 .. 3 /\ b.size \in Nat /\ b.count \in Nat
  BY AddedType DEF Sound, Block
<1>2. at \in 1 .. b.size + 1 /\ size <= Capacity(b) /\ size \in Nat
  BY <1>1 DEF Place, Fits, Needed
<1>3. /\ tried \in Block /\ Capacity(tried) = Capacity(b) /\ tried.size = b.size
      /\ tried.count = b.count + Len(new)
  BY <1>1, <1>2, OpenedType
<1>4. /\ \A k \in 1 .. at - 1 : tried.words[k] = b.words[k]
      /\ \A k \in at .. b.size : tried.words[k + Len(new)] = b.words[k]
  BY <1>1, <1>2, OpenedWords
<1>5. Edited(b, f) = IF Valid(tried, size) THEN [tried EXCEPT !.size = size]
                                           ELSE Undone(tried, at, new)
  BY DEF Edited
<1>6. PICK c : c = Edited(b, f) /\ Sound(c)
  BY EditedType
<1>7. \/ Elements(c) = Elements(b)
      \/ /\ f # "hidden" => Elements(c) = Elements(b) \o Added(f)
         /\ f = "hidden" => Elements(c) = Added(f) \o Elements(b)
  BY <1>6, EditedElements
<1> HIDE DEF tried, at, new, size
<1>8. CASE Valid(tried, size)
  <2>1. \A k \in 1 .. size : tried.words[k] # "alien"
    BY <1>8 DEF Valid
  <2>2. ASSUME NEW k \in 1 .. b.size PROVE b.words[k] # "alien"
    <3>1. CASE k \in 1 .. at - 1
      <4>1. k \in 1 .. size
        BY <1>1 DEF size
      <4> QED
        BY <1>4, <2>1, <3>1, <4>1
    <3>2. CASE k \in at .. b.size
      <4>1. k + Len(new) \in 1 .. size
        BY <1>1 DEF size
      <4> QED
        BY <1>4, <2>1, <3>2, <4>1
    <3> QED
      BY <1>1, <1>2, <3>1, <3>2
  <2>3. ~Has(b, "alien")
    BY <2>2 DEF Has
  <2> QED
    BY <1>6, <1>7, <2>3, HasOccurs
<1>9. CASE ~Valid(tried, size)
  <2>1. c = Undone(tried, at, new) /\ tried.size + Len(new) <= Capacity(tried)
    BY <1>2, <1>3, <1>5, <1>6, <1>9 DEF size
  <2>2. c.size = b.size
    BY <1>1, <1>2, <1>3, <2>1, UndoneWords
  <2>3. Len(Elements(c)) = b.size /\ Elements(b) \in Seq(Word) /\ Len(Elements(b)) = b.size
    BY <1>6, <2>2, ElementsType
  <2>4. Len(Elements(b) \o Added(f)) = b.size + Len(Added(f))
    BY <1>1, <2>3, ConcatProperties DEF new
  <2>5. Len(Added(f) \o Elements(b)) = Len(Added(f)) + b.size
    BY <1>1, <2>3, ConcatProperties DEF new
  <2>6. b.size # b.size + Len(Added(f)) /\ b.size # Len(Added(f)) + b.size
    <3>1. PICK n \in 1 .. 3 : n = Len(Added(f))
      BY AddedType
    <3>2. PICK m \in Nat : m = b.size
      BY <1>1
    <3>3. m # m + n /\ m # n + m
      OBVIOUS
    <3> QED
      BY <3>1, <3>2, <3>3
  <2>7. Elements(c) # Elements(b) \o Added(f) /\ Elements(c) # Added(f) \o Elements(b)
    BY <2>3, <2>4, <2>5, <2>6, Zenon
  <2> QED
    BY <1>6, <1>7, <2>7
<1> QED
  BY <1>8, <1>9

\* The reply the hook is at is the one the promise is about.
LEMMA HereShows ==
  ASSUME IInv, WholeInv, walk \in 1 .. seen
  PROVE  /\ walk \in DOMAIN queue /\ walk \in DOMAIN Waiting /\ Sound(Here)
         /\ Here = heap[queue[walk].at] /\ Waiting[walk].shows = Elements(Here)
         /\ Waiting[walk].came = queue[walk].came /\ Waiting[walk].came.kind = Here.kind
         /\ \A w : Has(Here, w) <=> Promise!Shows(walk, w)
<1>1. /\ walk \in DOMAIN queue /\ Sound(Here) /\ Here = heap[queue[walk].at]
      /\ WholeReply(queue[walk].came, queue[walk].tracked, Here)
  BY HereIsReply, HereIsWhole
<1>2. /\ Waiting[walk].shows = Elements(Here) /\ Waiting[walk].came = queue[walk].came
      /\ walk \in DOMAIN Waiting
  BY <1>1, WaitingShows
<1>3. Waiting[walk].came.kind = Here.kind
  BY <1>1, <1>2 DEF WholeReply
<1>4. \A w : Has(Here, w) <=> Promise!Shows(walk, w)
  BY <1>1, <1>2, HasOccurs DEF Promise!Shows, Occurs
<1> QED
  BY <1>1, <1>2, <1>3, <1>4

\* An extension, published or reverted, in place or in a copy.
LEMMA ExtensionStep ==
  ASSUME IInv, WholeInv, walk \in 1 .. seen, NEW f \in Feature, f \in on, Extends(f, Here),
         on' = on, Held' = Held, NEW e,
         Waiting' = [Waiting EXCEPT ![walk] = Shown(queue[walk].came, e, queue[walk].tracked)],
         \/ e = Elements(Here)
         \/ /\ ~Occurs("alien", Elements(Here))
            /\ f # "hidden" => e = Elements(Here) \o Added(f)
            /\ f = "hidden" => e = Added(f) \o Elements(Here)
  PROVE  AtomicStep
<1>1. /\ walk \in DOMAIN queue /\ walk \in DOMAIN Waiting /\ Sound(Here)
      /\ Here = heap[queue[walk].at] /\ Waiting[walk].shows = Elements(Here)
      /\ Waiting[walk].came.kind = Here.kind
      /\ \A w : Has(Here, w) <=> Promise!Shows(walk, w)
  BY HereShows
<1>2. Promise!Show(walk, e) /\ (e = Elements(Here) => Waiting' = Waiting)
  BY <1>1, ShowStep
<1>3. CASE e = Elements(Here)
  BY <1>2, <1>3 DEF AtomicStep
<1>4. CASE ~Occurs("alien", Elements(Here)) /\ e # Elements(Here)
  <2>1. ~Promise!Shows(walk, "alien")
    BY <1>1, <1>4, HasOccurs
  <2>2. CASE f = "freeze"
    <3>1. e = Waiting[walk].shows \o <<"since", "until", "appeal">>
      BY <1>1, <1>4, <2>2 DEF Added
    <3>2. Waiting[walk].came.kind = "appConfig" /\ ~Promise!Shows(walk, "since")
      BY <1>1, <2>2 DEF Extends
    <3>3. Promise!Freeze(walk)
      BY <1>2, <2>1, <2>2, <3>1, <3>2 DEF Promise!Freeze
    <3> QED
      BY <1>1, <3>3, QueueSteps DEF Promise!QueueStep
  <2>3. CASE f = "monetization"
    <3>1. e = Waiting[walk].shows \o <<"blocked">>
      BY <1>1, <1>4, <2>3 DEF Added
    <3>2. /\ Waiting[walk].came.kind = "appConfig"
          /\ ~Promise!Shows(walk, "blocked") /\ ~Promise!Shows(walk, "notBlocked")
      BY <1>1, <2>3 DEF Extends
    <3>3. Promise!BlockPurchases(walk)
      BY <1>2, <2>1, <2>3, <3>1, <3>2 DEF Promise!BlockPurchases
    <3> QED
      BY <1>1, <3>3, QueueSteps DEF Promise!QueueStep
  <2>4. CASE f = "hidden"
    <3>1. e = <<"hiddenGift">> \o Waiting[walk].shows
      BY <1>1, <1>4, <2>4 DEF Added
    <3>2. Waiting[walk].came.kind = "starGifts" /\ Promise!Shows(walk, "gift")
      BY <1>1, <2>4 DEF Extends
    <3>3. Promise!ShowHiddenGift(walk)
      BY <1>2, <2>1, <2>4, <3>1, <3>2 DEF Promise!ShowHiddenGift
    <3> QED
      BY <1>1, <3>3, QueueSteps DEF Promise!QueueStep
  <2> QED
    BY <2>2, <2>3, <2>4 DEF Extends
<1> QED
  BY <1>3, <1>4

\* The steps of the hook.
LEMMA InPlaceStep ==
  ASSUME IInv, WholeInv, NEW f \in Feature, ExtendInPlace(f)
  PROVE  AtomicStep
<1>1. /\ walk \in 1 .. seen /\ Fits(f, Here) /\ Extends(f, Here) /\ f \in on
      /\ queue' = queue /\ kept' = kept /\ on' = on
  BY DEF ExtendInPlace, Turn, MayEdit
<1>2. PICK b : b = Edited(Here, f)
  OBVIOUS
<1>3. Here = heap[queue[walk].at] /\ queue[walk].at \in Address /\ Sound(Here)
  BY <1>1, HereIsReply
<1>4. heap' = [heap EXCEPT ![queue[walk].at] = b]
  BY <1>2, <1>3, HeapType DEF IInv, ExtendInPlace
<1>5. Waiting' = [Waiting EXCEPT
                  ![walk] = Shown(queue[walk].came, Elements(b), queue[walk].tracked)]
  BY <1>1, <1>4, EditShows
<1>6. Held' = Held
  BY <1>1, SameHeld DEF Next
<1> QED
  BY <1>1, <1>2, <1>3, <1>5, <1>6, EditedShows, ExtensionStep

LEMMA CopyStep ==
  ASSUME IInv, WholeInv, NEW f \in Feature, ExtendGrown(f)
  PROVE  AtomicStep
<1>1. /\ walk \in 1 .. seen /\ Unallocated # {} /\ Extends(f, Here) /\ f \in on
      /\ Swap(Edited(Grown(Here, Needed(f, Here)), f), queue[walk].tracked)
      /\ kept' = kept /\ on' = on
  BY DEF ExtendGrown, Turn, MayEdit
<1>2. Sound(Here) /\ queue[walk].tracked \in BOOLEAN
  BY <1>1, HereIsWhole
<1>3. Needed(f, Here) \in Nat /\ Here.size <= Needed(f, Here)
  BY <1>2, AddedType DEF Needed, Sound, Block
<1>4. PICK g : g = Grown(Here, Needed(f, Here))
  OBVIOUS
<1>5. /\ Sound(g) /\ Capacity(g) = Needed(f, Here) /\ g.size = Here.size
      /\ Elements(g) = Elements(Here)
  BY <1>2, <1>3, <1>4, GrownType, GrownElements
<1>6. Fits(f, g)
  BY <1>3, <1>5 DEF Fits, Needed
<1>7. PICK b : b = Edited(g, f)
  OBVIOUS
<1>8. \/ Elements(b) = Elements(Here)
      \/ /\ ~Occurs("alien", Elements(Here))
         /\ f # "hidden" => Elements(b) = Elements(Here) \o Added(f)
         /\ f = "hidden" => Elements(b) = Added(f) \o Elements(Here)
  BY <1>5, <1>6, <1>7, EditedShows
<1>9. Waiting' = [Waiting EXCEPT
                  ![walk] = Shown(queue[walk].came, Elements(b), queue[walk].tracked)]
  BY <1>1, <1>2, <1>4, <1>7, SwapShows
<1>10. Held' = Held
  BY <1>1, SameHeld DEF Next
<1> QED
  BY <1>1, <1>8, <1>9, <1>10, ExtensionStep

LEMMA FlipStep ==
  ASSUME IInv, WholeInv, FlipPurchaseBlocked
  PROVE  AtomicStep
<1>1. /\ walk \in 1 .. seen /\ Here.kind = "appConfig" /\ "monetization" \in on
      /\ queue' = queue /\ kept' = kept /\ on' = on
  BY DEF FlipPurchaseBlocked, Turn, CanFlip, MayEdit
<1>2. PICK b : b = Flipped(Here)
  OBVIOUS
<1>3. /\ walk \in DOMAIN queue /\ walk \in DOMAIN Waiting /\ Sound(Here)
      /\ Here = heap[queue[walk].at] /\ Waiting[walk].shows = Elements(Here)
      /\ Waiting[walk].came.kind = Here.kind /\ queue[walk].at \in Address
  BY <1>1, HereShows, HereIsReply
<1>4. heap' = [heap EXCEPT ![queue[walk].at] = b]
  BY <1>2, <1>3, HeapType DEF IInv, FlipPurchaseBlocked
<1>5. Waiting' = [Waiting EXCEPT
                  ![walk] = Shown(queue[walk].came, Elements(b), queue[walk].tracked)]
  BY <1>1, <1>4, EditShows
<1>6. Held' = Held
  BY <1>1, SameHeld DEF Next
<1>7. Promise!Show(walk, Elements(b))
  BY <1>1, <1>3, <1>5, <1>6, ShowStep
<1>8. Elements(b) = FlippedSeq(Waiting[walk].shows)
  BY <1>2, <1>3, FlippedElements
<1>9. Promise!FlipPurchases(walk)
  BY <1>1, <1>3, <1>7, <1>8 DEF Promise!FlipPurchases, FlippedSeq
<1> QED
  BY <1>1, <1>3, <1>6, <1>9, QueueSteps DEF Promise!QueueStep

\* A copy in another block shows what the reply showed.
LEMMA RelocateStep ==
  ASSUME IInv, WholeInv, Relocate
  PROVE  AtomicStep
<1>1. walk \in 1 .. seen /\ kept' = kept /\ on' = on
  BY DEF Relocate, Turn
<1>2. Held' = Held
  BY <1>1, SameHeld DEF Next
<1>3. CASE Unallocated # {}
  <2>1. /\ walk \in DOMAIN queue /\ Sound(Here) /\ Here = heap[queue[walk].at]
        /\ queue[walk].tracked \in BOOLEAN
    BY <1>1, HereIsWhole, HereShows
  <2>2. Here.size \in Nat /\ Here.size <= Here.size
    BY <2>1 DEF Sound, Block
  <2>3. PICK b : b = Grown(Here, Here.size) /\ Elements(b) = Elements(Here)
    BY <2>1, <2>2, GrownElements
  <2>4. Swap(b, queue[walk].tracked)
    BY <1>3, <2>3 DEF Relocate
  <2>5. Waiting' = [Waiting EXCEPT
                      ![walk] = Shown(queue[walk].came, Elements(b), queue[walk].tracked)]
    BY <1>1, <1>3, <2>1, <2>4, SwapShows
  <2>6. Waiting' = Waiting
    BY <1>1, <1>2, <2>1, <2>3, <2>5, ShowStep
  <2> QED
    BY <1>1, <1>2, <2>6 DEF AtomicStep
<1>4. CASE Unallocated = {}
  <2>1. heap' = heap /\ queue' = queue
    BY <1>4 DEF Relocate
  <2>2. Waiting' = Waiting
    BY <2>1 DEF Waiting
  <2> QED
    BY <1>1, <1>2, <2>2 DEF AtomicStep
<1> QED
  BY <1>3, <1>4

\* The answer takes the place of the reply, or the reply is given up on.
LEMMA SubstituteStep ==
  ASSUME IInv, WholeInv, Substitute
  PROVE  AtomicStep
<1>1. walk \in 1 .. seen /\ Substitutes /\ kept' = kept /\ on' = on
  BY DEF Substitute, Turn
<1>2. Held' = Held
  BY <1>1, SameHeld DEF Next
<1>3. /\ walk \in DOMAIN queue /\ queue[walk] \in Entry /\ queue \in Seq(Entry)
      /\ Here = heap[queue[walk].at] /\ Here.kind \in Kind
  BY <1>1, HereIsReply, HeapType DEF IInv, Sound, Block
<1>4. CASE Unallocated # {}
  <2>1. PICK b : b = Built(Here.kind, <<"answer">>)
    OBVIOUS
  <2>2. PICK answer \in Seq(Word) : answer = <<"answer">> /\ Len(answer) = 1
    <3>1. "answer" \in Word
      BY DEF Word, Element
    <3>2. <<"answer">> \in Seq(Word) /\ Len(<<"answer">>) = 1
      BY <3>1
    <3> QED
      BY <3>2, Zenon
  <2>3. Sound(b) /\ b.words = answer /\ b.size = 1
    BY <1>3, <2>1, <2>2, BuiltType DEF Built
  <2>4. Elements(b) = <<"answer">>
    BY <2>2, <2>3, SameElements
  <2>5. Swap(b, FALSE)
    BY <1>4, <2>1 DEF Substitute
  <2>6. Waiting' = [Waiting EXCEPT ![walk] = Shown(queue[walk].came, Elements(b), FALSE)]
    BY <1>1, <1>4, <2>5, SwapShows
  <2> QED
    BY <1>1, <1>2, <1>3, <2>4, <2>6, AnswerStep
<1>5. CASE Unallocated = {}
  <2>1. heap' = heap /\ queue' = [queue EXCEPT ![walk].tracked = FALSE]
    BY <1>5 DEF Substitute
  <2>2. PICK e : e = [queue[walk] EXCEPT !.tracked = FALSE]
    OBVIOUS
  <2>3. e.at = queue[walk].at /\ e.came = queue[walk].came /\ e.tracked = FALSE
    BY <1>3, <2>2 DEF Entry
  <2>4. DOMAIN queue' = DOMAIN queue /\ queue'[walk] = e
        /\ \A i \in DOMAIN queue : i # walk => queue'[i] = queue[i]
    BY <1>3, <2>1, <2>2
  <2>5. Waiting' = [Waiting EXCEPT ![walk] = Shown(queue[walk].came, Elements(Here), FALSE)]
    BY <1>3, <2>1, <2>3, <2>4 DEF Waiting, Shown
  <2> QED
    BY <1>1, <1>2, <1>3, <2>5, AnswerStep
<1> QED
  BY <1>4, <1>5

\* The steps of Telegram.  What is kept from now on was not kept before.
LEMMA ArriveStep ==
  ASSUME IInv, WholeInv, NEW reply \in Replies, NEW shared \in BOOLEAN, Arrive(reply, shared)
  PROVE  AtomicStep
<1>1. PICK n \in Address : n = LeastUnallocated /\ heap[n].owner = "none"
  BY FreshBlock DEF Arrive
<1>2. PICK ref \in Int : ref = IF shared THEN 2 ELSE 1
  OBVIOUS
<1>3. PICK b : b = Received(reply, ref) /\ Elements(b) = reply.elements
  BY ReceivedElements
<1>4. PICK e : e = [at |-> n, came |-> reply, tracked |-> reply.kind = "asked"]
  OBVIOUS
<1>5. /\ heap' = [heap EXCEPT ![n] = b] /\ queue' = Append(queue, e)
      /\ kept' = [kept EXCEPT ![n] = IF shared THEN 1 ELSE 0] /\ on' = on
  BY <1>1, <1>2, <1>3, <1>4 DEF Arrive
<1>6. e.at = n /\ e.came = reply /\ e.tracked = (reply.kind = "asked") /\ e \in Entry
  BY <1>4 DEF Entry
<1>7. queue \in Seq(Entry) /\ Len(queue) \in Nat /\ DOMAIN queue = 1 .. Len(queue)
  BY HeapType DEF IInv
<1>8. kept \in [Address -> Nat] /\ kept[n] = 0 /\ ~InQueue(n)
  BY <1>1, HeapType DEF IInv, RefInv
<1>9. heap'[n] = b /\ \A a \in Address : a # n => heap'[a] = heap[a]
  BY <1>5, HeapType DEF IInv
<1>10. /\ DOMAIN queue' = 1 .. Len(queue) + 1 /\ queue'[Len(queue) + 1] = e
       /\ \A i \in 1 .. Len(queue) : queue'[i] = queue[i]
  <2>1. Append(queue, e) \in Seq(Entry) /\ Len(Append(queue, e)) = Len(queue) + 1
    BY <1>6, <1>7, AppendProperties
  <2>2. /\ \A i \in 1 .. Len(queue) : Append(queue, e)[i] = queue[i]
        /\ Append(queue, e)[Len(queue) + 1] = e
    BY <1>6, <1>7, AppendProperties
  <2> QED
    BY <1>5, <1>7, <2>1, <2>2
<1>11. \A i \in 1 .. Len(queue) :
          Elements(heap'[queue'[i].at]) = Elements(heap[queue[i].at])
  <2> SUFFICES ASSUME NEW i \in 1 .. Len(queue)
               PROVE  Elements(heap'[queue'[i].at]) = Elements(heap[queue[i].at])
    OBVIOUS
  <2>1. queue[i] \in Entry /\ i \in DOMAIN queue /\ queue'[i] = queue[i]
    BY <1>7, <1>10
  <2>2. queue[i].at \in Address /\ queue[i].at # n
    BY <1>8, <2>1 DEF Entry, InQueue
  <2> QED
    BY <1>9, <2>1, <2>2
<1>12. Waiting' = Append(Waiting, [came |-> reply, shows |-> reply.elements,
                                   due |-> reply.kind = "asked"])
       /\ Waiting' # Waiting
  <2> DEFINE last == [came |-> reply, shows |-> reply.elements, due |-> reply.kind = "asked"]
  <2>1. Waiting'[Len(queue) + 1] = last
    BY <1>3, <1>6, <1>7, <1>9, <1>10 DEF Waiting
  <2>2. \A i \in 1 .. Len(queue) : Waiting'[i] = Waiting[i]
    BY <1>7, <1>10, <1>11 DEF Waiting
  <2>3. DOMAIN Waiting = 1 .. Len(queue) /\ DOMAIN Waiting' = 1 .. Len(queue) + 1
    BY <1>7, <1>10 DEF Waiting
  <2> DEFINE S == {Waiting[i] : i \in DOMAIN queue} \cup {last}
  <2>4. Waiting \in [1 .. Len(queue) -> S]
    BY <1>7 DEF Waiting
  <2>5. Waiting' \in [1 .. Len(queue) + 1 -> S]
    <3>1. \A i \in 1 .. Len(queue) + 1 : Waiting'[i] \in S
      BY <1>7, <2>1, <2>2
    <3>2. Waiting' = [i \in DOMAIN Waiting' |-> Waiting'[i]]
      BY DEF Waiting
    <3> QED
      BY <2>3, <3>1, <3>2
  <2> HIDE DEF last, S
  <2>6. /\ Waiting \in Seq(S) /\ Len(Waiting) = Len(queue)
        /\ Waiting' \in Seq(S) /\ Len(Waiting') = Len(queue) + 1
    <3>1. Len(queue) + 1 \in Nat
      BY <1>7
    <3> QED
      BY <1>7, <2>4, <2>5, <3>1, SeqOfFunction
  <2>7. Waiting' = Append(Waiting, last)
    <3>1. last \in S
      BY DEF S
    <3>2. /\ Append(Waiting, last) \in Seq(S) /\ Len(Append(Waiting, last)) = Len(queue) + 1
          /\ \A i \in 1 .. Len(queue) : Append(Waiting, last)[i] = Waiting[i]
          /\ Append(Waiting, last)[Len(queue) + 1] = last
      BY <2>6, <3>1, AppendProperties
    <3>3. \A i \in 1 .. Len(queue) + 1 : Waiting'[i] = Append(Waiting, last)[i]
      BY <1>7, <2>1, <2>2, <3>2
    <3> QED
      BY <2>6, <3>2, <3>3, SeqEqual
  <2>8. Waiting' # Waiting
    BY <1>7, <2>3
  <2> QED
    BY <2>7, <2>8 DEF last
<1>13. \A a \in Address : a # n => Held'[a] = Held[a]
  BY <1>5, <1>8, <1>9 DEF Held
<1>14. Held[n] = {} /\ Held'[n] = IF shared THEN {reply.elements} ELSE {}
  <2>1. kept'[n] = IF shared THEN 1 ELSE 0
    BY <1>5, <1>8
  <2>2. Held[n] = {}
    BY <1>8 DEF Held
  <2>3. Held'[n] = IF kept'[n] > 0 THEN {Elements(heap'[n])} ELSE {}
    BY DEF Held
  <2>4. CASE shared
    BY <1>3, <1>9, <2>1, <2>2, <2>3, <2>4
  <2>5. CASE ~shared
    BY <1>3, <1>9, <2>1, <2>2, <2>3, <2>5
  <2> QED
    BY <2>4, <2>5
<1>15. UNCHANGED Held \/ Held' = [Held EXCEPT ![n] = {reply.elements}]
  BY <1>13, <1>14 DEF Held
<1>16. Promise!Receive(reply)
  BY <1>5, <1>12, <1>14, <1>15 DEF Promise!Receive
<1> QED
  BY <1>5, <1>12, <1>16, QueueSteps DEF Promise!QueueStep

\* The others that wait do not live in the block that is handed out.
LEMMA DispatchStep ==
  ASSUME IInv, WholeInv, NEW keep \in BOOLEAN, Dispatch(keep)
  PROVE  AtomicStep
<1>1. queue \in Seq(Entry) /\ queue # <<>> /\ queue' = Tail(queue) /\ on' = on
  BY HeapType DEF IInv, Dispatch
<1>2. /\ Len(queue) \in Nat /\ Len(queue) >= 1 /\ DOMAIN queue = 1 .. Len(queue)
      /\ queue[1] = Head(queue) /\ queue[1] \in Entry
  <2>1. Len(queue) \in Nat /\ Len(queue) >= 1 /\ DOMAIN queue = 1 .. Len(queue)
    BY <1>1
  <2> QED
    BY <1>1, <2>1, HeadTailProperties
<1>3. /\ DOMAIN queue' = 1 .. Len(queue) - 1
      /\ \A i \in 1 .. Len(queue) - 1 : queue'[i] = queue[i + 1]
  <2>1. Tail(queue) \in Seq(Entry) /\ Len(Tail(queue)) = Len(queue) - 1
    BY <1>1, HeadTailProperties
  <2>2. \A i \in 1 .. Len(queue) - 1 : Tail(queue)[i] = queue[i + 1]
    BY <1>1, <1>2
  <2> QED
    BY <1>1, <1>2, <2>1, <2>2
<1>4. PICK c \in Address :
         /\ c = queue[1].at
         /\ IF keep THEN kept[c] = 0 /\ kept' = [kept EXCEPT ![c] = 1] /\ heap' = heap
                    ELSE kept' = kept /\ heap' = Released(heap, c)
  BY <1>2 DEF Dispatch, Entry
<1>5. \A a \in Address : a # c => heap'[a] = heap[a]
  BY <1>4, ReleasedType
<1>6. ASSUME NEW i \in 1 .. Len(queue) - 1
      PROVE  Waiting'[i] = Waiting[i + 1]
  <2>1. i + 1 \in DOMAIN queue /\ i + 1 # 1 /\ queue'[i] = queue[i + 1] /\ 1 \in DOMAIN queue
    BY <1>2, <1>3
  <2>2. queue[i + 1] \in Entry
    BY <1>1, <2>1
  <2>3. queue[i + 1].at \in Address /\ queue[i + 1].at # c
    BY <1>4, <2>1, <2>2 DEF IInv, Distinct, Entry
  <2>4. heap'[queue[i + 1].at] = heap[queue[i + 1].at]
    BY <1>5, <2>3
  <2> QED
    BY <1>3, <2>1, <2>4 DEF Waiting
<1>7. Waiting # <<>> /\ Waiting' = Tail(Waiting) /\ Waiting' # Waiting /\ Head(Waiting) = Waiting[1]
  <2> DEFINE S == {Waiting[i] : i \in DOMAIN queue}
  <2>1. Waiting \in [1 .. Len(queue) -> S]
    BY <1>2 DEF Waiting
  <2>2. Waiting' \in [1 .. Len(queue) - 1 -> S]
    <3>1. \A i \in 1 .. Len(queue) - 1 : Waiting'[i] \in S
      BY <1>2, <1>6
    <3>2. Waiting' = [i \in 1 .. Len(queue) - 1 |-> Waiting'[i]]
      BY <1>3 DEF Waiting
    <3> QED
      BY <3>1, <3>2
  <2> HIDE DEF S
  <2>3. /\ Waiting \in Seq(S) /\ Len(Waiting) = Len(queue)
        /\ Waiting' \in Seq(S) /\ Len(Waiting') = Len(queue) - 1
    <3>1. Len(queue) - 1 \in Nat
      BY <1>2
    <3> QED
      BY <1>2, <2>1, <2>2, <3>1, SeqOfFunction
  <2>4. Waiting # <<>>
    BY <1>2, <2>3
  <2>5. /\ Tail(Waiting) \in Seq(S) /\ Len(Tail(Waiting)) = Len(queue) - 1
        /\ Head(Waiting) = Waiting[1]
    BY <2>3, <2>4, HeadTailProperties
  <2>6. \A i \in 1 .. Len(queue) - 1 : Tail(Waiting)[i] = Waiting[i + 1]
    BY <1>2, <2>3, <2>4
  <2>7. \A i \in 1 .. Len(queue) - 1 : Waiting'[i] = Tail(Waiting)[i]
    BY <1>6, <2>6
  <2>8. Waiting' = Tail(Waiting)
    BY <2>3, <2>5, <2>7, SeqEqual
  <2>9. Waiting' # Waiting
    BY <1>2, <2>3
  <2> QED
    BY <2>4, <2>5, <2>8, <2>9
<1>8. Head(Waiting).shows = Elements(heap[c])
  <2>1. 1 \in DOMAIN queue
    BY <1>2
  <2> QED
    BY <1>4, <1>7, <2>1, WaitingShows
<1>9. \/ UNCHANGED Held
      \/ Held[c] = {} /\ Held' = [Held EXCEPT ![c] = {Head(Waiting).shows}]
  <2>1. CASE keep
    <3>1. kept[c] = 0 /\ heap' = heap /\ kept' = [kept EXCEPT ![c] = 1]
      BY <1>4, <2>1
    <3>2. kept'[c] = 1 /\ \A a \in Address : a # c => kept'[a] = kept[a]
      BY <3>1, HeapType DEF IInv
    <3>3. Held[c] = {} /\ Held'[c] = {Head(Waiting).shows}
      BY <1>8, <3>1, <3>2 DEF Held
    <3>4. \A a \in Address : a # c => Held'[a] = Held[a]
      BY <3>1, <3>2 DEF Held
    <3> QED
      BY <3>3, <3>4 DEF Held
  <2>2. CASE ~keep
    <3>1. kept' = kept
      BY <1>4, <2>2
    <3> QED
      BY <3>1, SameHeld DEF Next
  <2> QED
    BY <2>1, <2>2
<1>10. Promise!HandOut
  BY <1>1, <1>7, <1>9 DEF Promise!HandOut
<1> QED
  BY <1>1, <1>7, <1>10, QueueSteps DEF Promise!QueueStep

\* What is let go of may still wait, or be kept once more, and then shows the same.
LEMMA ForgetStep ==
  ASSUME IInv, WholeInv, NEW c \in Address, Forget(c)
  PROVE  AtomicStep
<1>1. /\ heap' = Released(heap, c) /\ queue' = queue /\ on' = on
      /\ kept[c] > 0 /\ kept' = [kept EXCEPT ![c] = @ - 1]
  BY DEF Forget
<1>2. queue \in Seq(Entry) /\ kept \in [Address -> Nat]
  BY HeapType DEF IInv
<1>3. \A a \in Address : a # c => heap'[a] = heap[a] /\ kept'[a] = kept[a]
  BY <1>1, <1>2, ReleasedType
<1>4. ASSUME InQueue(c) PROVE Elements(heap'[c]) = Elements(heap[c])
  <2>1. /\ heap[c].owner \in {"none", "telegram", "host"} /\ heap[c].ref \in Int
        /\ kept[c] \in Nat
    BY HeapType DEF IInv, Block
  <2>2. heap[c].owner = "telegram" => heap[c].ref >= 2
    BY <1>1, <1>4, <2>1 DEF IInv, RefInv
  <2>3. heap[c].owner = "telegram" => heap[c].ref # STATIC /\ heap[c].ref # 1
    BY <2>1, <2>2 DEF STATIC
  <2>4. heap[c].owner # "none"
    BY <1>4 DEF IInv, RefInv
  <2>5. heap'[c].size = heap[c].size /\ heap'[c].words = heap[c].words
    BY <1>1, <2>1, <2>3, <2>4, ReleasedType
  <2> QED
    BY <2>5 DEF Elements
<1>5. ASSUME NEW i \in DOMAIN queue
      PROVE  Elements(heap'[queue[i].at]) = Elements(heap[queue[i].at])
  <2>1. queue[i] \in Entry
    BY <1>2
  <2>2. queue[i].at \in Address /\ InQueue(queue[i].at)
    BY <2>1 DEF Entry, InQueue
  <2> QED
    BY <1>3, <1>4, <2>2
<1>6. Waiting' = Waiting
  BY <1>1, <1>5, SameWaiting
<1>7. CASE kept'[c] > 0
  <2>1. Held' = Held
    BY <1>1, <1>3, <1>7, SameHeld DEF Next
  <2> QED
    BY <1>1, <1>6, <2>1 DEF AtomicStep
<1>8. CASE ~(kept'[c] > 0)
  <2>1. Held'[c] = {} /\ Held[c] # {}
    BY <1>1, <1>8 DEF Held
  <2>2. \A a \in Address : a # c => Held'[a] = Held[a]
    BY <1>3 DEF Held
  <2>3. Held' = [Held EXCEPT ![c] = {}]
    BY <2>1, <2>2 DEF Held
  <2>4. Promise!LetGo(c)
    BY <1>1, <1>6, <2>3 DEF Promise!LetGo
  <2> QED
    BY <2>1, <2>4 DEF AtomicStep, Promise!AtomicNext
<1> QED
  BY <1>7, <1>8

\* Every step is one of the promise, or does not show.
LEMMA NextStep ==
  ASSUME IInv, WholeInv, [Next]_vars
  PROVE  AtomicStep
<1>1. CASE UNCHANGED <<on, heap, queue, kept>>
  <2>1. Waiting' = Waiting /\ Held' = Held
    BY <1>1 DEF Waiting, Held
  <2> QED
    BY <1>1, <2>1 DEF AtomicStep
<1>2. CASE \E f \in Feature : ExtendInPlace(f)
  BY <1>2, InPlaceStep
<1>3. CASE \E f \in Feature : ExtendGrown(f)
  BY <1>3, CopyStep
<1>4. CASE FlipPurchaseBlocked
  BY <1>4, FlipStep
<1>5. CASE Relocate
  BY <1>5, RelocateStep
<1>6. CASE Substitute
  BY <1>6, SubstituteStep
<1>7. CASE \E reply \in Replies, shared \in BOOLEAN : Arrive(reply, shared)
  BY <1>7, ArriveStep
<1>8. CASE \E keep \in BOOLEAN : Dispatch(keep)
  BY <1>8, DispatchStep
<1>9. CASE \E a \in Address : Forget(a)
  BY <1>9, ForgetStep
<1>10. CASE EnterHook \/ Paused \/ LeaveHook \/ \E f \in Feature : PassOver(f)
  BY <1>1, <1>10 DEF EnterHook, PassOver, Paused, LeaveHook
<1>11. CASE \E c \in Configs : Reload(c)
  <2>1. PICK c \in Configs : on' = c /\ UNCHANGED <<heap, queue, kept>>
    BY <1>11 DEF Reload
  <2>2. Waiting' = Waiting /\ Held' = Held
    BY <2>1 DEF Waiting, Held
  <2>3. Promise!Switch(c)
    BY <2>1, <2>2 DEF Promise!Switch
  <2> QED
    BY <2>3 DEF AtomicStep, Promise!AtomicNext
<1>12. CASE UNCHANGED vars
  BY <1>1, <1>12
<1> QED
  BY <1>2, <1>3, <1>4, <1>5, <1>6, <1>7, <1>8, <1>9, <1>10, <1>11, <1>12 DEF Next

\* In-place edits, grown copies, swaps, reverts, relocation and interrupted walks
\* come to this: one reply at a time is extended, flipped or answered as a whole by
\* a feature that is on, and what Telegram holds does not change.
THEOREM AtomicRepliesImplemented == Spec => ImplementsAtomicReplies
<1>1. Init => Promise!AtomicInit
  <2> SUFFICES ASSUME Init PROVE Promise!AtomicInit
    OBVIOUS
  <2>1. queue = <<>> /\ on \in Configs /\ \A a \in Address : ~(kept[a] > 0)
    BY DEF Init
  <2>2. Waiting = <<>>
    BY <2>1 DEF Waiting
  <2>3. Held = [a \in Address |-> {}]
    BY <2>1 DEF Held
  <2> QED
    BY <2>1, <2>2, <2>3 DEF Promise!AtomicInit
<1>2. IInv /\ WholeInv /\ [Next]_vars => [Promise!AtomicNext]_<<on, Waiting, Held>>
  BY NextStep DEF AtomicStep
<1>3. Init => WholeInv
  BY DEF Init, WholeInv
<1>4. IInv /\ WholeInv /\ [Next]_vars => WholeInv'
  BY NextWhole
<1>5. Promise!AtomicSpec <=> Promise!AtomicInit /\ [][Promise!AtomicNext]_<<on, Waiting, Held>>
  BY DEF Promise!AtomicSpec, Promise!atomicVars
<1> QED
  BY InvAlways, <1>1, <1>2, <1>3, <1>4, <1>5, PTL DEF Spec, ImplementsAtomicReplies
=============================================================================
