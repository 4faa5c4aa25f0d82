------------------------------ MODULE ReplyEdits ------------------------------
(***************************************************************************)
(* The memory a reply lives in.  Telegram's received queue holds Qt5       *)
(* vectors: a pointer to a block with a reference count, a size and a      *)
(* capacity.  hkTryToReceive walks the queue before Telegram drains it and *)
(* lets the rewriters of pg_apply_response edit each reply: in place when  *)
(* the block is unshared and has room, in a grown copy when it has none,   *)
(* or by swapping the whole vector.  Telegram and the DLL have separate    *)
(* allocators, so neither may free a block of the other.                   *)
(*                                                                         *)
(* The rewriters here are the two that extend help.appConfig, the one that *)
(* extends the gift catalogue, the diagnostic relocation, and one that     *)
(* swaps a tracked reply.  A block holds the count of the TL vector in it, *)
(* and one word per element; size is how many words it publishes.          *)
(***************************************************************************)
EXTENDS Integers, Sequences, FiniteSets

CONSTANTS
  Blocks,      \* how many blocks the allocators can hand out
  Replies,     \* the replies that may arrive, each with some spare capacity
  Configs,     \* the sets of features the GUI may switch on
  QueueRoom    \* bound: replies waiting at once, the capacity of the std::vector

\* An element "alien" is something behind the vector that the schema does not
\* know; "own" is any other element of no concern.
Kind == {"appConfig", "starGifts", "config", "asked"}
Element == {"own", "since", "until", "appeal", "notBlocked", "blocked",
            "gift", "hiddenGift", "alien", "answer"}
Feature == {"relocate", "freeze", "monetization", "hidden", "substitute"}

ASSUME BlocksAssumption == Blocks \in Nat
ASSUME RepliesAssumption ==
  Replies \subseteq [kind : Kind, elements : Seq(Element), slack : Nat]
ASSUME ConfigsAssumption == Configs \subseteq SUBSET Feature
ASSUME QueueRoomAssumption == QueueRoom \in Nat

VARIABLES
  on,         \* the features that are enabled
  heap,       \* address -> block
  queue,      \* the received vector: where each reply is, and what came
  kept,       \* address -> references Telegram keeps outside the queue
  seen,       \* how many replies the hook saw when it was entered
  walk,       \* the reply the hook is at, 0 outside the hook
  turn,       \* the rewriter whose turn it is, as a position in Chain
  relocated   \* has the one-shot diagnostic run?

telegramVars == <<queue, kept>>
hookVars == <<seen, walk, turn>>
vars == <<on, heap, telegramVars, hookVars, relocated>>

Address == 1 .. Blocks

\* An element, or the slack of a block.
Word == Element \cup {"trash"}

STATIC == -1

NoBlock == [owner |-> "none", ref |-> 0, kind |-> "config", size |-> 0,
            count |-> 0, words |-> <<>>]

Unallocated == {a \in Address : heap[a].owner = "none"}

LeastUnallocated == CHOOSE a \in Unallocated : \A b \in Unallocated : a <= b

Capacity(b) == Len(b.words)
Elements(b) == SubSeq(b.words, 1, b.size)
CountOf(elements) == Cardinality({k \in DOMAIN elements : elements[k] # "alien"})
Has(b, e) == \E k \in 1 .. b.size : b.words[k] = e

\* A vector as Telegram reads it off the network.
Received(reply, ref) ==
  [owner |-> "telegram", ref |-> ref, kind |-> reply.kind,
   size |-> Len(reply.elements), count |-> CountOf(reply.elements),
   words |-> reply.elements \o [k \in 1 .. reply.slack |-> "trash"]]

----------------------------------------------------------------------------
(* pg_qvec_grow, pg_qvec_replace and the edits.                            *)

\* Faulty: the copy is counted, so Telegram would free it.
GrownCounted(b, capacity) ==
  [owner |-> "host", ref |-> 1, kind |-> b.kind, size |-> b.size, count |-> b.count,
   words |-> [k \in 1 .. capacity |-> IF k <= b.size THEN b.words[k] ELSE "trash"]]

\* A copy with more room.  STATIC: Telegram never frees it.
Grown(b, capacity) ==
  [owner |-> "host", ref |-> STATIC, kind |-> b.kind, size |-> b.size, count |-> b.count,
   words |-> [k \in 1 .. capacity |-> IF k <= b.size THEN b.words[k] ELSE "trash"]]

\* A vector built from nothing, for a swap.
Built(kind, elements) ==
  [owner |-> "host", ref |-> STATIC, kind |-> kind,
   size |-> Len(elements), count |-> Len(elements), words |-> elements]

\* patchgram_tl_validate over the words up to a size.
Valid(b, size) ==
  b.count = size /\ \A k \in 1 .. size : b.words[k] \notin {"alien", "trash"}

\* What a feature adds, and where: hidden gifts in front of the genuine ones.
Added(f) == CASE f = "freeze" -> <<"since", "until", "appeal">>
              [] f = "monetization" -> <<"blocked">>
              [] OTHER -> <<"hiddenGift">>

Place(f, b) == IF f = "hidden" THEN 1 ELSE b.size + 1

\* The tail has moved up, the new words are in the gap, the count is bumped.  The
\* block still publishes its old size.
Opened(b, at, new) ==
  LET n == Len(new)
  IN [b EXCEPT !.count = @ + n,
               !.words = [k \in DOMAIN @ |->
                            IF k \in at .. at + n - 1 THEN new[k - at + 1]
                            ELSE IF k \in at + n .. b.size + n THEN @[k - n]
                            ELSE @[k]]]

\* Faulty: the tail moves back but the count stays.
UndoneButCount(b, at, new) ==
  [b EXCEPT !.words = [k \in DOMAIN @ |-> IF k \in at .. b.size THEN @[k + Len(new)]
                                                               ELSE @[k]]]

\* The revert: the count again, and the tail moved back.
Undone(b, at, new) ==
  [b EXCEPT !.count = @ - Len(new),
            !.words = [k \in DOMAIN @ |-> IF k \in at .. b.size THEN @[k + Len(new)]
                                                               ELSE @[k]]]

\* Write first, then validate, then publish the size or revert.
Edited(b, f) ==
  LET tried == Opened(b, Place(f, b), Added(f))
      size == b.size + Len(Added(f))
  IN IF Valid(tried, size) THEN [tried EXCEPT !.size = size]
                           ELSE Undone(tried, Place(f, b), Added(f))

\* The key that is already there is set to true.
Flipped(b) ==
  [b EXCEPT !.words = [k \in DOMAIN @ |-> IF k <= b.size /\ @[k] = "notBlocked"
                                            THEN "blocked" ELSE @[k]]]

----------------------------------------------------------------------------
(* The hook.                                                               *)

\* The order of pg_apply_response.
Chain == <<"relocate", "freeze", "monetization", "hidden", "substitute">>

Here == heap[queue[walk].at]

Turn(f) == walk \in 1 .. seen /\ Chain[turn] = f

\* Faulty: the end of the chain goes unnoticed.
TurnForever == turn' = turn + 1 /\ walk' = walk /\ UNCHANGED seen

\* To the next rewriter, or with the next reply to the first.
NextTurn ==
  /\ IF turn < Len(Chain) THEN turn' = turn + 1 /\ walk' = walk
                          ELSE turn' = 1 /\ walk' = walk + 1
  /\ UNCHANGED seen

\* The end of the queue is read once.
EnterHook ==
  /\ walk = 0 /\ queue # <<>>
  /\ seen' = Len(queue) /\ walk' = 1 /\ turn' = 1
  /\ UNCHANGED <<on, heap, telegramVars, relocated>>

\* Faulty: a block others hold too will do.
EditsShared(f, b) == f \in on

\* Faulty: a full block is taken for one that cannot be changed.
EditsRoomy(f, b) == f \in on /\ b.ref = 1 /\ b.size < Capacity(b)

\* In-place rewriters leave a vector alone that is not theirs only.
MayEdit(f, b) == f \in on /\ b.ref = 1

Extends(f, b) ==
  \/ f = "freeze" /\ b.kind = "appConfig" /\ ~Has(b, "since")
  \/ f = "monetization" /\ b.kind = "appConfig" /\ ~Has(b, "blocked") /\ ~Has(b, "notBlocked")
  \/ f = "hidden" /\ b.kind = "starGifts" /\ Has(b, "gift")

Needed(f, b) == b.size + Len(Added(f))
Fits(f, b) == Needed(f, b) <= Capacity(b)

ExtendInPlace(f) ==
  /\ Turn(f) /\ MayEdit(f, Here) /\ Extends(f, Here) /\ Fits(f, Here)
  /\ heap' = [heap EXCEPT ![queue[walk].at] = Edited(@, f)]
  /\ NextTurn
  /\ UNCHANGED <<on, telegramVars, relocated>>

\* Faulty: the old block is freed.
SwapAndFree(b, tracked) ==
  /\ heap' = [heap EXCEPT ![LeastUnallocated] = b, ![queue[walk].at] = NoBlock]
  /\ queue' = [queue EXCEPT ![walk] = [at |-> LeastUnallocated, came |-> @.came,
                                       tracked |-> tracked]]

\* The old block is left as it is, its reference still counted, and never freed.
Swap(b, tracked) ==
  /\ heap' = [heap EXCEPT ![LeastUnallocated] = b]
  /\ queue' = [queue EXCEPT ![walk] = [at |-> LeastUnallocated, came |-> @.came,
                                       tracked |-> tracked]]

ExtendGrown(f) ==
  /\ Turn(f) /\ MayEdit(f, Here) /\ Extends(f, Here) /\ ~Fits(f, Here)
  /\ Unallocated # {}
  /\ Swap(Edited(Grown(Here, Needed(f, Here)), f), queue[walk].tracked)
  /\ NextTurn
  /\ UNCHANGED <<on, kept, relocated>>

CanFlip(b) == b.kind = "appConfig" /\ Has(b, "notBlocked")

FlipPurchaseBlocked ==
  /\ Turn("monetization") /\ MayEdit("monetization", Here) /\ CanFlip(Here)
  /\ heap' = [heap EXCEPT ![queue[walk].at] = Flipped(@)]
  /\ NextTurn
  /\ UNCHANGED <<on, telegramVars, relocated>>

\* pg_realloc_live_test: the same words in a new block, once.
Relocates(b) == MayEdit("relocate", b) /\ b.kind = "config" /\ ~relocated

Relocate ==
  /\ Turn("relocate") /\ Relocates(Here)
  /\ relocated' = TRUE
  /\ IF Unallocated # {}
       THEN Swap(Grown(Here, Here.size), queue[walk].tracked)
       ELSE UNCHANGED <<heap, queue>>
  /\ NextTurn
  /\ UNCHANGED <<on, kept>>

\* A reply we track is swapped whole, shared or not, and is then forgotten.
Substitutes == "substitute" \in on /\ queue[walk].tracked

Substitute ==
  /\ Turn("substitute") /\ Substitutes
  /\ IF Unallocated # {}
       THEN Swap(Built(Here.kind, <<"answer">>), FALSE)
       ELSE heap' = heap /\ queue' = [queue EXCEPT ![walk].tracked = FALSE]
  /\ NextTurn
  /\ UNCHANGED <<on, kept, relocated>>

\* The rewriter is off, finds nothing to do, may not edit, or gets no memory.
Acts(f, b) ==
  \/ f = "relocate" /\ Relocates(b)
  \/ f = "substitute" /\ Substitutes
  \/ f = "monetization" /\ MayEdit(f, b) /\ CanFlip(b)
  \/ MayEdit(f, b) /\ Extends(f, b) /\ (Fits(f, b) \/ Unallocated # {})

PassOver(f) ==
  /\ Turn(f) /\ ~Acts(f, Here)
  /\ NextTurn
  /\ UNCHANGED <<on, heap, telegramVars, relocated>>

\* The watcher switches features between any two rewriters.
Reload(c) ==
  /\ on' = c
  /\ UNCHANGED <<heap, telegramVars, hookVars, relocated>>

----------------------------------------------------------------------------
(* Telegram.                                                               *)

\* The network thread appends a reply at any time, also behind a walk.
Arrive(reply, shared) ==
  /\ Len(queue) < QueueRoom /\ Unallocated # {}
  /\ LET a == LeastUnallocated
     IN /\ heap' = [heap EXCEPT ![a] = Received(reply, IF shared THEN 2 ELSE 1)]
        /\ kept' = [kept EXCEPT ![a] = IF shared THEN 1 ELSE 0]
        /\ queue' = Append(queue, [at |-> a, came |-> reply,
                                   tracked |-> reply.kind = "asked"])
  /\ UNCHANGED <<on, hookVars, relocated>>

Walked == walk > seen /\ seen > 0

\* tryToReceive returns at once when the session is paused: the queue stays,
\* and the hook will see the same replies again.
Paused ==
  /\ Walked
  /\ walk' = 0 /\ seen' = 0 /\ turn' = 1
  /\ UNCHANGED <<on, heap, telegramVars, relocated>>

Dropped(b) == [b EXCEPT !.ref = @ - 1]

\* QArrayData::deref: the last reference frees, a static block never goes.
Released(h, a) ==
  CASE h[a].ref = STATIC -> h
    [] h[a].ref = 1 -> [h EXCEPT ![a] = NoBlock]
    [] OTHER -> [h EXCEPT ![a] = Dropped(@)]

\* The drained queue is dispatched reply by reply; what arrived meanwhile too.
\* Whoever handles a reply may keep its buffer.
Dispatch(keep) ==
  /\ Walked /\ queue # <<>>
  /\ LET a == Head(queue).at
     IN IF keep
          THEN kept[a] = 0 /\ kept' = [kept EXCEPT ![a] = 1] /\ heap' = heap
          ELSE kept' = kept /\ heap' = Released(heap, a)
  /\ queue' = Tail(queue)
  /\ UNCHANGED <<on, hookVars, relocated>>

LeaveHook ==
  /\ Walked /\ queue = <<>>
  /\ walk' = 0 /\ seen' = 0 /\ turn' = 1
  /\ UNCHANGED <<on, heap, telegramVars, relocated>>

Forget(a) ==
  /\ kept[a] > 0
  /\ kept' = [kept EXCEPT ![a] = @ - 1]
  /\ heap' = Released(heap, a)
  /\ UNCHANGED <<on, queue, hookVars, relocated>>

----------------------------------------------------------------------------

Init ==
  /\ on \in Configs
  /\ heap = [a \in Address |-> NoBlock]
  /\ queue = <<>> /\ kept = [a \in Address |-> 0]
  /\ seen = 0 /\ walk = 0 /\ turn = 1
  /\ relocated = FALSE

Next ==
  \/ EnterHook
  \/ \E f \in Feature : ExtendInPlace(f)
  \/ \E f \in Feature : ExtendGrown(f)
  \/ FlipPurchaseBlocked
  \/ Relocate
  \/ Substitute
  \/ \E f \in Feature : PassOver(f)
  \/ \E c \in Configs : Reload(c)
  \/ \E reply \in Replies, shared \in BOOLEAN : Arrive(reply, shared)
  \/ Paused
  \/ \E keep \in BOOLEAN : Dispatch(keep)
  \/ LeaveHook
  \/ \E a \in Address : Forget(a)

Spec == Init /\ [][Next]_vars

----------------------------------------------------------------------------
(* Properties.                                                             *)

TypeOK ==
  /\ on \in Configs
  /\ heap \in [Address -> [owner : {"none", "telegram", "host"}, ref : Int, kind : Kind,
                           size : Nat, count : Nat, words : Seq(Word)]]
  /\ \A a \in Address : heap[a].size <= Capacity(heap[a])
  /\ queue \in Seq([at : Address, came : Replies, tracked : BOOLEAN])
  /\ kept \in [Address -> Nat]
  /\ seen \in Nat /\ walk \in 0 .. seen + 1 /\ turn \in 1 .. Len(Chain)
  /\ relocated \in BOOLEAN

\* A reply as it came, with what features may have made of it: the three freeze
\* keys together and once, the purchase key set or added once, hidden gifts in
\* front (a reply that is walked again may get them again), or our answer.  The
\* size is how many elements there are.
Edits(reply, size) ==
  LET own == reply.elements
      lacks(e) == \A k \in DOMAIN own : own[k] # e
      flipped == [k \in DOMAIN own |-> IF own[k] = "notBlocked" THEN "blocked" ELSE own[k]]
      freeze == IF lacks("since") THEN {<<>>, Added("freeze")} ELSE {<<>>}
      block == IF lacks("blocked") /\ lacks("notBlocked") THEN {<<>>, Added("monetization")}
                                                        ELSE {<<>>}
  IN CASE reply.kind = "appConfig" ->
            {base \o x \o y : base \in {own, flipped}, x \in freeze, y \in block}
            \cup {base \o y \o x : base \in {own, flipped}, x \in freeze, y \in block}
       [] reply.kind = "starGifts" ->
            {[k \in 1 .. n |-> "hiddenGift"] \o own : n \in 0 .. size}
       [] reply.kind = "asked" -> {own, <<"answer">>}
       [] OTHER -> {own}

\* Whatever is switched, refused, reverted or walked again, a waiting reply is
\* the genuine one under whole edits, and its count is the count of its elements.
EditedWhole ==
  \A i \in DOMAIN queue :
     LET b == heap[queue[i].at]
     IN b.count = CountOf(Elements(b)) /\ Elements(b) \in Edits(queue[i].came, b.size)

Holders(a) == kept[a] + Cardinality({i \in DOMAIN queue : queue[i].at = a})

\* No block is freed under a holder: Telegram's count of one of its own blocks is
\* never below the references there are, although the hook drops a reference
\* without telling it; a copy of ours is outside the counting.
CountCoversHolders ==
  \A a \in Address :
     /\ heap[a].owner = "none" => Holders(a) = 0
     /\ heap[a].owner = "telegram" => heap[a].ref >= Holders(a)

\* Telegram's allocator never gets one of our blocks back.
OurBlocksStay == [][\A a \in Address : heap[a].owner = "host" => heap'[a].owner = "host"]_vars

\* What waits and what is kept, without the memory it is in.
Waiting == [i \in DOMAIN queue |-> [came |-> queue[i].came,
                                   shows |-> Elements(heap[queue[i].at]),
                                   due |-> queue[i].tracked]]
Held == [a \in Address |-> IF kept[a] > 0 THEN {Elements(heap[a])} ELSE {}]

Promise == INSTANCE AtomicReplies WITH Buffer <- Address, waiting <- Waiting, held <- Held

\* Editing in place, in grown copies and in swapped blocks, with reverts, refused
\* edits, relocation and a walk that is interrupted, comes to this: one reply at a
\* time is extended, flipped or answered as a whole by a feature that is on, and
\* what Telegram holds outside the queue does not change while it is held.
ImplementsAtomicReplies == Promise!AtomicSpec

\* A buffer Telegram keeps outside the queue never changes under it.
KeptUntouched ==
  [][\A a \in Address :
        kept[a] > 0 /\ kept'[a] > 0 =>
           /\ heap'[a].count = heap[a].count
           /\ heap'[a].size = heap[a].size
           /\ heap'[a].words = heap[a].words]_vars

\* "A shared appConfig is just skipped this delivery; the next unshared one
\* applies": when its turn comes on an appConfig that the validator can read, and
\* there is memory, the purchases stay open only if somebody else holds the buffer,
\* or if an earlier rewriter has grown it into a copy of ours.  The comment does
\* not speak of the second, which the code cannot tell from the first.
PassedOverForAReason ==
  [][/\ Turn("monetization") /\ turn' # turn /\ "monetization" \in on
     /\ Here.kind = "appConfig" /\ ~Has(Here, "alien") /\ Unallocated # {}
     /\ ~Has(heap'[queue'[walk].at], "blocked")
     => Holders(queue[walk].at) > 1 \/ Here.owner = "host"]_vars
=============================================================================
