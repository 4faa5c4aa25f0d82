---------------------------- MODULE AtomicReplies ----------------------------
(***************************************************************************)
(* What the rewriting of replies promises, without blocks, references,     *)
(* capacities, reverts and walks: replies wait in the order they came,     *)
(* each shows a sequence of elements, and a feature that is on turns what  *)
(* one reply shows into what it shows next, whole and at once.  What       *)
(* Telegram holds elsewhere stays what it was when it was handed out.      *)
(***************************************************************************)
EXTENDS Naturals, Sequences

CONSTANTS
  Replies,   \* the replies that may arrive
  Configs,   \* the sets of features that may be on
  Buffer     \* names for what Telegram holds outside the queue

VARIABLES
  on,        \* the features that are on
  waiting,   \* the queue: what came, what it shows, and is our answer due?
  held       \* buffer -> the set of what it shows, empty when it is not held

atomicVars == <<on, waiting, held>>

Shows(i, e) == \E k \in DOMAIN waiting[i].shows : waiting[i].shows[k] = e

AtomicInit == on \in Configs /\ waiting = <<>> /\ held = [a \in Buffer |-> {}]

\* A reply shows what came.  Telegram may hold it elsewhere from the start.
Receive(reply) ==
  /\ waiting' = Append(waiting, [came |-> reply, shows |-> reply.elements,
                                 due |-> reply.kind = "asked"])
  /\ \/ UNCHANGED held
     \/ \E a \in Buffer : held[a] = {} /\ held' = [held EXCEPT ![a] = {reply.elements}]
  /\ UNCHANGED on

\* What one reply shows is replaced as a whole, and nothing else is.
Show(i, shows) ==
  /\ waiting' = [waiting EXCEPT ![i].shows = shows]
  /\ UNCHANGED <<on, held>>

Freeze(i) ==
  /\ "freeze" \in on /\ waiting[i].came.kind = "appConfig"
  /\ ~Shows(i, "since") /\ ~Shows(i, "alien")
  /\ Show(i, waiting[i].shows \o <<"since", "until", "appeal">>)

BlockPurchases(i) ==
  /\ "monetization" \in on /\ waiting[i].came.kind = "appConfig"
  /\ ~Shows(i, "blocked") /\ ~Shows(i, "notBlocked") /\ ~Shows(i, "alien")
  /\ Show(i, waiting[i].shows \o <<"blocked">>)

\* The key that is there is set.
FlipPurchases(i) ==
  /\ "monetization" \in on /\ waiting[i].came.kind = "appConfig"
  /\ Show(i, [k \in DOMAIN waiting[i].shows |->
                IF waiting[i].shows[k] = "notBlocked" THEN "blocked" ELSE waiting[i].shows[k]])

ShowHiddenGift(i) ==
  /\ "hidden" \in on /\ waiting[i].came.kind = "starGifts"
  /\ Shows(i, "gift") /\ ~Shows(i, "alien")
  /\ Show(i, <<"hiddenGift">> \o waiting[i].shows)

\* Our answer is given once, or, without memory for it, never.
Answer(i) ==
  /\ "substitute" \in on /\ waiting[i].due
  /\ \E shows \in {<<"answer">>, waiting[i].shows} :
       waiting' = [waiting EXCEPT ![i] = [came |-> @.came, shows |-> shows, due |-> FALSE]]
  /\ UNCHANGED <<on, held>>

\* The first reply is handled as it is shown, and may be held on to.
HandOut ==
  /\ waiting # <<>> /\ waiting' = Tail(waiting)
  /\ \/ UNCHANGED held
     \/ \E a \in Buffer : /\ held[a] = {}
                          /\ held' = [held EXCEPT ![a] = {Head(waiting).shows}]
  /\ UNCHANGED on

LetGo(a) ==
  /\ held' = [held EXCEPT ![a] = {}]
  /\ UNCHANGED <<on, waiting>>

Switch(c) ==
  /\ on' = c
  /\ UNCHANGED <<waiting, held>>

\* What may happen to the queue.
QueueStep ==
  \/ HandOut
  \/ \E i \in DOMAIN waiting : \/ Freeze(i) \/ BlockPurchases(i) \/ FlipPurchases(i)
                               \/ ShowHiddenGift(i) \/ Answer(i)
  \/ \E reply \in Replies : Receive(reply)

AtomicNext ==
  \/ \E c \in Configs : Switch(c)
  \/ waiting' # waiting /\ QueueStep
  \/ \E a \in Buffer : held'[a] # held[a] /\ LetGo(a)

AtomicSpec == AtomicInit /\ [][AtomicNext]_atomicVars
=============================================================================
