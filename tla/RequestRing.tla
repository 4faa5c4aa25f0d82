----------------------------- MODULE RequestRing -----------------------------
(***************************************************************************)
(* The fixed-size table that every "answer this request ourselves" feature *)
(* of the engine keeps: gift rings, phone ring, username rings, fact-check *)
(* ring, transfer ring (dll/engine_patches.c).  A slot holds the id of a   *)
(* request that was seen going out and what the reply builder will need to *)
(* know about it; id 0 marks an empty slot.                                *)
(*                                                                         *)
(* The module is stateless: a ring is a value, and Track, Free and the     *)
(* wipes return the ring they leave behind.                                *)
(***************************************************************************)
EXTENDS Naturals

CONSTANTS
  Size,    \* PG_MAX_TRACKED_..._REQUESTS: 32 or 64 in the code
  Id,      \* the request ids Telegram hands out (positive in the code)
  NoId,    \* 0: an empty slot, and the id of a message no request asked for
  Arg,     \* what a slot remembers beside the id: a list index, a count, a peer
  NoArg    \* 0: nothing remembered, or wiped

ASSUME SizeAssumption == Size \in Nat \ {0}
ASSUME IdAssumption == NoId \notin Id

Slot == 1 .. Size

\* The contents of one slot.
Entry == [id : Id \cup {NoId}, arg : Arg \cup {NoArg}]

Ring == [Slot -> Entry]

\* A ring after memset(..., 0, sizeof ...).
BlankRing == [s \in Slot |-> [id |-> NoId, arg |-> NoArg]]

Holds(ring, id) == \E s \in Slot : ring[s].id = id

FreeSlots(ring) == {s \in Slot : ring[s].id = NoId}

IsFull(ring) == FreeSlots(ring) = {}

\* A faulty choice that does not look for an empty slot.
FirstSlotForNew(ring) == 1

\* The slot a new id goes to: the first empty one, and slot 0 of the C array
\* (here 1) when there is none.  The old occupant is then forgotten.
SlotForNew(ring) ==
  IF IsFull(ring)
    THEN 1
    ELSE CHOOSE s \in FreeSlots(ring) : \A t \in FreeSlots(ring) : s <= t

\* Faulty: an id is entered again although the ring holds it.
TrackAgain(ring, id, arg, refresh) ==
  [ring EXCEPT ![SlotForNew(ring)] = [id |-> id, arg |-> arg]]

\* Faulty: a slot whose argument was not wiped is taken to have the right one.
TrackIfBlank(ring, id, arg, refresh) ==
  IF Holds(ring, id) THEN ring
  ELSE [ring EXCEPT ![SlotForNew(ring)] =
          [id |-> id, arg |-> IF @.arg = NoArg THEN arg ELSE @.arg]]

\* Remember id.  An id the ring already holds is not entered twice; the rings
\* that carry an argument the builder depends on (refresh) then take the new one.
Track(ring, id, arg, refresh) ==
  IF Holds(ring, id)
    THEN IF refresh
           THEN [s \in Slot |-> IF ring[s].id = id THEN [id |-> id, arg |-> arg]
                                                   ELSE ring[s]]
           ELSE ring
    ELSE [ring EXCEPT ![SlotForNew(ring)] = [id |-> id, arg |-> arg]]

\* Where a take finds id: the first slot that holds it.
SlotOf(ring, id) ==
  CHOOSE s \in Slot : ring[s].id = id /\ \A t \in Slot : ring[t].id = id => s <= t

\* The slot is empty again.  What some rings leave beside the empty id is not
\* read before the next Track overwrites it.
Free(ring, s) == [ring EXCEPT ![s] = [id |-> NoId, arg |-> NoArg]]

\* memset of the ids alone, and of the arguments alone: the fact-check feature
\* keeps them in two arrays and wipes one after the other.
WipeIds(ring) == [s \in Slot |-> [ring[s] EXCEPT !.id = NoId]]

WipeArgs(ring) == [s \in Slot |-> [ring[s] EXCEPT !.arg = NoArg]]

\* No id sits in two slots: one take then forgets the request for good.
NoDuplicates(ring) ==
  \A s, t \in Slot : ring[s].id = ring[t].id /\ ring[s].id # NoId => s = t
=============================================================================
