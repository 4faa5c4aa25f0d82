--------------------------- MODULE TrackedRequests ---------------------------
(***************************************************************************)
(* The rings of ReplyTracking are the tables of NotedRequests: forget the  *)
(* slots, and of the engine everything but the reply at hand.              *)
(***************************************************************************)
EXTENDS ReplyTracking

\* The notes in the slots of a ring.
NotesIn(table) ==
  {[id |-> table[s].id, what |-> table[s].arg] : s \in Slot \ FreeSlots(table)}

NotesOf == [r \in RingName |-> NotesIn(ring[r])]

AtHand == IF phase \in {"receiving", "taking", "building"} THEN current ELSE NoId

Notes == INSTANCE NotedRequests
  WITH Table <- RingName, Renewing <- {"coll", "fact"}, Nobody <- NoId,
       What <- Arg \cup {NoArg}, Nothing <- NoArg,
       noted <- NotesOf, at <- AtHand

\* The nine rings, with their wipes on another thread, evictions of the first
\* slot and second entries of an id, are bounded sets of notes: sending a request
\* or wiping a ring never loses the note of another request that had room, a
\* taken note never comes back, and what a note says belongs to its request for
\* as long as it is there.
ImplementsNotedRequests == Notes!NotedSpec
=============================================================================
