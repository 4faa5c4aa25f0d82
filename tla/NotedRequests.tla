---------------------------- MODULE NotedRequests ----------------------------
(***************************************************************************)
(* What the tables of request ids promise, without their slots: each       *)
(* feature has a set of notes, at most Size of them, one per request.  A   *)
(* note leaves for one of three reasons: the reply to its own request is   *)
(* at hand, the whole set is closed, or the set is full and a new note     *)
(* displaces one old one.                                                  *)
(***************************************************************************)
EXTENDS Naturals, FiniteSets

CONSTANTS
  Table,      \* the features that take notes
  Renewing,   \* those that let a second note replace the first
  Size,       \* how many notes a table has room for
  Id,         \* requests
  Nobody,     \* no request
  What,       \* what a note says
  Nothing     \* a note that lost what it said

VARIABLES
  noted,   \* table -> set of notes
  at       \* the request whose reply is at hand, or Nobody

notedVars == <<noted, at>>

Note == [id : Id, what : What]

\* The note a table has of a request, in a set.
Of(t, id) == {n \in noted[t] : n.id = id}

NotedInit == noted = [t \in Table |-> {}] /\ at = Nobody

\* There is room: no other note is touched.
Add(t, n) ==
  /\ at = Nobody
  /\ Of(t, n.id) = {}
  /\ Cardinality(noted[t]) < Size
  /\ noted' = [noted EXCEPT ![t] = @ \cup {n}]
  /\ UNCHANGED at

\* There is none: exactly one old note gives way.
Displace(t, n, old) ==
  /\ at = Nobody
  /\ Of(t, n.id) = {}
  /\ Cardinality(noted[t]) = Size
  /\ old \in noted[t]
  /\ noted' = [noted EXCEPT ![t] = (@ \ {old}) \cup {n}]
  /\ UNCHANGED at

\* The request was sent again and now says something else.
Renew(t, n) ==
  /\ at = Nobody
  /\ t \in Renewing
  /\ Of(t, n.id) # {}
  /\ noted' = [noted EXCEPT ![t] = (@ \ Of(t, n.id)) \cup {n}]
  /\ UNCHANGED at

Receive(id) ==
  /\ at = Nobody
  /\ at' = id
  /\ UNCHANGED noted

\* The reply at hand is acted on: its note is gone for good.
Use(t, n) ==
  /\ n.id = at
  /\ noted' = [noted EXCEPT ![t] = @ \ {n}]
  /\ UNCHANGED at

Finish ==
  /\ at # Nobody
  /\ at' = Nobody
  /\ UNCHANGED noted

\* The feature was switched off, or no longer needs notes.
Close(t) ==
  /\ noted' = [noted EXCEPT ![t] = {}]
  /\ UNCHANGED at

\* The notes stay and no longer say anything.
Unsay(t) ==
  /\ noted' = [noted EXCEPT ![t] = {[id |-> n.id, what |-> Nothing] : n \in @}]
  /\ UNCHANGED at

\* What may happen to one table.
TableStep(t) ==
  \/ \E n \in Note : Add(t, n) \/ Renew(t, n)
  \/ \E n \in Note, old \in noted[t] : Displace(t, n, old)
  \/ \E n \in noted[t] : Use(t, n)
  \/ Close(t)
  \/ Unsay(t)

NotedNext ==
  \/ \E t \in Table : noted'[t] # noted[t] /\ TableStep(t)
  \/ \E id \in Id : Receive(id)
  \/ Finish

NotedSpec == NotedInit /\ [][NotedNext]_notedVars
=============================================================================
