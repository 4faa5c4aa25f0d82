------------------------ MODULE TrackedRequestsProofs ------------------------
(***************************************************************************)
(* What tracking, taking and wiping do to a ring, for every ring size and  *)
(* every set of ids; ReplyTracking keeps its types, holds no id twice, and *)
(* rewrites only the replies its gates let through, for every ring size,   *)
(* every set of requests and configurations, and every part of the reload  *)
(* in scope; the rings a reload closes stay as good as empty; and          *)
(* ReplyTracking implements NotedRequests.                                 *)
(***************************************************************************)
EXTENDS TrackedRequests, FiniteSetTheorems, WellFoundedInduction, TLAPS

----------------------------------------------------------------------------
(* The rings (RequestRing).                                                *)

\* Of some numbers, one is the least.
LEMMA LeastNumber ==
  ASSUME NEW S, S \subseteq Nat, S # {}
  PROVE  \E s \in S : \A t \in S : s <= t
<1>1. \E s \in S : \A t \in S : ~ (<<t, s>> \in OpToRel(<, Nat))
  BY NatLessThanWellFounded, WFMin
<1>2. PICK s \in S : \A t \in S : ~ (<<t, s>> \in OpToRel(<, Nat))
  BY <1>1
<1>3. \A t \in S : ~ (t < s)
  BY <1>2 DEF OpToRel
<1> QED
  BY <1>3

\* A new id is stored in a slot of the ring: an empty one if there is one.
\* (pg_ring_track: empty >= 0 ? empty : 0)
LEMMA SlotForNewIsSlot ==
  ASSUME NEW table
  PROVE  /\ SlotForNew(table) \in Slot
         /\ ~IsFull(table) => table[SlotForNew(table)].id = NoId
         /\ IsFull(table) => SlotForNew(table) = 1
<1>1. CASE IsFull(table)
  BY <1>1, SizeAssumption DEF SlotForNew, Slot
<1>2. CASE ~IsFull(table)
  <2>1. FreeSlots(table) # {} /\ FreeSlots(table) \subseteq Slot
    BY <1>2 DEF IsFull, FreeSlots
  <2>2. \E s \in FreeSlots(table) : \A t \in FreeSlots(table) : s <= t
    BY <2>1, LeastNumber, SizeAssumption DEF Slot
  <2>3. SlotForNew(table) \in FreeSlots(table)
    BY <1>2, <2>2 DEF SlotForNew
  <2> QED
    BY <1>2, <2>3 DEF FreeSlots
<1> QED
  BY <1>1, <1>2

\* Every slot of a ring is an entry.
LEMMA RingEntry ==
  ASSUME NEW table \in Ring, NEW s \in Slot
  PROVE  /\ table[s] \in Entry
         /\ table[s].id \in Id \cup {NoId}
         /\ table[s].arg \in Arg \cup {NoArg}
         /\ table[s] = [id |-> table[s].id, arg |-> table[s].arg]
BY DEF Ring, Entry

\* What a track call leaves in each slot.
LEMMA TrackSlot ==
  ASSUME NEW table \in Ring, NEW id \in Id, NEW arg \in Arg \cup {NoArg},
         NEW refresh \in BOOLEAN, NEW s \in Slot
  PROVE  /\ Track(table, id, arg, refresh) \in Ring
         /\ Track(table, id, arg, refresh)[s] \in {table[s], [id |-> id, arg |-> arg]}
         /\ Track(table, id, arg, refresh)[s] # table[s] =>
               /\ table[s].id # id => ~Holds(table, id) /\ s = SlotForNew(table)
               /\ Track(table, id, arg, refresh)[s] = [id |-> id, arg |-> arg]
<1> DEFINE new == [id |-> id, arg |-> arg]
<1>1. new \in Entry
  BY DEF Entry
<1>2. CASE Holds(table, id) /\ refresh
  <2>1. Track(table, id, arg, refresh) = [t \in Slot |-> IF table[t].id = id THEN new ELSE table[t]]
    BY <1>2 DEF Track
  <2> QED
    BY <1>1, <2>1 DEF Ring
<1>3. CASE Holds(table, id) /\ ~refresh
  BY <1>3 DEF Track
<1>4. CASE ~Holds(table, id)
  <2>1. Track(table, id, arg, refresh) = [table EXCEPT ![SlotForNew(table)] = new]
    BY <1>4 DEF Track
  <2> QED
    BY <1>1, <1>4, <2>1, SlotForNewIsSlot DEF Ring
<1> QED
  BY <1>2, <1>3, <1>4

\* After a track call the ring holds the id.
LEMMA TrackHolds ==
  ASSUME NEW table \in Ring, NEW id \in Id, NEW arg \in Arg \cup {NoArg}, NEW refresh \in BOOLEAN
  PROVE  Holds(Track(table, id, arg, refresh), id)
<1>1. CASE Holds(table, id)
  BY <1>1 DEF Track, Holds, Ring
<1>2. CASE ~Holds(table, id)
  BY <1>2, SlotForNewIsSlot DEF Track, Holds, Ring
<1> QED
  BY <1>1, <1>2

\* A track call enters an id at most once, also one that is sent again.
LEMMA TrackNoDuplicates ==
  ASSUME NEW table \in Ring, NEW id \in Id, NEW arg \in Arg \cup {NoArg},
         NEW refresh \in BOOLEAN, NoDuplicates(table)
  PROVE  NoDuplicates(Track(table, id, arg, refresh))
<1> DEFINE new == Track(table, id, arg, refresh)
<1>1. CASE Holds(table, id)
  <2>1. \A s \in Slot : new[s].id = table[s].id
    BY <1>1, RingEntry DEF Track
  <2> QED
    BY <2>1 DEF NoDuplicates
<1>2. CASE ~Holds(table, id)
  <2>1. \A s \in Slot : new[s].id = IF s = SlotForNew(table) THEN id ELSE table[s].id
    BY <1>2, SlotForNewIsSlot DEF Track, Ring
  <2>2. \A s \in Slot : table[s].id # id
    BY <1>2 DEF Holds
  <2> QED
    BY <2>1, <2>2 DEF NoDuplicates
<1> QED
  BY <1>1, <1>2

\* The only id a track call can push out is the one in the first slot of a full
\* ring.
LEMMA TrackKeeps ==
  ASSUME NEW table \in Ring, NEW id \in Id, NEW arg \in Arg \cup {NoArg},
         NEW refresh \in BOOLEAN, NEW other \in Id, Holds(table, other),
         ~Holds(Track(table, id, arg, refresh), other)
  PROVE  IsFull(table) /\ table[1].id = other
<1> DEFINE new == Track(table, id, arg, refresh)
<1>1. PICK s \in Slot : table[s].id = other
  BY DEF Holds
<1>2. new[s].id # other
  BY DEF Holds
<1>3. other # NoId
  BY IdAssumption
<1>4. new[s] = [id |-> id, arg |-> arg] /\ new[s] # table[s]
  BY <1>1, <1>2, TrackSlot
<1>5. table[s].id # id
  BY <1>1, <1>2, <1>4
<1>6. s = SlotForNew(table)
  BY <1>4, <1>5, TrackSlot
<1> QED
  BY <1>1, <1>3, <1>6, SlotForNewIsSlot

\* The slot a take matches holds the id.
LEMMA SlotOfHeld ==
  ASSUME NEW table \in Ring, NEW id \in Id, Holds(table, id)
  PROVE  SlotOf(table, id) \in Slot /\ table[SlotOf(table, id)].id = id
<1> DEFINE places == {s \in Slot : table[s].id = id}
<1>1. places # {} /\ places \subseteq Nat
  BY SizeAssumption DEF Holds, Slot
<1>2. \E s \in places : \A t \in places : s <= t
  BY <1>1, LeastNumber
<1>3. \E s \in Slot : table[s].id = id /\ \A t \in Slot : table[t].id = id => s <= t
  BY <1>2
<1> QED
  BY <1>3 DEF SlotOf

\* Emptying a slot touches no other.
LEMMA FreeSlot ==
  ASSUME NEW table \in Ring, NEW s \in Slot
  PROVE  /\ Free(table, s) \in Ring
         /\ Free(table, s)[s] = [id |-> NoId, arg |-> NoArg]
         /\ \A t \in Slot \ {s} : Free(table, s)[t] = table[t]
         /\ NoDuplicates(table) => NoDuplicates(Free(table, s))
<1> DEFINE none == [id |-> NoId, arg |-> NoArg]
           new == Free(table, s)
<1>1. none \in Entry
  BY DEF Entry
<1>2. new = [table EXCEPT ![s] = none]
  BY DEF Free
<1>3. new \in Ring
  BY <1>1, <1>2 DEF Ring
<1>4. new[s] = none /\ \A t \in Slot \ {s} : new[t] = table[t]
  BY <1>2 DEF Ring
<1>5. NoDuplicates(table) => NoDuplicates(new)
  BY <1>4 DEF NoDuplicates
<1> QED
  BY <1>3, <1>4, <1>5

\* Wiping leaves a ring with no id the ring did not have.
LEMMA WipesAreRings ==
  ASSUME NEW table \in Ring
  PROVE  /\ BlankRing \in Ring /\ WipeIds(table) \in Ring /\ WipeArgs(table) \in Ring
         /\ \A s \in Slot : /\ BlankRing[s] = [id |-> NoId, arg |-> NoArg]
                            /\ WipeIds(table)[s] = [id |-> NoId, arg |-> table[s].arg]
                            /\ WipeArgs(table)[s] = [id |-> table[s].id, arg |-> NoArg]
<1>1. \A s \in Slot : table[s] \in Entry
  BY RingEntry
<1>2. \A s \in Slot : [table[s] EXCEPT !.id = NoId] = [id |-> NoId, arg |-> table[s].arg]
  BY <1>1 DEF Entry
<1>3. \A s \in Slot : [table[s] EXCEPT !.arg = NoArg] = [id |-> table[s].id, arg |-> NoArg]
  BY <1>1 DEF Entry
<1> QED
  BY <1>1, <1>2, <1>3 DEF BlankRing, WipeIds, WipeArgs, Ring, Entry

\* Wiping a ring enters no id twice.
LEMMA WipesNoDuplicates ==
  ASSUME NEW table \in Ring, NoDuplicates(table)
  PROVE  NoDuplicates(BlankRing) /\ NoDuplicates(WipeIds(table)) /\ NoDuplicates(WipeArgs(table))
<1>1. \A s \in Slot : BlankRing[s].id = NoId /\ WipeIds(table)[s].id = NoId
  BY RingEntry DEF BlankRing, WipeIds, Entry
<1>2. \A s \in Slot : WipeArgs(table)[s].id = table[s].id
  BY RingEntry DEF WipeArgs, Entry
<1>3. NoDuplicates(BlankRing) /\ NoDuplicates(WipeIds(table))
  BY <1>1 DEF NoDuplicates
<1>4. NoDuplicates(WipeArgs(table))
  BY <1>2 DEF NoDuplicates
<1> QED
  BY <1>3, <1>4

----------------------------------------------------------------------------
(* The engine (ReplyTracking).                                             *)

USE DEF watcherVars, engineVars, clientVars

\* The reload has as many steps as Program lists.
LEMMA ProgramLength == Len(Program) = 21
BY DEF Program

\* The watcher never leaves its program.
LEMMA AdvanceType ==
  ASSUME Advance
  PROVE  pc' \in 0 .. Len(Program)
BY ProgramLength DEF Advance, Steps

\* Loading a flag keeps the types.
LEMMA LoadFlagType ==
  ASSUME TypeOK, NEW f \in Flag, LoadFlag(f)
  PROVE  TypeOK'
<1>1. pc' \in 0 .. Len(Program)
  BY AdvanceType DEF LoadFlag
<1>2. live' \in Config
  BY DEF LoadFlag, TypeOK, Config
<1> QED
  BY <1>1, <1>2 DEF LoadFlag, TypeOK

\* Loading a gift mode keeps the types.
LEMMA LoadModeType ==
  ASSUME TypeOK, NEW r \in ModeRing, LoadMode(r)
  PROVE  TypeOK'
<1>1. pc' \in 0 .. Len(Program)
  BY AdvanceType DEF LoadMode
<1>2. target \in Config
  BY ConfigsAssumption DEF TypeOK
<1>3. live' \in Config
  BY <1>2 DEF LoadMode, TypeOK, Config
<1> QED
  BY <1>1, <1>3 DEF LoadMode, TypeOK

\* Clearing and filling the list of usernames keep the types.
LEMMA ListType ==
  ASSUME TypeOK, ClearList \/ FillList
  PROVE  TypeOK'
<1>1. pc' \in 0 .. Len(Program)
  BY AdvanceType DEF ClearList, FillList, TypeOK
<1>2. target \in Config
  BY ConfigsAssumption DEF TypeOK
<1>3. CASE ClearList
  <2>1. <<>> \in UsernameList
    BY MaxUsernamesAssumption DEF UsernameList
  <2>2. live' \in Config
    BY <1>3, <2>1 DEF ClearList, TypeOK, Config
  <2> QED
    BY <1>1, <1>3, <2>2 DEF ClearList, TypeOK
<1>4. CASE FillList
  <2>1. live \in Config /\ live.list \in UsernameList /\ target.list \in UsernameList
    BY <1>2 DEF TypeOK, Config
  <2>2. CASE Len(live.list) < Len(target.list)
    <3>1. Append(live.list, target.list[Len(live.list) + 1]) \in UsernameList
      BY <2>1, <2>2, MaxUsernamesAssumption DEF UsernameList
    <3>2. live' = [live EXCEPT !.list = Append(live.list, target.list[Len(live.list) + 1])]
      BY <1>4, <2>2 DEF FillList
    <3>3. live' \in Config
      BY <2>1, <3>1, <3>2 DEF Config
    <3> QED
      BY <1>1, <1>4, <3>3 DEF FillList, TypeOK
  <2>3. CASE ~(Len(live.list) < Len(target.list))
    BY <1>1, <1>4, <2>3 DEF FillList, TypeOK
  <2> QED
    BY <2>2, <2>3
<1> QED
  BY <1>3, <1>4

\* A peer read without its type is still something a slot may say, and losing the
\* type again changes nothing.
LEMMA UntypedArg ==
  ASSUME NEW arg \in Arg \cup {NoArg}
  PROVE  /\ Untyped(arg) \in Arg \cup {NoArg}
         /\ Untyped(Untyped(arg)) = Untyped(arg)
         /\ Untyped(NoArg) = NoArg
BY AsUserAssumption, PeerAssumption DEF Untyped

\* A wiped ring has no ids.  Of the transfers the peers stay, without types.
LEMMA WipedRing ==
  ASSUME NEW r \in RingName, NEW table \in Ring
  PROVE  /\ Wiped(r, table) \in Ring
         /\ \A s \in Slot : Wiped(r, table)[s].id = NoId
         /\ r = "transfer" =>
              \A s \in Slot : Wiped(r, table)[s].arg = Untyped(table[s].arg)
<1>1. CASE r \in {"coll", "fact"}
  <2>1. Wiped(r, table) = WipeIds(table) /\ r # "transfer"
    BY <1>1 DEF Wiped
  <2>2. WipeIds(table) \in Ring
    BY WipesAreRings
  <2>3. \A s \in Slot : WipeIds(table)[s].id = NoId
    BY RingEntry DEF WipeIds, Entry
  <2> QED
    BY <2>1, <2>2, <2>3
<1>2. CASE r = "transfer"
  <2>1. Wiped(r, table) = [s \in Slot |-> [id |-> NoId, arg |-> Untyped(table[s].arg)]]
    BY <1>2 DEF Wiped
  <2>2. \A s \in Slot : [id |-> NoId, arg |-> Untyped(table[s].arg)] \in Entry
    BY RingEntry, UntypedArg DEF Entry
  <2> QED
    BY <2>1, <2>2 DEF Ring
<1>3. CASE r \notin {"coll", "fact", "transfer"}
  <2>1. Wiped(r, table) = BlankRing /\ r # "transfer"
    BY <1>3 DEF Wiped
  <2>2. BlankRing \in Ring /\ \A s \in Slot : BlankRing[s].id = NoId
    BY WipesAreRings DEF BlankRing
  <2> QED
    BY <2>1, <2>2
<1> QED
  BY <1>1, <1>2, <1>3

\* The memsets of a reload keep the types.
LEMMA WipeType ==
  ASSUME TypeOK, NEW r \in RingName, WipeRing(r) \/ WipePeers \/ WipeCounts
  PROVE  TypeOK'
<1>1. pc' \in 0 .. Len(Program)
  BY AdvanceType DEF WipeRing, WipePeers, WipeCounts
<1>2. \A q \in RingName : ring[q] \in Ring
  BY DEF TypeOK
<1>3. Wiped(r, ring[r]) \in Ring /\ \A q \in RingName : WipeArgs(ring[q]) \in Ring
  BY <1>2, WipesAreRings, WipedRing
<1>4. ring' \in [RingName -> Ring]
  BY <1>2, <1>3 DEF TypeOK, WipeRing, WipePeers, WipeCounts, RingName
<1> QED
  BY <1>1, <1>4 DEF WipeRing, WipePeers, WipeCounts, TypeOK

\* Noticing a changed file keeps the types.
LEMMA BeginReloadType ==
  ASSUME TypeOK, NEW c \in Configs, BeginReload(c)
  PROVE  TypeOK'
<1>1. pc' \in 0 .. Len(Program)
  BY AdvanceType DEF BeginReload
<1> QED
  BY <1>1 DEF BeginReload, TypeOK

\* Switching the display hook keeps the types.
LEMMA SwitchHookType ==
  ASSUME TypeOK, SwitchHook
  PROVE  TypeOK'
<1>1. pc' \in 0 .. Len(Program)
  BY AdvanceType DEF SwitchHook
<1>2. hook' \in BOOLEAN
  BY DEF SwitchHook
<1> QED
  BY <1>1, <1>2 DEF SwitchHook, TypeOK

\* Every step of the watcher keeps the types.
LEMMA WatcherType ==
  ASSUME TypeOK, Watcher
  PROVE  TypeOK'
BY LoadFlagType, LoadModeType, ListType, WipeType, BeginReloadType, SwitchHookType
   DEF Watcher, RingName

----------------------------------------------------------------------------

\* A username that passed its gate has a first position, within the list.
LEMMA TrackArgType ==
  ASSUME TypeOK, NEW r \in RingName, NEW req \in Requests, TrackGate(r, req)
  PROVE  TrackArg(r, req) \in Arg
<1>1. req.what \in Arg /\ NoArg \in Arg
  BY RequestsAssumption, ArgAssumption DEF Request, What
<1>2. CASE r = "coll"
  <2> DEFINE places == {k \in DOMAIN live.list : live.list[k] = req.what}
  <2>1. live.list \in Seq(Username) /\ Len(live.list) <= MaxUsernames
    BY DEF TypeOK, Config, UsernameList
  <2>2. DOMAIN live.list = 1 .. Len(live.list) /\ Len(live.list) \in Nat
    BY <2>1
  <2>3. places # {} /\ places \subseteq Nat
    BY <1>2, <2>2 DEF TrackGate
  <2>4. \E k \in places : \A j \in places : k <= j
    BY <2>3, LeastNumber
  <2>5. \E k \in DOMAIN live.list :
           live.list[k] = req.what /\ \A j \in 1 .. k - 1 : live.list[j] # req.what
    BY <2>2, <2>4
  <2>6. TrackArg(r, req) \in DOMAIN live.list
    BY <1>2, <2>5 DEF TrackArg
  <2> QED
    BY <2>1, <2>2, <2>6, ArgAssumption, MaxUsernamesAssumption
<1>3. CASE r # "coll"
  BY <1>1, <1>3 DEF TrackArg
<1> QED
  BY <1>2, <1>3

----------------------------------------------------------------------------

\* The engine works on a request that was made, or walks past a push.
InHand ==
  /\ phase \in {"sending", "storing", "taking", "building"} => current \in Id
  /\ phase = "taking" => slot \in Slot
  /\ phase # "idle" /\ current # NoId => request[current] \in Requests

TypeInv == TypeOK /\ InHand

\* The watcher does not touch what the engine has in hand.
LEMMA WatcherInHand ==
  ASSUME TypeInv, Watcher
  PROVE  TypeInv'
<1>1. TypeOK'
  BY WatcherType DEF TypeInv
<1>2. UNCHANGED <<phase, current, slot, request>>
  BY DEF Watcher, BeginReload, LoadFlag, LoadMode, WipeRing, WipePeers, WipeCounts, ClearList,
         FillList, SwitchHook
<1> QED
  BY <1>1, <1>2 DEF TypeInv, InHand

\* Entering sendPrepared keeps the types.
LEMMA SendPreparedType ==
  ASSUME TypeInv, NEW id \in Id, NEW req \in Requests, SendPrepared(id, req)
  PROVE  TypeInv'
<1>1. RingsOf[req.kind] \subseteq RingName
  BY RequestsAssumption DEF Request, Kind, RingsOf, RingName, ModeRing
<1>2. TypeOK'
  BY <1>1 DEF TypeInv, TypeOK, SendPrepared, Rewriter
<1>3. InHand'
  BY DEF TypeInv, TypeOK, InHand, SendPrepared
<1> QED
  BY <1>2, <1>3 DEF TypeInv

\* Testing a gate keeps the types.
LEMMA GateType ==
  ASSUME TypeInv, NEW r \in RingName, Gate(r)
  PROVE  TypeInv'
<1>1. current \in Id /\ request[current] \in Requests
  BY IdAssumption DEF TypeInv, InHand, Gate
<1>2. TypeOK'
  <2>1. CASE TrackGate(r, request[current])
    <3>1. found' \in Arg
      BY <1>1, <2>1, TrackArgType DEF Gate, TypeInv
    <3>2. entitled' \in [Id \cup {NoId} -> SUBSET RingName]
      BY <1>1, <2>1 DEF Gate, TypeInv, TypeOK
    <3> QED
      BY <2>1, <3>1, <3>2 DEF Gate, TypeInv, TypeOK
  <2>2. CASE ~TrackGate(r, request[current])
    BY <2>2 DEF Gate, TypeInv, TypeOK
  <2> QED
    BY <2>1, <2>2
<1>3. InHand'
  BY <1>1, IdAssumption DEF Gate, InHand
<1> QED
  BY <1>2, <1>3 DEF TypeInv

\* Noting an id keeps the types.
LEMMA StoreType ==
  ASSUME TypeInv, NEW r \in RingName, Store(r)
  PROVE  TypeInv'
<1>1. current \in Id /\ found \in Arg \cup {NoArg} /\ ring[r] \in Ring /\ Refreshes(r) \in BOOLEAN
  BY DEF TypeInv, TypeOK, InHand, Store, Refreshes
<1>2. Slot # {}
  BY SizeAssumption DEF Slot
<1>3. Track(ring[r], current, found, Refreshes(r)) \in Ring
  BY <1>1, <1>2, TrackSlot
<1>4. ring' \in [RingName -> Ring] /\ NoArg \in Arg
  BY <1>3, ArgAssumption DEF Store, TypeInv, TypeOK, What
<1>5. TypeOK'
  BY <1>4 DEF Store, TypeInv, TypeOK
<1>6. InHand'
  BY DEF Store, TypeInv, InHand
<1> QED
  BY <1>5, <1>6 DEF TypeInv

\* Leaving sendPrepared keeps the types.
LEMMA SendEndType ==
  ASSUME TypeInv, SendEnd \/ Dispatch
  PROVE  TypeInv'
<1>1. TypeOK'
  BY DEF SendEnd, Dispatch, TypeInv, TypeOK
<1>2. InHand'
  BY DEF SendEnd, Dispatch, InHand
<1> QED
  BY <1>1, <1>2 DEF TypeInv

\* Coming to a reply keeps the types.
LEMMA TryToReceiveType ==
  ASSUME TypeInv, NEW id \in Id \cup {NoId}, TryToReceive(id)
  PROVE  TypeInv'
<1>1. TypeOK'
  BY DEF TryToReceive, Concerned, TypeInv, TypeOK, Rewriter, RingName
<1>2. InHand'
  BY DEF TryToReceive, TypeInv, TypeOK, InHand
<1> QED
  BY <1>1, <1>2 DEF TypeInv

\* Passing a reply by keeps the types.
LEMMA PassByType ==
  ASSUME TypeInv, NEW r \in Rewriter, PassBy(r)
  PROVE  TypeInv'
<1>1. TypeOK'
  BY DEF PassBy, TypeInv, TypeOK
<1>2. InHand'
  BY DEF PassBy, TypeInv, InHand
<1> QED
  BY <1>1, <1>2 DEF TypeInv

\* Taking a reply under the mode "all" keeps the types.
LEMMA TakeAnyType ==
  ASSUME TypeInv, NEW r \in Rewriter, TakeAny(r)
  PROVE  TypeInv'
<1>1. current \in Id
  BY DEF TakeAny, HasSavedGifts, TypeInv, TypeOK
<1>2. TypeOK'
  BY <1>1 DEF TakeAny, TypeInv, TypeOK
<1>3. InHand'
  BY <1>1 DEF TakeAny, TypeInv, InHand
<1> QED
  BY <1>2, <1>3 DEF TypeInv

\* Finding the slot of a noted reply keeps the types,
LEMMA MatchType ==
  ASSUME TypeInv, NEW r \in RingName, Match(r)
  PROVE  TypeInv'
<1>1. current \in Id /\ ring[r] \in Ring /\ Holds(ring[r], current)
  BY DEF Match, Tracked, TypeInv, TypeOK
<1>2. slot' \in Slot /\ slot' \in 0 .. Size
  BY <1>1, SlotOfHeld, SizeAssumption DEF Match, Slot
<1>3. TypeOK'
  BY <1>2 DEF Match, TypeInv, TypeOK
<1>4. InHand'
  BY <1>1, <1>2 DEF Match, TypeInv, InHand
<1> QED
  BY <1>3, <1>4 DEF TypeInv

\* and so does emptying it.
LEMMA TakeType ==
  ASSUME TypeInv, NEW r \in RingName, Take(r)
  PROVE  TypeInv'
<1>1. current \in Id /\ slot \in Slot /\ ring[r] \in Ring
  BY DEF Take, TypeInv, TypeOK, InHand
<1>2. Free(ring[r], slot) \in Ring
  BY <1>1, FreeSlot
<1>3. ring[r][slot].arg \in Arg
  BY <1>1, RingEntry, ArgAssumption DEF What
<1>4. 0 \in 0 .. Size
  BY SizeAssumption
<1>5. ring' \in [RingName -> Ring]
  BY <1>2 DEF Take, TypeInv, TypeOK
<1>6. TypeOK'
  BY <1>3, <1>4, <1>5 DEF Take, TypeInv, TypeOK
<1>7. InHand'
  BY <1>1 DEF Take, TypeInv, InHand
<1> QED
  BY <1>6, <1>7 DEF TypeInv

\* Rewriting a reply keeps the types.
LEMMA BuildType ==
  ASSUME TypeInv, NEW r \in Rewriter, Build(r)
  PROVE  TypeInv'
<1>1. current \in Id /\ NoArg \in Arg
  BY ArgAssumption DEF Build, TypeInv, InHand, What
<1>2. Says(r, found) \in Arg
  <2>1. live.list \in Seq(Username) /\ Username \subseteq Arg /\ found \in Arg
    BY ArgAssumption DEF TypeInv, TypeOK, Config, UsernameList, What
  <2> QED
    BY <1>1, <2>1 DEF Says
<1>3. [by |-> r, says |-> Says(r, found)] \in Rewrite
  BY <1>2 DEF Rewrite
<1>4. rewrites' \in [Id \cup {NoId} -> SUBSET Rewrite]
  BY <1>1, <1>3 DEF Build, TypeInv, TypeOK
<1>5. TypeOK'
  BY <1>1, <1>4 DEF Build, TypeInv, TypeOK
<1>6. InHand'
  BY DEF Build, TypeInv, InHand
<1> QED
  BY <1>5, <1>6 DEF TypeInv

\* Leaving a reply as it is keeps the types.
LEMMA DeclineType ==
  ASSUME TypeInv, NEW r \in Rewriter, Decline(r)
  PROVE  TypeInv'
<1>1. TypeOK'
  BY ArgAssumption DEF Decline, TypeInv, TypeOK, What
<1>2. InHand'
  BY DEF Decline, TypeInv, InHand
<1> QED
  BY <1>1, <1>2 DEF TypeInv

\* Every step of the engine keeps the types.
LEMMA EngineType ==
  ASSUME TypeInv, Engine
  PROVE  TypeInv'
BY SendPreparedType, GateType, StoreType, SendEndType, TryToReceiveType, PassByType,
   TakeAnyType, MatchType, TakeType, BuildType, DeclineType DEF Engine

\* The types hold when the hooks are installed,
LEMMA InitType == Init => TypeInv
<1> SUFFICES ASSUME Init PROVE TypeInv
  OBVIOUS
<1>1. BlankRing \in Ring
  BY DEF BlankRing, Ring, Entry
<1>2. live \in Config /\ NoArg \in Arg
  BY ConfigsAssumption, ArgAssumption DEF Init, What
<1> QED
  BY <1>1, <1>2, ProgramLength, SizeAssumption DEF Init, TypeInv, TypeOK, InHand

\* and every step keeps them,
LEMMA NextType == TypeInv /\ [Next]_vars => TypeInv'
<1> SUFFICES ASSUME TypeInv, [Next]_vars PROVE TypeInv'
  OBVIOUS
<1>1. CASE Watcher
  BY <1>1, WatcherInHand
<1>2. CASE Engine
  BY <1>2, EngineType
<1>3. CASE UNCHANGED vars
  BY <1>3 DEF vars, TypeInv, TypeOK, InHand
<1> QED
  BY <1>1, <1>2, <1>3 DEF Next

\* so they always hold.
LEMMA AlwaysTypeInv == Spec => []TypeInv
BY InitType, NextType, PTL DEF Spec

\* Type correctness of the engine, the watcher and the rings.
THEOREM TypeCorrect == Spec => []TypeOK
<1>1. TypeInv => TypeOK
  BY DEF TypeInv
<1> QED
  BY <1>1, AlwaysTypeInv, PTL

----------------------------------------------------------------------------

\* No ring holds an id twice: a request sent again is not entered again, and a
\* wipe or a take between a gate and its store makes no second entry either.
THEOREM NoDuplicates_Always == Spec => []NoDuplicateIds
<1>1. Init => NoDuplicateIds
  BY DEF Init, NoDuplicateIds, NoDuplicates, BlankRing
<1>2. TypeInv /\ NoDuplicateIds /\ [Next]_vars => NoDuplicateIds'
  <2> SUFFICES ASSUME TypeInv, NoDuplicateIds, [Next]_vars,
                      NEW r \in RingName
               PROVE  NoDuplicates(ring[r])'
    BY DEF NoDuplicateIds
  <2>1. NoDuplicates(ring[r]) /\ ring[r] \in Ring /\ ring \in [RingName -> Ring]
    BY DEF NoDuplicateIds, TypeInv, TypeOK
  <2>2. CASE ring' = ring
    BY <2>1, <2>2
  <2>3. ASSUME NEW q \in RingName, WipeRing(q) \/ WipePeers \/ WipeCounts
        PROVE  NoDuplicates(ring[r])'
    <3>1. NoDuplicates(WipeArgs(ring[r]))
      BY <2>1, WipesNoDuplicates
    <3>2. NoDuplicates(Wiped(r, ring[r]))
      BY <2>1, WipedRing DEF NoDuplicates
    <3>3. ring'[r] \in {ring[r], Wiped(r, ring[r]), WipeArgs(ring[r])}
      BY <2>1, <2>3 DEF WipeRing, WipePeers, WipeCounts
    <3> QED
      BY <2>1, <3>1, <3>2, <3>3
  <2>4. ASSUME NEW q \in RingName, Store(q)
        PROVE  NoDuplicates(ring[r])'
    <3>1. current \in Id /\ found \in Arg \cup {NoArg} /\ Refreshes(r) \in BOOLEAN
      BY <2>4 DEF Store, TypeInv, TypeOK, InHand, Refreshes
    <3>2. NoDuplicates(Track(ring[r], current, found, Refreshes(r)))
      BY <2>1, <3>1, TrackNoDuplicates
    <3> QED
      BY <2>1, <2>4, <3>2 DEF Store
  <2>5. ASSUME NEW q \in RingName, Take(q)
        PROVE  NoDuplicates(ring[r])'
    <3>1. slot \in Slot
      BY <2>5 DEF Take, TypeInv, InHand
    <3>2. NoDuplicates(Free(ring[r], slot))
      BY <2>1, <3>1, FreeSlot
    <3> QED
      BY <2>1, <2>5, <3>2 DEF Take
  <2>6. CASE Next
    BY <2>2, <2>3, <2>4, <2>5, <2>6
       DEF Next, Watcher, Engine, BeginReload, LoadFlag, LoadMode, ClearList, FillList,
           SwitchHook, SendPrepared, Gate, SendEnd, TryToReceive, PassBy, TakeAny, Match, Build,
           Decline, Dispatch, RingName
  <2> QED
    BY <2>2, <2>6 DEF vars
<1> QED
  BY <1>1, <1>2, AlwaysTypeInv, PTL DEF Spec

----------------------------------------------------------------------------

\* One rewriter has its turn.
LEMMA FirstUnique ==
  ASSUME NEW r \in Rewriter, NEW q \in Rewriter, First(r), First(q)
  PROVE  r = q
<1>1. Rank[r] <= Rank[q] /\ Rank[q] <= Rank[r]
  BY DEF First
<1> QED
  BY <1>1 DEF Rewriter, RingName, ModeRing, Rank

\* A request keeps its id and its content once it has been made.
LEMMA RequestKept ==
  ASSUME TypeInv, [Next]_vars, NEW id \in Id, request[id] \in Requests
  PROVE  request'[id] = request[id]
<1>1. NoRequest \notin Requests
  BY RequestsAssumption DEF NoRequest, Request, Kind
<1>2. CASE UNCHANGED request
  BY <1>2
<1>3. ASSUME NEW j \in Id, NEW req \in Requests, SendPrepared(j, req)
      PROVE  request'[id] = request[id]
  BY <1>1, <1>3 DEF SendPrepared, TypeInv, TypeOK
<1> QED
  BY <1>2, <1>3
     DEF Next, vars, Watcher, Engine, BeginReload, LoadFlag, LoadMode, WipeRing, WipePeers,
         WipeCounts, ClearList, FillList, SwitchHook, Gate, Store, SendEnd, TryToReceive, PassBy,
         TakeAny, Match, Take, Build, Decline, Dispatch

\* A page of saved gifts remains one.
LEMMA SavedGiftsKept ==
  ASSUME TypeInv, [Next]_vars, NEW id \in Id \cup {NoId}, HasSavedGifts(id)
  PROVE  HasSavedGifts(id)'
<1>1. id \in Id /\ request[id].kind = "savedGifts"
  BY DEF HasSavedGifts
<1>2. request[id] \in Requests
  BY <1>1 DEF TypeInv, TypeOK, NoRequest
<1>3. request'[id] = request[id]
  BY <1>1, <1>2, RequestKept
<1> QED
  BY <1>1, <1>3 DEF HasSavedGifts

\* What a ring holds, and what the engine is about to store or to answer, has
\* passed a gate.
HeldEntitled ==
  \A r \in RingName, s \in Slot : ring[r][s].id \in Id => r \in entitled[ring[r][s].id]

HandEntitled ==
  /\ \A r \in RingName :
        phase \in {"storing", "taking", "building"} /\ First(r) => r \in entitled[current]
  /\ phase = "building" /\ First("extras") => HasSavedGifts(current)

EntitledInv == HeldEntitled /\ HandEntitled /\ OnlyEntitledRewrites

\* The history of gates only grows.
LEMMA EntitledGrows ==
  ASSUME TypeInv, [Next]_vars, NEW id \in Id \cup {NoId}
  PROVE  entitled[id] \subseteq entitled'[id]
<1>1. CASE UNCHANGED entitled
  BY <1>1
<1>2. ASSUME NEW r \in RingName, Gate(r)
      PROVE  entitled[id] \subseteq entitled'[id]
  BY <1>2 DEF Gate, TypeInv, TypeOK
<1>3. ASSUME NEW r \in Rewriter, TakeAny(r)
      PROVE  entitled[id] \subseteq entitled'[id]
  BY <1>3 DEF TakeAny, TypeInv, TypeOK
<1> QED
  BY <1>1, <1>2, <1>3
     DEF Next, vars, Watcher, Engine, BeginReload, LoadFlag, LoadMode, WipeRing, WipePeers,
         WipeCounts, ClearList, FillList, SwitchHook, SendPrepared, Store, SendEnd,
         TryToReceive, PassBy, Match, Take, Build, Decline, Dispatch

\* The rings whose slots carry what the request itself asked about.
Carrying == {"transfer", "fact"}

\* Only a store puts an id into a ring, and it is the id in hand; only the wipes
\* of the fact-check counts and of the peers change what is remembered about an id.
LEMMA HeldBefore ==
  ASSUME TypeInv, [Next]_vars, NEW r \in RingName, NEW s \in Slot, ring'[r][s].id \in Id
  PROVE  \/ ring'[r][s] = ring[r][s]
         \/ Store(r) /\ ring'[r][s] = [id |-> current, arg |-> found]
         \/ r \in Carrying /\ ring'[r][s] = [id |-> ring[r][s].id, arg |-> NoArg]
<1> DEFINE Goal == \/ ring'[r][s] = ring[r][s]
                   \/ Store(r) /\ ring'[r][s] = [id |-> current, arg |-> found]
                   \/ r \in Carrying /\ ring'[r][s] = [id |-> ring[r][s].id, arg |-> NoArg]
<1>1. ring[r] \in Ring /\ ring \in [RingName -> Ring]
  BY DEF TypeInv, TypeOK
<1>2. CASE ring' = ring
  BY <1>2
<1>3. ASSUME NEW q \in RingName, WipeRing(q)
      PROVE  Goal
  <2>1. ring'[r] \in {ring[r], Wiped(r, ring[r])}
    BY <1>1, <1>3 DEF WipeRing
  <2>2. Wiped(r, ring[r])[s].id = NoId
    BY <1>1, WipedRing
  <2> QED
    BY <2>1, <2>2, IdAssumption
<1>4. CASE WipePeers \/ WipeCounts
  <2>1. ring'[r] = ring[r] \/ (r \in Carrying /\ ring'[r] = WipeArgs(ring[r]))
    BY <1>1, <1>4 DEF WipePeers, WipeCounts, Carrying
  <2>2. WipeArgs(ring[r])[s] = [id |-> ring[r][s].id, arg |-> NoArg]
    BY <1>1, WipesAreRings
  <2> QED
    BY <2>1, <2>2
<1>5. ASSUME NEW q \in RingName, Store(q)
      PROVE  Goal
  <2>1. CASE q = r
    <3>1. current \in Id /\ found \in Arg \cup {NoArg} /\ Refreshes(r) \in BOOLEAN
      BY <1>5 DEF Store, TypeInv, TypeOK, InHand, Refreshes
    <3>2. ring'[r] = Track(ring[r], current, found, Refreshes(r))
      BY <1>1, <1>5, <2>1 DEF Store
    <3> HIDE DEF Goal
    <3>3. ring[r] \in Ring
      BY <1>1
    <3>4. Track(ring[r], current, found, Refreshes(r))[s]
             \in {ring[r][s], [id |-> current, arg |-> found]}
      BY <3>1, <3>3, TrackSlot
    <3>5. ring'[r][s] \in {ring[r][s], [id |-> current, arg |-> found]}
      BY <3>2, <3>4
    <3> USE DEF Goal
    <3> QED
      BY <1>5, <2>1, <3>5
  <2>2. CASE q # r
    BY <1>1, <1>5, <2>2 DEF Store
  <2> QED
    BY <2>1, <2>2
<1>6. ASSUME NEW q \in RingName, Take(q)
      PROVE  Goal
  <2>1. slot \in Slot
    BY <1>6 DEF Take, TypeInv, InHand
  <2>2. ring'[r] \in {ring[r], Free(ring[r], slot)}
    BY <1>1, <1>6 DEF Take
  <2>3. Free(ring[r], slot)[s] \in {ring[r][s], [id |-> NoId, arg |-> NoArg]}
    BY <1>1, <2>1, FreeSlot
  <2> QED
    BY <2>2, <2>3, IdAssumption
<1>7. CASE Next
  BY <1>2, <1>3, <1>4, <1>5, <1>6, <1>7
     DEF Next, Watcher, Engine, BeginReload, LoadFlag, LoadMode, ClearList, FillList,
         SwitchHook, SendPrepared, Gate, SendEnd, TryToReceive, PassBy, TakeAny, Match, Build,
         Decline, Dispatch
<1> QED
  BY <1>2, <1>7 DEF vars

\* What is about to be stored, taken or built stays entitled.
LEMMA HandEntitledStep ==
  ASSUME TypeInv, EntitledInv, [Next]_vars, NEW r \in RingName,
         phase' \in {"storing", "taking", "building"}, First(r)'
  PROVE  r \in entitled'[current']
<1>0. RingName \subseteq Rewriter
  BY DEF Rewriter
<1>1. CASE UNCHANGED <<current, todo>> /\ phase \in {"storing", "taking", "building"}
  <2>1. r \in entitled[current] /\ current \in Id \cup {NoId}
    BY <1>1 DEF EntitledInv, HandEntitled, First, TypeInv, TypeOK
  <2> QED
    BY <1>1, <2>1, EntitledGrows
<1>2. ASSUME NEW q \in RingName, Gate(q)
      PROVE  r \in entitled'[current']
  <2>1. todo' = todo /\ First(q) /\ current' = current
        /\ entitled' = [entitled EXCEPT ![current] = @ \cup {q}]
    BY <1>2 DEF Gate
  <2>2. r = q
    BY <1>0, <2>1, FirstUnique DEF First
  <2> QED
    BY <2>1, <2>2 DEF TypeInv, TypeOK
<1>3. ASSUME NEW q \in Rewriter, TakeAny(q)
      PROVE  r \in entitled'[current']
  <2>1. todo' = todo /\ First(q) /\ current' = current
        /\ entitled' = [entitled EXCEPT ![current] = @ \cup ({q} \cap RingName)]
    BY <1>3 DEF TakeAny
  <2>2. r = q
    BY <1>0, <2>1, FirstUnique DEF First
  <2> QED
    BY <2>1, <2>2 DEF TypeInv, TypeOK
<1>4. ASSUME NEW q \in RingName, Match(q)
      PROVE  r \in entitled'[current']
  <2>1. todo' = todo /\ First(q) /\ current' = current /\ entitled' = entitled
    BY <1>4 DEF Match
  <2>2. r = q
    BY <1>0, <2>1, FirstUnique DEF First
  <2>3. current \in Id /\ \E s \in Slot : ring[q][s].id = current
    BY <1>4 DEF Match, Tracked, Holds, TypeInv, TypeOK
  <2> QED
    BY <2>1, <2>2, <2>3 DEF EntitledInv, HeldEntitled
<1>5. ASSUME NEW q \in RingName, Take(q)
      PROVE  r \in entitled'[current']
  <2>1. phase = "taking" /\ UNCHANGED <<current, todo>>
    BY <1>5 DEF Take
  <2> QED
    BY <1>1, <2>1
<1>6. CASE UNCHANGED <<phase, current, todo>>
  BY <1>1, <1>6
<1>7. CASE Next
  BY <1>2, <1>3, <1>4, <1>5, <1>6, <1>7
     DEF Next, Watcher, Engine, BeginReload, LoadFlag, LoadMode, WipeRing, WipePeers,
         WipeCounts, ClearList, FillList, SwitchHook, SendPrepared, Store, SendEnd,
         TryToReceive, PassBy, Build, Decline, Dispatch
<1> QED
  BY <1>6, <1>7 DEF vars

\* The extras are at work on a page of saved gifts.
LEMMA ExtrasStep ==
  ASSUME TypeInv, EntitledInv, [Next]_vars, phase' = "building", First("extras")'
  PROVE  HasSavedGifts(current)'
<1>0. "extras" \in Rewriter /\ RingName \subseteq Rewriter /\ "extras" \notin RingName
  BY DEF Rewriter, RingName, ModeRing
<1>1. CASE UNCHANGED <<phase, current, todo>>
  <2>1. HasSavedGifts(current) /\ current \in Id \cup {NoId}
    BY <1>1 DEF EntitledInv, HandEntitled, First, TypeInv, TypeOK
  <2>2. HasSavedGifts(current)' <=> current # NoId /\ request'[current].kind = "savedGifts"
    BY <1>1 DEF HasSavedGifts
  <2>3. current # NoId /\ request'[current].kind = "savedGifts"
    BY <2>1, SavedGiftsKept DEF HasSavedGifts
  <2> QED
    BY <2>2, <2>3
<1>2. ASSUME NEW q \in Rewriter, TakeAny(q)
      PROVE  HasSavedGifts(current)'
  BY <1>2 DEF TakeAny, HasSavedGifts
<1>3. ASSUME NEW q \in RingName, Take(q)
      PROVE  FALSE
  <2>1. First(q) /\ todo' = todo
    BY <1>3 DEF Take
  <2> QED
    BY <1>0, <2>1, FirstUnique DEF First
<1>4. CASE Next
  BY <1>1, <1>2, <1>3, <1>4
     DEF Next, Watcher, Engine, BeginReload, LoadFlag, LoadMode, WipeRing, WipePeers,
         WipeCounts, ClearList, FillList, SwitchHook, SendPrepared, Gate, Store, SendEnd,
         TryToReceive, PassBy, Match, Build, Decline, Dispatch
<1> QED
  BY <1>1, <1>4 DEF vars

\* What a ring holds stays entitled.
LEMMA HeldEntitledStep ==
  ASSUME TypeInv, EntitledInv, [Next]_vars
  PROVE  HeldEntitled'
<1> SUFFICES ASSUME NEW r \in RingName, NEW s \in Slot, ring'[r][s].id \in Id
             PROVE  r \in entitled'[ring'[r][s].id]
  BY DEF HeldEntitled
<1>1. CASE ring'[r][s].id = ring[r][s].id
  BY <1>1, EntitledGrows DEF EntitledInv, HeldEntitled
<1>2. CASE Store(r) /\ ring'[r][s].id = current
  <2>1. r \in entitled[current] /\ current \in Id
    BY <1>2 DEF Store, EntitledInv, HandEntitled, TypeInv, InHand
  <2> QED
    BY <1>2, <2>1, EntitledGrows
<1>3. ring'[r][s].id = ring[r][s].id \/ (Store(r) /\ ring'[r][s].id = current)
  <2>1. \/ ring'[r][s] = ring[r][s]
        \/ Store(r) /\ ring'[r][s] = [id |-> current, arg |-> found]
        \/ r \in Carrying /\ ring'[r][s] = [id |-> ring[r][s].id, arg |-> NoArg]
    BY HeldBefore
  <2> QED
    BY <2>1
<1> QED
  BY <1>1, <1>2, <1>3

\* What was rewritten was entitled.
LEMMA RewriteEntitledStep ==
  ASSUME TypeInv, EntitledInv, [Next]_vars
  PROVE  OnlyEntitledRewrites'
<1> SUFFICES ASSUME NEW id \in Id \cup {NoId}, NEW w \in rewrites'[id]
             PROVE  /\ w.by = "extras" => HasSavedGifts(id)'
                    /\ w.by # "extras" => w.by \in entitled'[id]
  BY DEF OnlyEntitledRewrites
<1>1. CASE w \in rewrites[id]
  <2>1. w.by = "extras" => HasSavedGifts(id)
    BY <1>1 DEF EntitledInv, OnlyEntitledRewrites
  <2>2. w.by # "extras" => w.by \in entitled[id]
    BY <1>1 DEF EntitledInv, OnlyEntitledRewrites
  <2> QED
    BY <2>1, <2>2, EntitledGrows, SavedGiftsKept
<1>2. CASE w \notin rewrites[id]
  <2>1. PICK r \in Rewriter : Build(r)
    BY <1>2 DEF Next, vars, Watcher, Engine, BeginReload, LoadFlag, LoadMode, WipeRing,
                WipePeers, WipeCounts, ClearList, FillList, SwitchHook, SendPrepared, Gate,
                Store, SendEnd, TryToReceive, PassBy, TakeAny, Match, Take, Decline, Dispatch
  <2>2. id = current /\ w.by = r
    BY <1>2, <2>1 DEF Build, TypeInv, TypeOK
  <2>3. phase = "building" /\ First(r) /\ entitled' = entitled
    BY <2>1 DEF Build
  <2>4. r # "extras" => r \in RingName
    BY DEF Rewriter
  <2>5. r = "extras" => HasSavedGifts(current)
    BY <2>3 DEF EntitledInv, HandEntitled
  <2> QED
    BY <2>2, <2>3, <2>4, <2>5, SavedGiftsKept DEF EntitledInv, HandEntitled
<1> QED
  BY <1>1, <1>2

\* Only a reply that a gate let through is ever rewritten, and by the extras only a
\* page of saved gifts.
THEOREM OnlyEntitledRewrites_Always == Spec => []OnlyEntitledRewrites
<1>1. Init => EntitledInv
  BY IdAssumption
     DEF Init, EntitledInv, HeldEntitled, HandEntitled, OnlyEntitledRewrites, BlankRing
<1>2. TypeInv /\ EntitledInv /\ [Next]_vars => EntitledInv'
  BY HandEntitledStep, ExtrasStep, HeldEntitledStep, RewriteEntitledStep
     DEF EntitledInv, HandEntitled
<1>3. EntitledInv => OnlyEntitledRewrites
  BY DEF EntitledInv
<1> QED
  BY <1>1, <1>2, <1>3, AlwaysTypeInv, PTL DEF Spec

----------------------------------------------------------------------------

\* What a transfer may be said to reach: its peer, as a user if the type is lost,
\* or no one.
Named(id) == {request[id].what, Untyped(request[id].what), NoArg}

\* Their slots, the slot about to be emptied and the argument in hand are those of
\* the request.
HeldOwn ==
  \A r \in Carrying, s \in Slot :
     LET e == ring[r][s]
     IN e.id \in Id => request[e.id] \in Requests /\ e.arg \in {request[e.id].what, NoArg}

TakingOwn ==
  phase = "taking" /\ First("transfer") => ring["transfer"][slot].arg \in Named(current)

HandOwn ==
  /\ \A r \in Carrying : phase = "storing" /\ First(r) => found = request[current].what
  /\ phase = "building" /\ First("transfer") => found \in Named(current)

RewrittenOwn ==
  \A id \in Id : \A w \in rewrites[id] :
     w.by = "transfer" => request[id] \in Requests /\ w.says \in Named(id)

OwnInv == HeldOwn /\ TakingOwn /\ HandOwn /\ RewrittenOwn

\* The set does not change.
LEMMA NamedKept ==
  ASSUME TypeInv, [Next]_vars, NEW id \in Id, request[id] \in Requests
  PROVE  Named(id)' = Named(id)
BY RequestKept DEF Named, Untyped

\* To lose a type does not lead out of it.
LEMMA NamedUntyped ==
  ASSUME NEW id, NEW arg \in Named(id), request[id] \in Requests
  PROVE  Untyped(arg) \in Named(id)
<1>1. request[id].what \in Arg \cup {NoArg}
  BY RequestsAssumption, ArgAssumption DEF Request, What
<1> QED
  BY <1>1, UntypedArg DEF Named

\* A slot keeps an argument of its own request.
LEMMA HeldOwnStep ==
  ASSUME TypeInv, OwnInv, [Next]_vars
  PROVE  HeldOwn'
<1> SUFFICES ASSUME NEW r \in Carrying, NEW s \in Slot, ring'[r][s].id \in Id
             PROVE  /\ request'[ring'[r][s].id] \in Requests
                    /\ ring'[r][s].arg \in {request'[ring'[r][s].id].what, NoArg}
  BY DEF HeldOwn
<1>1. r \in RingName
  BY DEF Carrying, RingName
<1>2. CASE ring'[r][s] = ring[r][s]
  BY <1>2, RequestKept DEF OwnInv, HeldOwn
<1>3. CASE Store(r) /\ ring'[r][s] = [id |-> current, arg |-> found]
  <2>1. current \in Id /\ request[current] \in Requests
    BY <1>3, IdAssumption DEF Store, TypeInv, InHand
  <2>2. found = request[current].what
    BY <1>3 DEF Store, OwnInv, HandOwn
  <2> QED
    BY <1>3, <2>1, <2>2, RequestKept
<1>4. CASE ring'[r][s] = [id |-> ring[r][s].id, arg |-> NoArg]
  BY <1>4, RequestKept DEF OwnInv, HeldOwn
<1> QED
  BY <1>1, <1>2, <1>3, <1>4, HeldBefore

\* So does the slot a take has matched, whatever is wiped meanwhile.
LEMMA TakingOwnStep ==
  ASSUME TypeInv, OwnInv, [Next]_vars
  PROVE  TakingOwn'
<1> DEFINE r == "transfer"
<1> SUFFICES ASSUME phase' = "taking", First(r)'
             PROVE  ring'[r][slot'].arg \in Named(current)'
  BY DEF TakingOwn
<1>1. /\ r \in RingName /\ r \in Rewriter /\ r \in Carrying
      /\ ring \in [RingName -> Ring] /\ ring[r] \in Ring
  BY DEF TypeInv, TypeOK, Carrying, Rewriter, RingName
<1>2. ASSUME NEW q \in RingName, Match(q)
      PROVE  ring'[r][slot'].arg \in Named(current)'
  <2>1. /\ First(q) /\ todo' = todo /\ ring' = ring /\ current' = current
        /\ slot' = SlotOf(ring[q], current) /\ current \in Id /\ Holds(ring[q], current)
    BY <1>2 DEF Match, Tracked, TypeInv, TypeOK
  <2>2. q = r
    BY <1>1, <2>1, FirstUnique DEF First, Rewriter
  <2>3. slot' \in Slot /\ ring[r][slot'].id = current
    BY <1>1, <2>1, <2>2, SlotOfHeld
  <2>4. request[current] \in Requests /\ ring[r][slot'].arg \in {request[current].what, NoArg}
    BY <1>1, <2>1, <2>3 DEF OwnInv, HeldOwn
  <2>5. Named(current)' = Named(current)
    BY <2>1, <2>4, NamedKept DEF Named
  <2> QED
    BY <2>1, <2>4, <2>5 DEF Named
<1>3. CASE UNCHANGED <<phase, current, todo, slot>>
  <2>1. /\ slot \in Slot /\ current \in Id /\ request[current] \in Requests
        /\ ring[r][slot].arg \in Named(current)
    BY <1>3, IdAssumption DEF TypeInv, InHand, OwnInv, TakingOwn, First
  <2>2. Named(current)' = Named(current)
    BY <1>3, <2>1, NamedKept DEF Named
  <2>3. CASE ring'[r] = ring[r]
    BY <1>3, <2>1, <2>2, <2>3
  <2>4. CASE ring'[r] = Wiped(r, ring[r])
    <3>1. ring'[r][slot].arg = Untyped(ring[r][slot].arg)
      BY <1>1, <2>1, <2>4, WipedRing
    <3> QED
      BY <1>3, <2>1, <2>2, <3>1, NamedUntyped
  <2>5. CASE ring'[r] = WipeArgs(ring[r])
    <3>1. WipeArgs(ring[r])[slot] = [id |-> ring[r][slot].id, arg |-> NoArg]
      BY <1>1, <2>1, WipesAreRings
    <3>2. ring'[r][slot].arg = NoArg
      BY <2>5, <3>1
    <3> QED
      BY <1>3, <2>2, <3>2 DEF Named
  <2>6. ring' = ring \/ ring'[r] \in {ring[r], Wiped(r, ring[r]), WipeArgs(ring[r])}
    <3>1. ASSUME NEW q \in RingName, WipeRing(q)
          PROVE  ring'[r] \in {ring[r], Wiped(r, ring[r])}
      BY <1>1, <3>1 DEF WipeRing
    <3>2. CASE WipePeers \/ WipeCounts
      BY <1>1, <3>2 DEF WipePeers, WipeCounts
    <3>3. CASE \E q \in RingName : Store(q) \/ Take(q)
      BY <1>3, <3>3 DEF Store, Take
    <3>4. CASE Next
      BY <3>1, <3>2, <3>3, <3>4
         DEF Next, Watcher, Engine, BeginReload, LoadFlag, LoadMode, ClearList, FillList,
             SwitchHook, SendPrepared, Gate, SendEnd, TryToReceive, PassBy, TakeAny, Match,
             Build, Decline, Dispatch
    <3> QED
      BY <3>4 DEF vars
  <2> QED
    BY <2>3, <2>4, <2>5, <2>6
<1>4. CASE Next
  BY <1>2, <1>3, <1>4
     DEF Next, Watcher, Engine, BeginReload, LoadFlag, LoadMode, WipeRing, WipePeers,
         WipeCounts, ClearList, FillList, SwitchHook, SendPrepared, Gate, Store, SendEnd,
         TryToReceive, PassBy, TakeAny, Take, Build, Decline, Dispatch
<1> QED
  BY <1>3, <1>4 DEF vars

\* So does what is about to be stored,
LEMMA StoringOwnStep ==
  ASSUME TypeInv, OwnInv, [Next]_vars, NEW r \in Carrying, phase' = "storing", First(r)'
  PROVE  found' = request'[current'].what
<1>1. r \in RingName /\ RingName \subseteq Rewriter
  BY DEF Carrying, RingName, Rewriter
<1>2. CASE UNCHANGED <<phase, current, todo, found>>
  <2>1. found = request[current].what
    BY <1>2 DEF OwnInv, HandOwn, First
  <2>2. current \in Id /\ request[current] \in Requests
    BY <1>2, IdAssumption DEF TypeInv, InHand
  <2> QED
    BY <1>2, <2>1, <2>2, RequestKept
<1>3. ASSUME NEW q \in RingName, Gate(q)
      PROVE  found' = request'[current'].what
  <2>1. CASE TrackGate(q, request[current])
    <3>1. todo' = todo /\ First(q) /\ current' = current /\ request' = request
          /\ found' = TrackArg(q, request[current])
      BY <1>3, <2>1 DEF Gate
    <3>2. r = q
      BY <1>1, <3>1, FirstUnique DEF First
    <3> QED
      BY <3>1, <3>2 DEF TrackArg, Carrying
  <2>2. CASE ~TrackGate(q, request[current])
    BY <1>3, <2>2 DEF Gate
  <2> QED
    BY <2>1, <2>2
<1>4. CASE Next
  BY <1>2, <1>3, <1>4
     DEF Next, Watcher, Engine, BeginReload, LoadFlag, LoadMode, WipeRing, WipePeers,
         WipeCounts, ClearList, FillList, SwitchHook, SendPrepared, Store, SendEnd,
         TryToReceive, PassBy, TakeAny, Match, Take, Build, Decline, Dispatch
<1> QED
  BY <1>2, <1>4 DEF vars

\* what a transfer is built from,
LEMMA BuildingOwnStep ==
  ASSUME TypeInv, OwnInv, [Next]_vars, phase' = "building", First("transfer")'
  PROVE  found' \in Named(current)'
<1> DEFINE r == "transfer"
<1>1. /\ r \in RingName /\ r \in Rewriter /\ RingName \subseteq Rewriter
      /\ r \notin ModeRing /\ r # "extras"
  BY DEF RingName, ModeRing, Rewriter
<1>2. CASE UNCHANGED <<phase, current, todo, found>>
  <2>1. found \in Named(current) /\ current \in Id /\ request[current] \in Requests
    BY <1>2, IdAssumption DEF OwnInv, HandOwn, First, TypeInv, InHand
  <2>2. Named(current)' = Named(current)
    BY <1>2, <2>1, NamedKept DEF Named
  <2> QED
    BY <1>2, <2>1, <2>2
<1>3. ASSUME NEW q \in Rewriter, TakeAny(q)
      PROVE  FALSE
  <2>1. todo' = todo /\ First(q) /\ q \in ModeRing \cup {"extras"}
    BY <1>3 DEF TakeAny, Untargeted
  <2> QED
    BY <1>1, <2>1, FirstUnique DEF First
<1>4. ASSUME NEW q \in RingName, Take(q)
      PROVE  found' \in Named(current)'
  <2>1. /\ phase = "taking" /\ todo' = todo /\ First(q) /\ UNCHANGED <<current, request>>
        /\ found' = ring[q][slot].arg
    BY <1>4 DEF Take
  <2>2. r = q
    BY <1>1, <2>1, FirstUnique DEF First
  <2>3. ring[r][slot].arg \in Named(current)
    BY <2>1, <2>2 DEF OwnInv, TakingOwn
  <2>4. Named(current)' = Named(current)
    BY <2>1 DEF Named, Untyped
  <2> QED
    BY <2>1, <2>2, <2>3, <2>4
<1>5. CASE Next
  BY <1>2, <1>3, <1>4, <1>5
     DEF Next, Watcher, Engine, BeginReload, LoadFlag, LoadMode, WipeRing, WipePeers,
         WipeCounts, ClearList, FillList, SwitchHook, SendPrepared, Gate, Store, SendEnd,
         TryToReceive, PassBy, Match, Build, Decline, Dispatch
<1> QED
  BY <1>2, <1>5 DEF vars

\* and what a reply was rewritten to say.
LEMMA RewrittenOwnStep ==
  ASSUME TypeInv, OwnInv, [Next]_vars
  PROVE  RewrittenOwn'
<1> SUFFICES ASSUME NEW id \in Id, NEW w \in rewrites'[id], w.by = "transfer"
             PROVE  request'[id] \in Requests /\ w.says \in Named(id)'
  BY DEF RewrittenOwn
<1>1. CASE w \in rewrites[id]
  <2>1. request[id] \in Requests /\ w.says \in Named(id)
    BY <1>1 DEF OwnInv, RewrittenOwn
  <2> QED
    BY <2>1, RequestKept, NamedKept
<1>2. CASE w \notin rewrites[id]
  <2>1. PICK r \in Rewriter : Build(r)
    BY <1>2 DEF Next, vars, Watcher, Engine, BeginReload, LoadFlag, LoadMode, WipeRing,
                WipePeers, WipeCounts, ClearList, FillList, SwitchHook, SendPrepared, Gate,
                Store, SendEnd, TryToReceive, PassBy, TakeAny, Match, Take, Decline, Dispatch
  <2>2. id = current /\ w = [by |-> r, says |-> Says(r, found)] /\ request' = request
    BY <1>2, <2>1 DEF Build, TypeInv, TypeOK
  <2>3. r = "transfer" /\ w.says = found
    BY <2>2 DEF Says
  <2>4. found \in Named(current) /\ request[current] \in Requests
    BY <2>1, <2>2, <2>3, IdAssumption DEF Build, OwnInv, HandOwn, TypeInv, InHand
  <2> QED
    BY <2>2, <2>3, <2>4, NamedKept
<1> QED
  BY <1>1, <1>2

\* The arguments are always those of the own request.
LEMMA AlwaysOwnInv == Spec => []OwnInv
<1>1. Init => OwnInv
  BY IdAssumption
     DEF Init, OwnInv, HeldOwn, TakingOwn, HandOwn, RewrittenOwn, BlankRing, Carrying, RingName
<1>2. TypeInv /\ OwnInv /\ [Next]_vars => OwnInv'
  BY HeldOwnStep, TakingOwnStep, StoringOwnStep, BuildingOwnStep, RewrittenOwnStep
     DEF OwnInv, HandOwn
<1> QED
  BY <1>1, <1>2, AlwaysTypeInv, PTL DEF Spec

\* A fabricated transfer names the recipient of its own request or, if a reload
\* wipes the slot while it is read, a user with the number of that recipient or
\* nobody: never the recipient of another request.
THEOREM TransferNamesNoOther_Always == Spec => []TransferNamesNoOther
<1>1. OwnInv => TransferNamesNoOther
  BY DEF OwnInv, RewrittenOwn, Named, TransferNamesNoOther
<1> QED
  BY <1>1, AlwaysOwnInv, PTL

\* A fact-check slot carries the count of its own request, or none.
THEOREM FactCountIsOwn_Always == Spec => []FactCountIsOwn
<1>1. TypeInv /\ OwnInv => FactCountIsOwn
  <2> SUFFICES ASSUME TypeInv, OwnInv, NEW s \in Slot, ring["fact"][s].id # NoId
               PROVE  ring["fact"][s].arg \in {request[ring["fact"][s].id].what, NoArg}
    BY DEF FactCountIsOwn
  <2>1. ring["fact"] \in Ring
    BY DEF TypeInv, TypeOK, RingName
  <2>2. ring["fact"][s].id \in Id
    BY <2>1, RingEntry
  <2> QED
    BY <2>2 DEF OwnInv, HeldOwn, Carrying
<1> QED
  BY <1>1, AlwaysTypeInv, AlwaysOwnInv, PTL

----------------------------------------------------------------------------

\* The slot a take has matched holds the id of the reply, or no id any more.
Matched ==
  phase = "taking" =>
     \A r \in RingName : First(r) => ring[r][slot].id \in {current, NoId}

\* Nothing stores there before the take does.
LEMMA MatchedStep ==
  ASSUME TypeInv, Matched, [Next]_vars
  PROVE  Matched'
<1> SUFFICES ASSUME phase' = "taking", NEW r \in RingName, First(r)'
             PROVE  ring'[r][slot'].id \in {current', NoId}
  BY DEF Matched
<1>1. r \in Rewriter /\ RingName \subseteq Rewriter /\ ring[r] \in Ring /\ ring'[r] \in Ring
  BY NextType DEF TypeInv, TypeOK, Rewriter
<1>2. ASSUME NEW q \in RingName, Match(q)
      PROVE  ring'[r][slot'].id \in {current', NoId}
  <2>1. /\ First(q) /\ todo' = todo /\ ring' = ring /\ current' = current
        /\ slot' = SlotOf(ring[q], current) /\ current \in Id /\ Holds(ring[q], current)
    BY <1>2 DEF Match, Tracked, TypeInv, TypeOK
  <2>2. q = r
    BY <1>1, <2>1, FirstUnique DEF First
  <2> QED
    BY <1>1, <2>1, <2>2, SlotOfHeld
<1>3. CASE UNCHANGED <<phase, current, todo, slot>>
  <2>1. slot \in Slot /\ ring[r][slot].id \in {current, NoId} /\ ~Store(r)
    BY <1>3 DEF TypeInv, InHand, Matched, First, Store
  <2>2. CASE ring'[r][slot].id \in Id
    <3>1. \/ ring'[r][slot] = ring[r][slot]
          \/ ring'[r][slot] = [id |-> ring[r][slot].id, arg |-> NoArg]
      BY <2>1, <2>2, HeldBefore
    <3> QED
      BY <1>3, <2>1, <3>1
  <2>3. CASE ring'[r][slot].id \notin Id
    BY <1>1, <1>3, <2>1, <2>3, RingEntry
  <2> QED
    BY <2>2, <2>3
<1>4. CASE Next
  BY <1>2, <1>3, <1>4
     DEF Next, Watcher, Engine, BeginReload, LoadFlag, LoadMode, WipeRing, WipePeers,
         WipeCounts, ClearList, FillList, SwitchHook, SendPrepared, Gate, Store, SendEnd,
         TryToReceive, PassBy, TakeAny, Take, Build, Decline, Dispatch
<1> QED
  BY <1>3, <1>4 DEF vars

LEMMA AlwaysMatched == Spec => []Matched
<1>1. Init => Matched
  BY DEF Init, Matched
<1>2. TypeInv /\ Matched /\ [Next]_vars => Matched'
  BY MatchedStep
<1> QED
  BY <1>1, <1>2, AlwaysTypeInv, PTL DEF Spec

\* A step that empties a slot of an id has one of the three reasons.
LEMMA ForgottenStep ==
  ASSUME TypeInv, Matched, [Next]_vars, NEW r \in RingName, NEW id \in Id,
         Holds(ring[r], id), ~Holds(ring'[r], id)
  PROVE  Reason(r, id)
<1>1. ring[r] \in Ring /\ ring \in [RingName -> Ring]
  BY DEF TypeInv, TypeOK
<1>2. ring'[r] # ring[r]
  OBVIOUS
<1>3. ASSUME NEW q \in RingName, WipeRing(q)
      PROVE  Reason(r, id)
  <2>1. q = r /\ Closed(q)
    BY <1>1, <1>2, <1>3 DEF WipeRing
  <2> QED
    BY <1>3, <2>1 DEF WipeRing, Reason
<1>4. CASE WipePeers \/ WipeCounts
  <2>1. ring'[r] = WipeArgs(ring[r])
    BY <1>1, <1>2, <1>4 DEF WipePeers, WipeCounts
  <2>2. \A s \in Slot : WipeArgs(ring[r])[s].id = ring[r][s].id
    BY <1>1, RingEntry DEF WipeArgs, Entry
  <2> QED
    BY <2>1, <2>2 DEF Holds
<1>5. ASSUME NEW q \in RingName, Store(q)
      PROVE  Reason(r, id)
  <2>1. q = r
    BY <1>1, <1>2, <1>5 DEF Store
  <2>2. current \in Id /\ found \in Arg \cup {NoArg} /\ Refreshes(r) \in BOOLEAN
    BY <1>5 DEF Store, TypeInv, TypeOK, InHand, Refreshes
  <2>3. ring'[r] = Track(ring[r], current, found, Refreshes(r))
    BY <1>1, <1>5, <2>1 DEF Store
  <2>4. IsFull(ring[r]) /\ ring[r][1].id = id
    BY <1>1, <2>2, <2>3, TrackKeeps
  <2> QED
    BY <1>5, <2>1, <2>4 DEF Store, Reason
<1>6. ASSUME NEW q \in RingName, Take(q)
      PROVE  Reason(r, id)
  <2>1. /\ q = r /\ phase = "taking" /\ First(r) /\ slot \in Slot
        /\ ring'[r] = Free(ring[r], slot)
    BY <1>1, <1>2, <1>6 DEF Take, TypeInv, InHand
  <2>2. PICK s \in Slot : ring[r][s].id = id
    BY DEF Holds
  <2>3. ring'[r][s].id # id
    BY DEF Holds
  <2>4. ring'[r][s] # ring[r][s]
    BY <2>2, <2>3
  <2>5. s = slot
    BY <1>1, <2>1, <2>4, FreeSlot
  <2>6. current = id
    BY <2>1, <2>2, <2>5, IdAssumption DEF Matched
  <2> QED
    BY <2>1, <2>6 DEF Reason
<1>7. CASE Next
  BY <1>2, <1>3, <1>4, <1>5, <1>6, <1>7
     DEF Next, Watcher, Engine, BeginReload, LoadFlag, LoadMode, ClearList, FillList,
         SwitchHook, SendPrepared, Gate, SendEnd, TryToReceive, PassBy, TakeAny, Match, Build,
         Decline, Dispatch
<1> QED
  BY <1>2, <1>7 DEF vars

\* No noted request is lost for any other reason.
THEOREM ForgottenForAReason_Always == Spec => ForgottenForAReason
<1>1. TypeInv /\ Matched /\ [Next]_vars =>
        [\A r \in RingName, id \in Id :
           Holds(ring[r], id) /\ ~Holds(ring[r], id)' => Reason(r, id)]_vars
  <2> SUFFICES ASSUME TypeInv, Matched, [Next]_vars, NEW r \in RingName, NEW id \in Id,
                      Holds(ring[r], id), ~Holds(ring[r], id)'
               PROVE  Reason(r, id)
    OBVIOUS
  <2>1. ~Holds(ring'[r], id)
    OBVIOUS
  <2> QED
    BY <2>1, ForgottenStep
<1> QED
  BY <1>1, AlwaysTypeInv, AlwaysMatched, PTL DEF Spec, ForgottenForAReason

----------------------------------------------------------------------------

\* The rings a reload may close.
Closable == {"spoof", "unique", "transfer", "fragment", "fact", "names", "coll"}

\* Where the program wipes each of them.
LEMMA WipePositions ==
  /\ Position("wipe", "spoof") = 4 /\ Position("wipe", "unique") = 7
  /\ Position("wipe", "transfer") = 9 /\ Position("wipe", "fragment") = 12
  /\ Position("wipe", "fact") = 14 /\ Position("wipe", "names") = 19
  /\ Position("wipe", "coll") = 20
<1>1. \A k \in DOMAIN Program :
        /\ Program[k] = <<"wipe", "spoof">> <=> k = 4
        /\ Program[k] = <<"wipe", "unique">> <=> k = 7
        /\ Program[k] = <<"wipe", "transfer">> <=> k = 9
        /\ Program[k] = <<"wipe", "fragment">> <=> k = 12
        /\ Program[k] = <<"wipe", "fact">> <=> k = 14
        /\ Program[k] = <<"wipe", "names">> <=> k = 19
        /\ Program[k] = <<"wipe", "coll">> <=> k = 20
  BY DEF Program
<1>2. DOMAIN Program = 1 .. 21
  BY DEF Program
<1>3. \A k \in {4, 7, 9, 12, 14, 19, 20} : k \in DOMAIN Program
  BY <1>2
<1> QED
  BY <1>1, <1>3 DEF Position

LEMMA WipePlace ==
  ASSUME NEW r \in Closable
  PROVE  /\ Position("wipe", r) \in 1 .. 21
         /\ Program[Position("wipe", r)] = <<"wipe", r>>
BY WipePositions DEF Closable, Program

\* When everything is in scope, a reload does not get past a wipe without it.
LEMMA NoWipeSkipped ==
  ASSUME RingName \subseteq Scope, TypeOK, NEW r \in Closable, Advance,
         pc < Position("wipe", r)
  PROVE  pc' \in Nat /\ pc' # 0 /\ pc' <= Position("wipe", r)
<1>1. /\ Position("wipe", r) \in 1 .. Len(Program)
      /\ Program[Position("wipe", r)][2] \in Scope
  BY WipePlace, ProgramLength DEF Closable, RingName, ModeRing
<1>2. Position("wipe", r) \in Steps
  BY <1>1 DEF Steps
<1>3. pc \in Nat /\ pc' \in Nat /\ Position("wipe", r) \in Nat
  BY <1>1, AdvanceType, ProgramLength DEF TypeOK
<1> QED
  BY <1>2, <1>3 DEF Advance

\* Where the program loads what decides whether a ring is closed.
LEMMA LoadPlaces ==
  ASSUME pc \in 0 .. Len(Program)
  PROVE  /\ AtStep("flag", "transfer") => pc = 8
         /\ AtStep("flag", "phone") => pc = 11
         /\ AtStep("flag", "fact") => pc = 13
         /\ AtStep("flag", "names") => pc = 16
         /\ AtStep("mode", "spoof") => pc = 3
         /\ AtStep("mode", "unique") => pc = 6
         /\ AtStep("clear", "names") => pc = 17
         /\ AtStep("fill", "names") => pc = 18
BY ProgramLength DEF AtStep, Program

\* A ring a reload has closed, and wiped.
Quiet(r) == Closed(r) /\ (pc = 0 \/ pc > Position("wipe", r))

\* After its wipe nothing in the reload decides about a ring any more.
LEMMA ClosedBefore ==
  ASSUME TypeInv, NEW r \in Closable, pc > Position("wipe", r),
         (\E f \in Flag : LoadFlag(f)) \/ (\E q \in ModeRing : LoadMode(q)) \/ ClearList \/ FillList
  PROVE  Closed(r)' <=> Closed(r)
<1>1. /\ pc \in 0 .. Len(Program) /\ live \in Config /\ live.on \in SUBSET Flag
      /\ live.mode \in [ModeRing -> Mode]
  BY DEF TypeInv, TypeOK, Config
<1>2. ASSUME NEW f \in Flag, LoadFlag(f)
      PROVE  Closed(r)' <=> Closed(r)
  <2>1. AtStep("flag", f)
    BY <1>2 DEF LoadFlag
  <2>2. live'.mode = live.mode /\ live'.list = live.list
        /\ \A g \in Flag : g # f => (g \in live'.on <=> g \in live.on)
    BY <1>1, <1>2 DEF LoadFlag, Config
  <2>3. /\ r = "transfer" => f # "transfer"
        /\ r = "fragment" => f # "phone"
        /\ r = "fact" => f # "fact"
        /\ r \in {"names", "coll"} => f # "names"
    BY <1>1, <2>1, LoadPlaces, WipePositions
  <2> QED
    BY <2>2, <2>3 DEF Closed, Flag, Closable, ModeRing
<1>3. ASSUME NEW q \in ModeRing, LoadMode(q)
      PROVE  Closed(r)' <=> Closed(r)
  <2>1. AtStep("mode", q)
    BY <1>3 DEF LoadMode
  <2>2. live'.on = live.on /\ live'.list = live.list
        /\ \A p \in ModeRing : p # q => live'.mode[p] = live.mode[p]
    BY <1>1, <1>3 DEF LoadMode, Config
  <2>3. r # q
    BY <1>1, <2>1, LoadPlaces, WipePositions DEF ModeRing
  <2> QED
    BY <2>2, <2>3 DEF Closed
<1>4. ASSUME ClearList \/ FillList
      PROVE  Closed(r)' <=> Closed(r)
  <2>1. AtStep("clear", "names") \/ AtStep("fill", "names")
    BY <1>4 DEF ClearList, FillList
  <2>2. live'.on = live.on /\ live'.mode = live.mode
    BY <1>1, <1>4 DEF ClearList, FillList, Config
  <2>3. r \notin {"names", "coll"}
    BY <1>1, <2>1, LoadPlaces, WipePositions
  <2> QED
    BY <2>2, <2>3 DEF Closed
<1> QED
  BY <1>2, <1>3, <1>4

\* A ring becomes quiet by its wipe only.
LEMMA QuietBefore ==
  ASSUME RingName \subseteq Scope, TypeInv, [Next]_vars, NEW r \in Closable, Quiet(r)'
  PROVE  Quiet(r) \/ (WipeRing(r) /\ Closed(r))
<1>1. /\ Position("wipe", r)' = Position("wipe", r) /\ Position("wipe", r) \in 1 .. 21
      /\ pc \in 0 .. 21 /\ TypeOK
  BY WipePlace, ProgramLength DEF TypeInv, TypeOK, Position, Program
<1>2. CASE UNCHANGED <<live, pc>>
  BY <1>1, <1>2 DEF Quiet, Closed
<1>3. ASSUME Watcher PROVE Quiet(r) \/ (WipeRing(r) /\ Closed(r))
  <2>1. Advance \/ (pc' = pc /\ FillList)
    BY <1>3 DEF Watcher, BeginReload, LoadFlag, LoadMode, WipeRing, WipePeers, WipeCounts,
                ClearList, FillList, SwitchHook
  <2>2. CASE pc < Position("wipe", r)
    <3>1. CASE Advance
      BY <1>1, <2>2, <3>1, NoWipeSkipped DEF Quiet
    <3>2. CASE pc' = pc /\ FillList
      <4>1. pc # 0 /\ pc' = pc
        BY <3>2 DEF FillList, AtStep
      <4> QED
        BY <1>1, <2>2, <4>1 DEF Quiet
    <3> QED
      BY <2>1, <3>1, <3>2
  <2>3. CASE pc = Position("wipe", r)
    <3>1. Program[pc] = <<"wipe", r>>
      BY <2>3, WipePlace
    <3>2. WipeRing(r)
      BY <1>1, <1>3, <2>3, <3>1
      DEF Watcher, BeginReload, LoadFlag, LoadMode, WipeRing, WipePeers, WipeCounts, ClearList,
          FillList, SwitchHook, AtStep
    <3>3. live' = live
      BY <3>2 DEF WipeRing
    <3> QED
      BY <3>2, <3>3 DEF Quiet, Closed
  <2>4. CASE pc > Position("wipe", r)
    <3>1. CASE UNCHANGED live
      BY <2>4, <3>1 DEF Quiet, Closed
    <3>2. CASE \/ \E f \in Flag : LoadFlag(f)
               \/ \E q \in ModeRing : LoadMode(q)
               \/ ClearList \/ FillList
      BY <2>4, <3>2, ClosedBefore DEF Quiet
    <3> QED
      BY <1>3, <3>1, <3>2 DEF Watcher, BeginReload, WipeRing, WipePeers, WipeCounts, SwitchHook
  <2> QED
    BY <1>1, <2>2, <2>3, <2>4
<1>4. CASE Engine
  BY <1>2, <1>4 DEF Engine, SendPrepared, Gate, Store, SendEnd, TryToReceive, PassBy, TakeAny,
                    Match, Take, Build, Decline, Dispatch
<1> QED
  BY <1>2, <1>3, <1>4 DEF Next, vars

\* A quiet ring is empty, or holds the one request whose store came late; then
\* no other store is on its way.
Empty(r) == \A s \in Slot : ring[r][s].id = NoId
AtMostOne(r) == \A s, t \in Slot : ring[r][s].id # NoId /\ ring[r][t].id # NoId => s = t
Storing(r) == phase = "storing" /\ First(r)

ClosedInv == \A r \in Closable : Quiet(r) => Empty(r) \/ (AtMostOne(r) /\ ~Storing(r))

\* The gate of a closed ring is shut.
LEMMA ClosedGate ==
  ASSUME NEW r \in Closable, Closed(r), NEW req
  PROVE  ~TrackGate(r, req)
<1>1. CASE r \in ModeRing
  BY <1>1 DEF Closed, TrackGate, Matches, ModeRing
<1>2. CASE r \notin ModeRing
  BY <1>2 DEF Closed, Closable, TrackGate, Enabled, Needs, RingName, ModeRing
<1> QED
  BY <1>1, <1>2

\* Nobody starts to store into a closed ring.
LEMMA StoringBefore ==
  ASSUME TypeInv, [Next]_vars, NEW r \in Closable, Closed(r), Storing(r)'
  PROVE  Storing(r)
<1>1. ASSUME NEW q \in RingName, Gate(q) PROVE FALSE
  <2>1. phase' = "storing" /\ todo' = todo /\ First(q) /\ TrackGate(q, request[current])
    BY <1>1 DEF Gate, Storing
  <2>2. First(r) /\ r \in Rewriter /\ q \in Rewriter
    BY <2>1 DEF Storing, First, Closable, Rewriter, RingName, ModeRing
  <2>3. q = r
    BY <2>1, <2>2, FirstUnique
  <2> QED
    BY <2>1, <2>3, ClosedGate
<1>2. CASE UNCHANGED <<phase, todo>>
  BY <1>2 DEF Storing, First
<1>3. CASE Watcher
  BY <1>2, <1>3 DEF Watcher, BeginReload, LoadFlag, LoadMode, WipeRing, WipePeers, WipeCounts,
                    ClearList, FillList, SwitchHook
<1>4. ASSUME Engine, ~ \E q \in RingName : Gate(q)
      PROVE  phase' # "storing"
  BY <1>4 DEF Engine, SendPrepared, Store, SendEnd, TryToReceive, PassBy, TakeAny, Match, Take,
              Build, Decline, Dispatch
<1>5. CASE Engine
  BY <1>1, <1>4, <1>5 DEF Storing
<1>6. CASE UNCHANGED vars
  BY <1>2, <1>6 DEF vars
<1> QED
  BY <1>3, <1>5, <1>6 DEF Next

\* A step leaves closed rings as they should be.
LEMMA ClosedStep ==
  ASSUME RingName \subseteq Scope, TypeInv, ClosedInv, [Next]_vars
  PROVE  ClosedInv'
<1> SUFFICES ASSUME NEW r \in Closable, Quiet(r)'
             PROVE  Empty(r)' \/ (AtMostOne(r)' /\ ~Storing(r)')
  BY DEF ClosedInv
<1>1. r \in RingName /\ ring \in [RingName -> Ring] /\ ring[r] \in Ring /\ ring'[r] \in Ring
  BY NextType DEF TypeInv, TypeOK, Closable, RingName, ModeRing
<1>2. CASE WipeRing(r) /\ Closed(r)
  <2>1. ring'[r] = Wiped(r, ring[r])
    BY <1>1, <1>2 DEF WipeRing
  <2>2. \A s \in Slot : Wiped(r, ring[r])[s].id = NoId
    BY <1>1, WipedRing
  <2> QED
    BY <2>1, <2>2 DEF Empty
<1>3. CASE Quiet(r) /\ ~Store(r)
  <2>1. \A s \in Slot : ring'[r][s].id # NoId => ring[r][s].id = ring'[r][s].id
    <3> SUFFICES ASSUME NEW s \in Slot, ring'[r][s].id # NoId
                 PROVE  ring[r][s].id = ring'[r][s].id
      OBVIOUS
    <3>1. ring'[r][s].id \in Id
      BY <1>1, RingEntry
    <3>2. \/ ring'[r][s] = ring[r][s]
          \/ ring'[r][s] = [id |-> ring[r][s].id, arg |-> NoArg]
      BY <1>1, <1>3, <3>1, HeldBefore
    <3> QED
      BY <3>2
  <2>2. Empty(r) => Empty(r)'
    BY <2>1 DEF Empty
  <2>3. AtMostOne(r) => AtMostOne(r)'
    BY <2>1 DEF AtMostOne
  <2> QED
    BY <1>3, <2>2, <2>3, StoringBefore DEF ClosedInv, Quiet
<1>4. CASE Quiet(r) /\ Store(r)
  <2>1. Empty(r)
    BY <1>4 DEF ClosedInv, Storing, Store
  <2>2. current \in Id /\ found \in Arg \cup {NoArg} /\ Refreshes(r) \in BOOLEAN
    BY <1>4 DEF Store, TypeInv, TypeOK, InHand, Refreshes
  <2>3. ~Holds(ring[r], current)
    BY <2>1, <2>2, IdAssumption DEF Empty, Holds
  <2>4. ring'[r] = [ring[r] EXCEPT ![SlotForNew(ring[r])] = [id |-> current, arg |-> found]]
    BY <1>1, <1>4, <2>3 DEF Store, Track
  <2>5. AtMostOne(r)'
    BY <1>1, <2>1, <2>4 DEF AtMostOne, Empty, Ring
  <2>6. ~Storing(r)'
    BY <1>4 DEF Storing, Store
  <2> QED
    BY <2>5, <2>6
<1> QED
  BY <1>1, <1>2, <1>3, <1>4, QuietBefore

\* What a reload has closed holds at most the one request whose store was past
\* its gate, for the whole of the reload.
THEOREM ClosedRingHoldsAtMostOne_Always ==
  ASSUME RingName \subseteq Scope
  PROVE  Spec => []ClosedRingHoldsAtMostOne
<1>1. Init => ClosedInv
  <2>1. ASSUME Init, NEW r \in Closable PROVE Empty(r)
    BY <2>1 DEF Init, Empty, BlankRing, Closable, RingName, ModeRing
  <2> QED
    BY <2>1 DEF ClosedInv
<1>2. TypeInv /\ ClosedInv /\ [Next]_vars => ClosedInv'
  BY ClosedStep
<1>3. ClosedInv => ClosedRingHoldsAtMostOne
  <2> SUFFICES ASSUME ClosedInv, NEW r \in RingName, Closed(r),
                      pc = 0 \/ pc > Position("wipe", r)
               PROVE  Cardinality({s \in Slot : ring[r][s].id # NoId}) <= 1
    BY DEF ClosedRingHoldsAtMostOne
  <2>1. r \in Closable
    BY DEF Closed, Closable, ModeRing
  <2>2. Empty(r) \/ AtMostOne(r)
    BY <2>1 DEF ClosedInv, Quiet
  <2>3. CASE {s \in Slot : ring[r][s].id # NoId} = {}
    <3>1. Cardinality({}) = 0
      BY FS_EmptySet
    <3> QED
      BY <2>3, <3>1
  <2>4. CASE {s \in Slot : ring[r][s].id # NoId} # {}
    <3>1. PICK s \in Slot : {t \in Slot : ring[r][t].id # NoId} = {s}
      BY <2>2, <2>4 DEF AtMostOne, Empty
    <3>2. Cardinality({s}) = 1
      BY FS_Singleton
    <3> QED
      BY <3>1, <3>2
  <2> QED
    BY <2>3, <2>4
<1> QED
  BY <1>1, <1>2, <1>3, AlwaysTypeInv, PTL DEF Spec

----------------------------------------------------------------------------
(* The notes that the rings keep (TrackedRequests).                        *)

\* The note in a slot.
NoteAt(table, s) == [id |-> table[s].id, what |-> table[s].arg]

\* What it means that a note is in a ring.
LEMMA InNotes ==
  ASSUME NEW table \in Ring
  PROVE  /\ \A n : n \in NotesIn(table) <=>
               \E s \in Slot : table[s].id # NoId /\ n = NoteAt(table, s)
         /\ \A n \in NotesIn(table) : /\ n.id \in Id /\ n.what \in Arg \cup {NoArg}
                                      /\ n = [id |-> n.id, what |-> n.what]
<1>1. \A n : n \in NotesIn(table) <=>
         \E s \in Slot : table[s].id # NoId /\ n = NoteAt(table, s)
  BY DEF NotesIn, FreeSlots, NoteAt
<1>2. \A s \in Slot : table[s].id \in Id \cup {NoId} /\ table[s].arg \in Arg \cup {NoArg}
  BY RingEntry
<1> QED
  BY <1>1, <1>2 DEF NoteAt

\* A ring with no id twice has as many notes as occupied slots: all of Size only
\* when it is full.
LEMMA NotesCount ==
  ASSUME NEW table \in Ring, NoDuplicates(table)
  PROVE  /\ IsFull(table) => Cardinality(NotesIn(table)) = Size
         /\ ~IsFull(table) => Cardinality(NotesIn(table)) < Size
<1> DEFINE Taken == Slot \ FreeSlots(table)
           f == [s \in Taken |-> NoteAt(table, s)]
<1>1. IsFiniteSet(Slot) /\ Cardinality(Slot) = Size
  BY SizeAssumption, FS_Interval DEF Slot
<1>2. Taken \in SUBSET Slot
  OBVIOUS
<1>3. IsFiniteSet(Taken) /\ Cardinality(Taken) <= Size /\ (Cardinality(Taken) = Size => Taken = Slot)
  BY <1>1, <1>2, FS_Subset
<1>4. \A s, t \in Taken : f[s] = f[t] => s = t
  BY DEF NoDuplicates, FreeSlots, NoteAt
<1>5. NotesIn(table) = {f[s] : s \in Taken}
  BY DEF NotesIn, NoteAt
<1>6. f \in Bijection(Taken, NotesIn(table))
  BY <1>4, <1>5 DEF Bijection, Injection, Surjection, IsInjective
<1>7. Cardinality(NotesIn(table)) = Cardinality(Taken)
  BY <1>3, <1>6, FS_Bijection DEF ExistsBijection
<1>8. Cardinality(Taken) \in Nat
  BY <1>3, FS_CardinalityType
<1>9. IsFull(table) <=> Taken = Slot
  BY DEF IsFull, FreeSlots
<1> QED
  BY <1>1, <1>3, <1>7, <1>8, <1>9, SizeAssumption

\* A new id in a ring with room leaves the other notes alone.
LEMMA TrackAdds ==
  ASSUME NEW table \in Ring, NEW id \in Id, NEW arg \in Arg \cup {NoArg},
         NEW refresh \in BOOLEAN, ~Holds(table, id), ~IsFull(table)
  PROVE  NotesIn(Track(table, id, arg, refresh)) =
            NotesIn(table) \cup {[id |-> id, what |-> arg]}
<1> DEFINE k == SlotForNew(table)
           new == Track(table, id, arg, refresh)
<1>1. k \in Slot /\ table[k].id = NoId
  BY SlotForNewIsSlot
<1>2. new = [table EXCEPT ![k] = [id |-> id, arg |-> arg]]
  BY DEF Track
<1>3. new \in Ring /\ id # NoId
  BY TrackSlot, <1>1, IdAssumption
<1>4. NoteAt(new, k) = [id |-> id, what |-> arg] /\ new[k].id = id
  BY <1>1, <1>2 DEF NoteAt, Ring
<1>5. \A s \in Slot \ {k} : NoteAt(new, s) = NoteAt(table, s) /\ new[s].id = table[s].id
  BY <1>1, <1>2 DEF NoteAt, Ring
<1> HIDE DEF k, new
<1>6. \A n : n \in NotesIn(new) <=> n \in NotesIn(table) \/ n = [id |-> id, what |-> arg]
  BY <1>1, <1>3, <1>4, <1>5, InNotes
<1> QED
  BY <1>6 DEF new

\* In a full ring the note of the first slot gives way.
LEMMA TrackDisplaces ==
  ASSUME NEW table \in Ring, NEW id \in Id, NEW arg \in Arg \cup {NoArg},
         NEW refresh \in BOOLEAN, ~Holds(table, id), IsFull(table), NoDuplicates(table)
  PROVE  /\ NoteAt(table, 1) \in NotesIn(table)
         /\ NotesIn(Track(table, id, arg, refresh)) =
               (NotesIn(table) \ {NoteAt(table, 1)}) \cup {[id |-> id, what |-> arg]}
<1> DEFINE new == Track(table, id, arg, refresh)
<1>1. 1 \in Slot /\ SlotForNew(table) = 1
  BY SlotForNewIsSlot
<1>2. \A s \in Slot : table[s].id # NoId
  BY DEF IsFull, FreeSlots
<1>3. new = [table EXCEPT ![1] = [id |-> id, arg |-> arg]]
  BY <1>1 DEF Track
<1>4. new \in Ring /\ id # NoId
  BY TrackSlot, <1>1, IdAssumption
<1>5. NoteAt(new, 1) = [id |-> id, what |-> arg] /\ new[1].id = id
  BY <1>1, <1>3 DEF NoteAt, Ring
<1>6. \A s \in Slot \ {1} : NoteAt(new, s) = NoteAt(table, s) /\ new[s].id = table[s].id
  BY <1>1, <1>3 DEF NoteAt, Ring
<1>7. \A s \in Slot \ {1} : NoteAt(table, s) # NoteAt(table, 1)
  BY <1>1, <1>2 DEF NoDuplicates, NoteAt
<1>8. NoteAt(table, 1) \in NotesIn(table)
  BY <1>1, <1>2, InNotes
<1> HIDE DEF new
<1>9. \A n : n \in NotesIn(new) <=>
        (n \in NotesIn(table) /\ n # NoteAt(table, 1)) \/ n = [id |-> id, what |-> arg]
  BY <1>1, <1>2, <1>4, <1>5, <1>6, <1>7, InNotes
<1> QED
  BY <1>8, <1>9 DEF new

\* An id the ring holds is renewed, or left as it is.
LEMMA TrackRenews ==
  ASSUME NEW table \in Ring, NEW id \in Id, NEW arg \in Arg \cup {NoArg},
         NEW refresh \in BOOLEAN, Holds(table, id)
  PROVE  /\ {n \in NotesIn(table) : n.id = id} # {}
         /\ ~refresh => NotesIn(Track(table, id, arg, refresh)) = NotesIn(table)
         /\ refresh => NotesIn(Track(table, id, arg, refresh)) =
               (NotesIn(table) \ {n \in NotesIn(table) : n.id = id})
                  \cup {[id |-> id, what |-> arg]}
<1> DEFINE new == Track(table, id, arg, refresh)
<1>1. id # NoId /\ \E s \in Slot : table[s].id = id
  BY IdAssumption DEF Holds
<1>2. {n \in NotesIn(table) : n.id = id} # {}
  <2>1. PICK s \in Slot : table[s].id = id
    BY <1>1
  <2>2. NoteAt(table, s) \in NotesIn(table) /\ NoteAt(table, s).id = id
    BY <1>1, <2>1, InNotes DEF NoteAt
  <2> QED
    BY <2>2
<1>3. CASE ~refresh
  BY <1>2, <1>3 DEF Track
<1>4. CASE refresh
  <2>1. new = [s \in Slot |-> IF table[s].id = id THEN [id |-> id, arg |-> arg] ELSE table[s]]
    BY <1>4 DEF Track
  <2>2. new \in Ring
    BY TrackSlot, <1>1
  <2>3. \A s \in Slot : table[s].id = id =>
           NoteAt(new, s) = [id |-> id, what |-> arg] /\ new[s].id = id
    BY <2>1 DEF NoteAt
  <2>4. \A s \in Slot : table[s].id # id =>
           NoteAt(new, s) = NoteAt(table, s) /\ new[s].id = table[s].id
    BY <2>1 DEF NoteAt
  <2>5. \A s \in Slot : NoteAt(table, s).id = table[s].id
    BY DEF NoteAt
  <2> HIDE DEF new
  <2>6. \A n : n \in NotesIn(new) <=>
          (n \in NotesIn(table) /\ n.id # id) \/ n = [id |-> id, what |-> arg]
    BY <1>1, <2>2, <2>3, <2>4, <2>5, InNotes
  <2> QED
    BY <1>2, <1>4, <2>6 DEF new
<1> QED
  BY <1>3, <1>4

\* Emptying a slot removes the note in it.
LEMMA FreeUses ==
  ASSUME NEW table \in Ring, NEW s \in Slot, table[s].id # NoId, NoDuplicates(table)
  PROVE  /\ NoteAt(table, s) \in NotesIn(table)
         /\ NotesIn(Free(table, s)) = NotesIn(table) \ {NoteAt(table, s)}
<1> DEFINE new == Free(table, s)
<1>1. new \in Ring /\ new[s].id = NoId /\ \A t \in Slot \ {s} : new[t] = table[t]
  BY FreeSlot
<1>2. \A t \in Slot \ {s} : NoteAt(new, t) = NoteAt(table, t)
  BY <1>1 DEF NoteAt
<1>3. \A t \in Slot \ {s} : table[t].id # NoId => NoteAt(table, t) # NoteAt(table, s)
  BY DEF NoteAt, NoDuplicates
<1>4. NoteAt(table, s) \in NotesIn(table)
  BY InNotes
<1> HIDE DEF new
<1>5. \A n : n \in NotesIn(new) <=> n \in NotesIn(table) /\ n # NoteAt(table, s)
  BY <1>1, <1>2, <1>3, InNotes
<1> QED
  BY <1>4, <1>5 DEF new

\* Emptying an empty slot removes none.
LEMMA FreeIdle ==
  ASSUME NEW table \in Ring, NEW s \in Slot, table[s].id = NoId
  PROVE  NotesIn(Free(table, s)) = NotesIn(table)
<1> DEFINE new == Free(table, s)
<1>1. new \in Ring /\ new[s].id = NoId /\ \A t \in Slot \ {s} : new[t] = table[t]
  BY FreeSlot
<1>2. \A t \in Slot \ {s} : NoteAt(new, t) = NoteAt(table, t)
  BY <1>1 DEF NoteAt
<1> HIDE DEF new
<1>3. \A n : n \in NotesIn(new) <=> n \in NotesIn(table)
  BY <1>1, <1>2, InNotes
<1> QED
  BY <1>3 DEF new

\* A wiped ring has no notes; wiped arguments leave notes that say nothing.
LEMMA WipesClose ==
  ASSUME NEW r \in RingName, NEW table \in Ring
  PROVE  /\ NotesIn(Wiped(r, table)) = {}
         /\ NotesIn(WipeArgs(table)) = {[id |-> n.id, what |-> NoArg] : n \in NotesIn(table)}
<1> DEFINE new == WipeArgs(table)
<1>1. NotesIn(Wiped(r, table)) = {}
  <2>1. FreeSlots(Wiped(r, table)) = Slot
    BY WipedRing DEF FreeSlots
  <2> QED
    BY <2>1 DEF NotesIn
<1>2. new \in Ring /\ \A s \in Slot : new[s].id = table[s].id /\ new[s].arg = NoArg
  BY WipesAreRings, RingEntry DEF WipeArgs, Entry
<1> HIDE DEF new
<1>3. \A s \in Slot : /\ new[s].id = table[s].id /\ NoteAt(table, s).id = table[s].id
                      /\ NoteAt(new, s) = [id |-> table[s].id, what |-> NoArg]
  BY <1>2 DEF NoteAt
<1>4. \A n : n \in NotesIn(new) <=> \E m \in NotesIn(table) : n = [id |-> m.id, what |-> NoArg]
  BY <1>2, <1>3, InNotes
<1> QED
  BY <1>1, <1>4 DEF new

----------------------------------------------------------------------------

\* One ring changes, and with it one table of notes.
LEMMA OneTable ==
  ASSUME NEW r \in RingName, NEW table, ring \in [RingName -> Ring],
         ring' = [ring EXCEPT ![r] = table]
  PROVE  /\ NotesOf' = [NotesOf EXCEPT ![r] = NotesIn(table)]
         /\ NotesOf[r] = NotesIn(ring[r]) /\ NotesOf'[r] = NotesIn(table)
BY DEF NotesOf, NotesIn, FreeSlots

\* Both modules count alike.
LEMMA SameCount == ASSUME NEW S PROVE Notes!Cardinality(S) = Cardinality(S)
BY DEF Cardinality, Notes!Cardinality

\* Noting an id is one of the three ways a note gets into a table, or nothing.
LEMMA StoreStep ==
  ASSUME TypeInv, NoDuplicateIds, NEW r \in RingName, Store(r)
  PROVE  [Notes!NotedNext]_<<NotesOf, AtHand>>
<1> DEFINE arg == found
           n == [id |-> current, what |-> found]
           table == Track(ring[r], current, found, Refreshes(r))
<1>1. /\ ring \in [RingName -> Ring] /\ ring[r] \in Ring /\ NoDuplicates(ring[r])
      /\ current \in Id /\ found \in Arg \cup {NoArg} /\ Refreshes(r) \in BOOLEAN
  BY DEF Store, TypeInv, TypeOK, InHand, NoDuplicateIds, Refreshes
<1>2. AtHand = NoId /\ AtHand' = NoId /\ ring' = [ring EXCEPT ![r] = table]
  BY DEF Store, AtHand
<1>3. /\ NotesOf' = [NotesOf EXCEPT ![r] = NotesIn(table)]
      /\ NotesOf[r] = NotesIn(ring[r]) /\ NotesOf'[r] = NotesIn(table)
  BY <1>1, <1>2, OneTable
<1>4. n \in Notes!Note
  BY <1>1 DEF Notes!Note
<1>5. Notes!Of(r, current) = {m \in NotesIn(ring[r]) : m.id = current}
  BY <1>3 DEF Notes!Of
<1>6. ~Holds(ring[r], current) => Notes!Of(r, n.id) = {}
  <2>1. \A m \in NotesIn(ring[r]) : \E s \in Slot : m.id = ring[r][s].id
    BY <1>1, InNotes DEF NoteAt
  <2>2. n.id = current
    OBVIOUS
  <2> QED
    BY <1>5, <2>1, <2>2 DEF Holds
<1> HIDE DEF table
<1>7. CASE NotesIn(table) = NotesIn(ring[r])
  <2>1. NotesOf' = NotesOf
    BY <1>3, <1>7 DEF NotesOf
  <2> QED
    BY <1>2, <2>1
<1>8. CASE NotesIn(table) # NotesIn(ring[r]) /\ ~Holds(ring[r], current) /\ ~IsFull(ring[r])
  <2>1. NotesIn(table) = NotesIn(ring[r]) \cup {n}
    BY <1>1, <1>8, TrackAdds DEF table
  <2>2. Cardinality(NotesOf[r]) < Size
    BY <1>1, <1>3, <1>8, NotesCount
  <2>3. Notes!Add(r, n)
    BY <1>2, <1>3, <1>6, <1>8, <2>1, <2>2, SameCount DEF Notes!Add
  <2> QED
    BY <1>3, <1>4, <1>8, <2>3 DEF Notes!NotedNext, Notes!TableStep
<1>9. CASE NotesIn(table) # NotesIn(ring[r]) /\ ~Holds(ring[r], current) /\ IsFull(ring[r])
  <2>1. /\ NoteAt(ring[r], 1) \in NotesIn(ring[r])
        /\ NotesIn(table) = (NotesIn(ring[r]) \ {NoteAt(ring[r], 1)}) \cup {n}
    BY <1>1, <1>9, TrackDisplaces DEF table
  <2>2. Cardinality(NotesOf[r]) = Size
    BY <1>1, <1>3, <1>9, NotesCount
  <2>3. Notes!Displace(r, n, NoteAt(ring[r], 1))
    BY <1>2, <1>3, <1>6, <1>9, <2>1, <2>2, SameCount DEF Notes!Displace
  <2> QED
    BY <1>3, <1>4, <1>9, <2>1, <2>3 DEF Notes!NotedNext, Notes!TableStep
<1>10. CASE NotesIn(table) # NotesIn(ring[r]) /\ Holds(ring[r], current)
  <2>1. /\ {m \in NotesIn(ring[r]) : m.id = current} # {}
        /\ ~Refreshes(r) => NotesIn(table) = NotesIn(ring[r])
        /\ Refreshes(r) => NotesIn(table) =
              (NotesIn(ring[r]) \ {m \in NotesIn(ring[r]) : m.id = current}) \cup {n}
    BY <1>1, <1>10, TrackRenews DEF table
  <2>2. Refreshes(r) /\ r \in {"coll", "fact"}
    BY <1>10, <2>1 DEF Refreshes
  <2>3. Notes!Renew(r, n)
    BY <1>2, <1>3, <1>5, <2>1, <2>2 DEF Notes!Renew
  <2> QED
    BY <1>3, <1>4, <1>10, <2>3 DEF Notes!NotedNext, Notes!TableStep
<1> QED
  BY <1>7, <1>8, <1>9, <1>10

\* Emptying the matched slot uses up the note of the reply at hand, if it is there
\* still.
LEMMA TakeStep ==
  ASSUME TypeInv, Matched, NoDuplicateIds, NEW r \in RingName, Take(r)
  PROVE  [Notes!NotedNext]_<<NotesOf, AtHand>>
<1> DEFINE table == Free(ring[r], slot)
           n == NoteAt(ring[r], slot)
<1>1. /\ ring \in [RingName -> Ring] /\ ring[r] \in Ring /\ NoDuplicates(ring[r])
      /\ slot \in Slot /\ ring[r][slot].id \in {current, NoId}
  BY DEF Take, Matched, TypeInv, TypeOK, InHand, NoDuplicateIds
<1>2. AtHand = current /\ AtHand' = current /\ ring' = [ring EXCEPT ![r] = table]
  BY DEF Take, AtHand
<1>3. /\ NotesOf' = [NotesOf EXCEPT ![r] = NotesIn(table)]
      /\ NotesOf[r] = NotesIn(ring[r]) /\ NotesOf'[r] = NotesIn(table)
  BY <1>1, <1>2, OneTable
<1>4. CASE ring[r][slot].id = NoId
  <2>1. NotesIn(table) = NotesIn(ring[r])
    BY <1>1, <1>4, FreeIdle
  <2>2. NotesOf' = NotesOf
    BY <1>3, <2>1 DEF NotesOf
  <2> QED
    BY <1>2, <2>2
<1>5. CASE ring[r][slot].id # NoId
  <2>1. n \in NotesIn(ring[r]) /\ NotesIn(table) = NotesIn(ring[r]) \ {n}
    BY <1>1, <1>5, FreeUses
  <2>2. n.id = current
    BY <1>1, <1>5 DEF NoteAt
  <2> HIDE DEF table, n
  <2>3. Notes!Use(r, n)
    BY <1>2, <1>3, <2>1, <2>2 DEF Notes!Use
  <2>4. NotesOf'[r] # NotesOf[r]
    BY <1>3, <2>1
  <2> QED
    BY <1>3, <2>1, <2>3, <2>4 DEF Notes!NotedNext, Notes!TableStep
<1> QED
  BY <1>4, <1>5

\* A memset of the reload closes a table, or makes its notes say nothing.
LEMMA WipeStep ==
  ASSUME TypeInv, NEW r \in RingName,
         WipeRing(r) \/ (WipePeers /\ r = "transfer") \/ (WipeCounts /\ r = "fact")
  PROVE  [Notes!NotedNext]_<<NotesOf, AtHand>>
<1>1. ring \in [RingName -> Ring] /\ ring[r] \in Ring
  BY DEF TypeInv, TypeOK
<1>2. UNCHANGED AtHand
  BY DEF WipeRing, WipePeers, WipeCounts, AtHand, engineVars
<1>3. CASE ring' = ring
  BY <1>2, <1>3 DEF NotesOf
<1>4. ASSUME NEW table, ring' = [ring EXCEPT ![r] = table], NotesIn(table) = {}
      PROVE  [Notes!NotedNext]_<<NotesOf, AtHand>>
  <2>1. /\ NotesOf' = [NotesOf EXCEPT ![r] = {}] /\ NotesOf'[r] = {}
    BY <1>1, <1>4, OneTable
  <2>2. Notes!Close(r)
    BY <1>2, <2>1 DEF Notes!Close
  <2>3. CASE NotesOf'[r] # NotesOf[r]
    BY <2>2, <2>3 DEF Notes!NotedNext, Notes!TableStep
  <2>4. CASE NotesOf'[r] = NotesOf[r]
    BY <1>2, <2>1, <2>4 DEF NotesOf
  <2> QED
    BY <2>3, <2>4
<1>5. CASE ring' = [ring EXCEPT ![r] = WipeArgs(ring[r])]
  <2>1. /\ NotesOf' = [NotesOf EXCEPT ![r] = NotesIn(WipeArgs(ring[r]))]
        /\ NotesOf[r] = NotesIn(ring[r]) /\ NotesOf'[r] = NotesIn(WipeArgs(ring[r]))
    BY <1>1, <1>5, OneTable
  <2>2. NotesIn(WipeArgs(ring[r])) = {[id |-> n.id, what |-> NoArg] : n \in NotesIn(ring[r])}
    BY <1>1, WipesClose
  <2>3. Notes!Unsay(r)
    BY <1>2, <2>1, <2>2 DEF Notes!Unsay
  <2>4. CASE NotesOf'[r] # NotesOf[r]
    BY <2>3, <2>4 DEF Notes!NotedNext, Notes!TableStep
  <2>5. CASE NotesOf'[r] = NotesOf[r]
    BY <1>2, <2>1, <2>5 DEF NotesOf
  <2> QED
    BY <2>4, <2>5
<1>6. NotesIn(Wiped(r, ring[r])) = {}
  BY <1>1, WipesClose
<1>7. \/ ring' = ring
      \/ ring' = [ring EXCEPT ![r] = Wiped(r, ring[r])]
      \/ ring' = [ring EXCEPT ![r] = WipeArgs(ring[r])]
  BY <1>1 DEF WipeRing, WipePeers, WipeCounts
<1> QED
  BY <1>3, <1>4, <1>5, <1>6, <1>7

\* A reply is at hand.
Answering == {"receiving", "taking", "building"}

\* Every other step leaves the rings alone; a reply is picked up or dispatched.
LEMMA OtherStep ==
  ASSUME TypeInv, ring' = ring,
         \/ UNCHANGED <<phase, current>>
         \/ phase' \notin Answering /\ phase \notin Answering
         \/ phase' \in Answering /\ phase \in Answering /\ current' = current
         \/ Dispatch
         \/ \E id \in Id \cup {NoId} : TryToReceive(id)
  PROVE  [Notes!NotedNext]_<<NotesOf, AtHand>>
<1>1. NotesOf' = NotesOf
  BY DEF NotesOf
<1>2. CASE AtHand' = AtHand
  BY <1>1, <1>2
<1>3. CASE Dispatch /\ AtHand # NoId
  <2>1. AtHand' = NoId
    BY <1>3 DEF Dispatch, AtHand
  <2> QED
    BY <1>1, <1>3, <2>1 DEF Notes!NotedNext, Notes!Finish
<1>4. ASSUME NEW id \in Id, TryToReceive(id)
      PROVE  [Notes!NotedNext]_<<NotesOf, AtHand>>
  <2>1. AtHand = NoId /\ AtHand' = id
    BY <1>4 DEF TryToReceive, AtHand
  <2>2. Notes!Receive(id)
    BY <1>1, <2>1 DEF Notes!Receive
  <2> QED
    BY <2>2 DEF Notes!NotedNext
<1>5. CASE (Dispatch /\ AtHand = NoId) \/ TryToReceive(NoId)
  BY <1>2, <1>5 DEF Dispatch, TryToReceive, AtHand
<1>6. CASE \/ UNCHANGED <<phase, current>>
           \/ phase' \notin Answering /\ phase \notin Answering
           \/ phase' \in Answering /\ phase \in Answering /\ current' = current
  BY <1>2, <1>6 DEF AtHand, Answering
<1> QED
  BY <1>3, <1>4, <1>5, <1>6

\* The rings, with their slots, their wipes on another thread and their
\* evictions, keep the promise of NotedRequests.
THEOREM NotedRequestsImplemented == Spec => ImplementsNotedRequests
<1>1. Init => Notes!NotedInit
  <2> SUFFICES ASSUME Init PROVE Notes!NotedInit
    OBVIOUS
  <2>1. \A r \in RingName : ring[r] = BlankRing
    BY DEF Init
  <2>2. FreeSlots(BlankRing) = Slot
    BY DEF FreeSlots, BlankRing
  <2>3. \A r \in RingName : NotesIn(ring[r]) = {}
    BY <2>1, <2>2 DEF NotesIn
  <2>4. AtHand = NoId
    BY DEF Init, AtHand
  <2> QED
    BY <2>3, <2>4 DEF Notes!NotedInit, NotesOf
<1>2. TypeInv /\ Matched /\ NoDuplicateIds /\ [Next]_vars => [Notes!NotedNext]_<<NotesOf, AtHand>>
  <2> SUFFICES ASSUME TypeInv, Matched, NoDuplicateIds, [Next]_vars
               PROVE  [Notes!NotedNext]_<<NotesOf, AtHand>>
    OBVIOUS
  <2>1. CASE UNCHANGED vars
    <3>1. ring' = ring /\ UNCHANGED <<phase, current>>
      BY <2>1 DEF vars, engineVars
    <3> QED
      BY <3>1, OtherStep
  <2>2. CASE Watcher
    <3>1. CASE WipePeers \/ WipeCounts \/ \E r \in RingName : WipeRing(r)
      BY <3>1, WipeStep DEF RingName
    <3>2. CASE ring' = ring /\ UNCHANGED <<phase, current>>
      BY <3>2, OtherStep
    <3> QED
      BY <2>2, <3>1, <3>2
         DEF Watcher, BeginReload, LoadFlag, LoadMode, ClearList, FillList, SwitchHook,
             engineVars
  <2>3. ASSUME NEW r \in RingName, Store(r) \/ Take(r)
        PROVE  [Notes!NotedNext]_<<NotesOf, AtHand>>
    BY <2>3, StoreStep, TakeStep
  <2>4. CASE Dispatch \/ \E id \in Id \cup {NoId} : TryToReceive(id)
    BY <2>4, OtherStep DEF Dispatch, TryToReceive
  <2>5. CASE SendEnd \/ \E id \in Id, req \in Requests : SendPrepared(id, req)
    BY <2>5, OtherStep DEF SendEnd, SendPrepared, Answering
  <2>6. ASSUME NEW r \in RingName, Gate(r) \/ Match(r)
        PROVE  [Notes!NotedNext]_<<NotesOf, AtHand>>
    BY <2>6, OtherStep DEF Gate, Match, Answering
  <2>7. ASSUME NEW r \in Rewriter, PassBy(r) \/ TakeAny(r) \/ Build(r) \/ Decline(r)
        PROVE  [Notes!NotedNext]_<<NotesOf, AtHand>>
    BY <2>7, OtherStep DEF PassBy, TakeAny, Build, Decline, Answering
  <2> QED
    BY <2>1, <2>2, <2>3, <2>4, <2>5, <2>6, <2>7 DEF Next, Engine
<1>3. Notes!NotedSpec <=> Notes!NotedInit /\ [][Notes!NotedNext]_<<NotesOf, AtHand>>
  BY DEF Notes!NotedSpec, Notes!notedVars
<1> QED
  BY <1>1, <1>2, <1>3, AlwaysTypeInv, AlwaysMatched, NoDuplicates_Always, PTL
     DEF Spec, ImplementsNotedRequests

=============================================================================
