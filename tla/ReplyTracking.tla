---------------------------- MODULE ReplyTracking ----------------------------
(***************************************************************************)
(* How the engine answers requests in Telegram's place.  sendPrepared runs *)
(* pg_apply_request, which notes the id of every request a feature wants   *)
(* to answer; tryToReceive runs pg_apply_response, which rewrites the      *)
(* reply whose id was noted.  Both run on Telegram's thread.  A second     *)
(* thread, configWatcher, reloads the configuration and wipes rings with   *)
(* no lock, so each of its stores falls between any two engine steps.      *)
(***************************************************************************)
EXTENDS RequestRing, Integers, Sequences, FiniteSets

CONSTANTS
  Username, Peer, Count,   \* what requests can ask about
  MaxUsernames,   \* the longest list: PG_MAX_CUSTOM_USERNAMES in the code
  Requests,   \* the requests Telegram may make
  Configs,    \* the configurations the GUI may write
  Scope,      \* the flags and rings a reload looks at: all of them in the code
  AsUser      \* a peer -> the user with the number of that peer

\* One ring per feature, and the two rings of a gift mode that admits only
\* some profiles.
ModeRing == {"spoof", "unique"}
RingName == ModeRing \cup {"value", "form", "transfer", "fragment", "coll", "fact", "names"}

\* Who may rewrite a reply by what kind of request it answers.  pg_gift_extras
\* has no ring, neither of its own nor another's.
Rewriter == RingName \cup {"extras"}

\* The booleans of the configuration a ring depends on.
Flag == {"msg", "spoof", "unique", "transfer", "phone", "fact", "names"}
Mode == {"all", "self", "others"}

Kind == {"savedGifts", "valueInfo", "paymentForm", "transferGift",
         "phoneInfo", "usernameInfo", "factCheck", "getUser"}
What == Username \cup Peer \cup Count \cup {NoArg}
Request == [kind : Kind, self : BOOLEAN, what : What]
NoRequest == [kind |-> "none", self |-> FALSE, what |-> NoArg]

UsernameList == {l \in Seq(Username) : Len(l) <= MaxUsernames}
Config == [on : SUBSET Flag, mode : [ModeRing -> Mode], list : UsernameList]

\* A slot remembers the position of a username, or what the request asked about.
ASSUME ArgAssumption == (1 .. MaxUsernames) \cup What \subseteq Arg
ASSUME MaxUsernamesAssumption == MaxUsernames \in Nat
ASSUME RequestsAssumption == Requests \subseteq Request
ASSUME ConfigsAssumption == Configs \subseteq Config
ASSUME PeerAssumption == NoArg \notin Peer
ASSUME AsUserAssumption ==
  /\ AsUser \in [Peer -> Arg]
  /\ \A p \in Peer : AsUser[p] \in Peer => AsUser[AsUser[p]] = AsUser[p]
ASSUME ScopeAssumption == Scope \subseteq Flag \cup RingName

VARIABLES
  live,       \* the configuration globals, as the engine reads them
  hook,       \* is the IsCollectiblePhone display hook enabled?
  target,     \* the configuration being loaded by the watcher
  pc,         \* the watcher's position in Program, 0 when it sleeps
  ring,       \* ring name -> ring
  phase,      \* what the engine thread is doing
  current,    \* the id of the request or reply it is at
  todo,       \* the rewriters that request or reply has yet to pass (a set)
  found,      \* the argument computed by a gate, or taken from a slot
  slot,       \* the slot a take has matched and not yet read, or 0
  request,    \* id -> the request sent under it
  entitled,   \* history: id -> rings whose gate let it through, coming or going
  rewrites    \* history: id -> which feature rewrote its reply, saying what

watcherVars == <<live, hook, target, pc>>
engineVars == <<phase, current, todo, found, slot>>
clientVars == <<request, entitled, rewrites>>
vars == <<watcherVars, ring, engineVars, clientVars>>

----------------------------------------------------------------------------
(* Gates.                                                                  *)

\* The flags that must be on for a request to be entitled, or a reply rewritten.
Needs ==
  [r \in RingName |->
     CASE r = "value" -> {"unique"}
       [] r \in {"form", "transfer"} -> {"transfer"}
       [] r = "fragment" -> {"phone"}
       [] r \in {"coll", "names"} -> {"names"}
       [] r = "fact" -> {"msg", "fact"}
       [] r \in ModeRing -> {r}]

RingsOf ==
  [k \in Kind |->
     CASE k = "savedGifts" -> {"spoof", "unique"}
       [] k = "valueInfo" -> {"value"}
       [] k = "transferGift" -> {"transfer"}
       [] k = "paymentForm" -> {"form"}
       [] k = "phoneInfo" -> {"fragment"}
       [] k = "usernameInfo" -> {"coll"}
       [] k = "factCheck" -> {"fact"}
       [] k = "getUser" -> {"names"}]

\* The order of pg_apply_response; pg_apply_request agrees with it.
Rank == [spoof |-> 1, extras |-> 2, unique |-> 3, value |-> 4, form |-> 5,
         transfer |-> 6, fragment |-> 7, coll |-> 8, fact |-> 9, names |-> 10]

\* The rewriter whose turn it is.
First(r) == r \in todo /\ \A q \in todo : Rank[r] <= Rank[q]

Enabled(r) ==
  IF r = "extras"
    THEN live.on \cap {"spoof", "transfer"} # {}
    ELSE /\ Needs[r] \subseteq live.on
         /\ r \in {"coll", "names"} => live.list # <<>>

Matches(mode, self) == \/ mode = "self" /\ self
                       \/ mode = "others" /\ ~self

\* Faulty: the feature's own flag is not looked at.
TrackGateAlways(r, req) ==
  r = "coll" => \E k \in DOMAIN live.list : live.list[k] = req.what

TrackGate(r, req) ==
  /\ Enabled(r)
  /\ r \in ModeRing => Matches(live.mode[r], req.self)
  /\ r = "coll" => \E k \in DOMAIN live.list : live.list[k] = req.what

\* What the slot will remember: a username by its first position in the list.
TrackArg(r, req) ==
  CASE r = "coll" -> CHOOSE k \in DOMAIN live.list :
                        /\ live.list[k] = req.what
                        /\ \A j \in 1 .. k - 1 : live.list[j] # req.what
    [] r \in {"transfer", "fact"} -> req.what
    [] OTHER -> NoArg

\* Rings whose duplicate entry takes the newer argument.
Refreshes(r) == r \in {"coll", "fact"}

\* With the mode "all" a gift rewriter does not look at the ring; the extras look
\* at neither mode nor ring.
Untargeted(r) == r = "extras" \/ (r \in ModeRing /\ live.mode[r] = "all")

\* Faulty: the id of a push is looked up as well.
TrackedOrEmpty(r, id) == Holds(ring[r], id)

\* Ids are positive; a push carries none and is never one of ours.
Tracked(r, id) == id # NoId /\ Holds(ring[r], id)

\* A type that has been zeroed is that of a user, whatever the peer was.
Untyped(arg) == IF arg \in Peer THEN AsUser[arg] ELSE arg

\* What the builder says, from the arrays as they are when it reads them; a
\* username entry cleared under it reads as blank.
Says(r, arg) ==
  CASE r = "coll" -> IF arg \in DOMAIN live.list THEN live.list[arg] ELSE NoArg
    [] r = "transfer" -> arg
    [] OTHER -> NoArg

\* The features that swap the whole reply: nothing in the genuine one can make
\* them decline.  The others edit it, if they find their target in it.
Substitutes == {"value", "fragment", "coll"}

\* The validator knows no constructor with the id of a bare Vector, so the
\* reply pg_fact_check builds is never put in place.
Validates(r) == r # "fact"

----------------------------------------------------------------------------
(* The watcher: pg_config_load, then pg_apply_mem_patches, one store at a  *)
(* time in source order.                                                   *)

Program ==
  << <<"flag", "msg">>,
     <<"flag", "spoof">>, <<"mode", "spoof">>, <<"wipe", "spoof">>,
     <<"flag", "unique">>, <<"mode", "unique">>, <<"wipe", "unique">>,
     <<"flag", "transfer">>, <<"wipe", "transfer">>, <<"peers", "transfer">>,
     <<"flag", "phone">>, <<"wipe", "fragment">>,
     <<"flag", "fact">>, <<"wipe", "fact">>, <<"counts", "fact">>,
     <<"flag", "names">>, <<"clear", "names">>, <<"fill", "names">>,
     <<"wipe", "names">>, <<"wipe", "coll">>,
     <<"hook", "phone">> >>

\* The watcher is about to do this.
AtStep(op, x) == pc # 0 /\ Program[pc] = <<op, x>>

\* Faulty: the end of the program goes unnoticed.
AdvanceForever == pc' = pc + 1

\* On to the next step, and to sleep after the last.
Steps == {k \in 1 .. Len(Program) : Program[k][2] \in Scope}

Advance ==
  \/ /\ pc' \in Steps /\ pc' > pc
     /\ \A k \in Steps : k > pc => k >= pc'
  \/ pc' = 0 /\ \A k \in Steps : k <= pc

\* The condition under which a reload empties a ring.
Closed(r) ==
  \/ r \in ModeRing /\ live.mode[r] = "all"
  \/ r = "transfer" /\ "transfer" \notin live.on
  \/ r = "fragment" /\ "phone" \notin live.on
  \/ r = "fact" /\ "fact" \notin live.on
  \/ r \in {"coll", "names"} /\ ("names" \notin live.on \/ live.list = <<>>)

BeginReload(c) ==
  /\ pc = 0
  /\ target' = c
  /\ Advance
  /\ UNCHANGED <<live, hook, ring, engineVars, clientVars>>

\* The fake transfer also needs the unique gifts, as they are in memory.
LoadFlag(f) ==
  /\ AtStep("flag", f)
  /\ live' = [live EXCEPT !.on =
                 IF f \in target.on /\ (f = "transfer" => "unique" \in @)
                   THEN @ \cup {f} ELSE @ \ {f}]
  /\ Advance
  /\ UNCHANGED <<hook, target, ring, engineVars, clientVars>>

LoadMode(r) ==
  /\ AtStep("mode", r)
  /\ live' = [live EXCEPT !.mode[r] = target.mode[r]]
  /\ Advance
  /\ UNCHANGED <<hook, target, ring, engineVars, clientVars>>

\* The arrays beside the ids of coll and fact are not part of the memset.  A slot
\* of the transfers is two words, the id with the type and then the peer, and the
\* memset comes to the second after the first.
Wiped(r, table) ==
  CASE r \in {"coll", "fact"} -> WipeIds(table)
    [] r = "transfer" ->
         [s \in Slot |-> [id |-> NoId, arg |-> Untyped(table[s].arg)]]
    [] OTHER -> BlankRing

WipeRing(r) ==
  /\ AtStep("wipe", r)
  /\ ring' = IF Closed(r) THEN [ring EXCEPT ![r] = Wiped(r, @)] ELSE ring
  /\ Advance
  /\ UNCHANGED <<live, hook, target, engineVars, clientVars>>

\* The second words of the transfers.  As of every slot or of none: the engine
\* has one slot under its hands at a time.
WipePeers ==
  /\ AtStep("peers", "transfer")
  /\ ring' = IF Closed("transfer") THEN [ring EXCEPT !["transfer"] = WipeArgs(@)]
                                   ELSE ring
  /\ Advance
  /\ UNCHANGED <<live, hook, target, engineVars, clientVars>>

\* The second memset of the fact-check ring.
WipeCounts ==
  /\ AtStep("counts", "fact")
  /\ ring' = IF Closed("fact") THEN [ring EXCEPT !["fact"] = WipeArgs(@)] ELSE ring
  /\ Advance
  /\ UNCHANGED <<live, hook, target, engineVars, clientVars>>

ClearList ==
  /\ AtStep("clear", "names")
  /\ live' = [live EXCEPT !.list = <<>>]
  /\ Advance
  /\ UNCHANGED <<hook, target, ring, engineVars, clientVars>>

\* One username of the payload after another becomes visible.
FillList ==
  /\ AtStep("fill", "names")
  /\ IF Len(live.list) < Len(target.list)
       THEN /\ live' = [live EXCEPT !.list = Append(@, target.list[Len(@) + 1])]
            /\ pc' = pc
       ELSE /\ live' = live
            /\ Advance
  /\ UNCHANGED <<hook, target, ring, engineVars, clientVars>>

SwitchHook ==
  /\ AtStep("hook", "phone")
  /\ hook' = ("phone" \in live.on)
  /\ Advance
  /\ UNCHANGED <<live, target, ring, engineVars, clientVars>>

Watcher ==
  \/ \E c \in Configs : BeginReload(c)
  \/ \E f \in Flag : LoadFlag(f)
  \/ \E r \in ModeRing : LoadMode(r)
  \/ \E r \in RingName : WipeRing(r)
  \/ WipePeers
  \/ WipeCounts
  \/ ClearList
  \/ FillList
  \/ SwitchHook

----------------------------------------------------------------------------
(* Requests: hkSendPrepared, pg_apply_request.                             *)

\* Telegram sends a new request, or one it already sent under the same id.  A
\* tap on the own phone row asks for a collectible only while the hook makes
\* the row one.
SendPrepared(id, req) ==
  /\ phase = "idle"
  /\ request[id] \in {NoRequest, req}
  /\ req.kind = "phoneInfo" /\ req.self => hook
  /\ request' = [request EXCEPT ![id] = req]
  /\ phase' = "sending" /\ current' = id /\ todo' = RingsOf[req.kind]
  /\ UNCHANGED <<watcherVars, ring, found, slot, entitled, rewrites>>

\* The test in front of a track call.
Gate(r) ==
  /\ phase = "sending" /\ First(r)
  /\ LET req == request[current]
     IN IF TrackGate(r, req)
          THEN /\ phase' = "storing"
               /\ found' = TrackArg(r, req)
               /\ entitled' = [entitled EXCEPT ![current] = @ \cup {r}]
               /\ todo' = todo
          ELSE /\ todo' = todo \ {r}
               /\ UNCHANGED <<phase, found, entitled>>
  /\ UNCHANGED <<watcherVars, ring, current, slot, request, rewrites>>

\* The track call: the scan for the id or a free slot, and the store.
Store(r) ==
  /\ phase = "storing" /\ First(r)
  /\ ring' = [ring EXCEPT ![r] = Track(@, current, found, Refreshes(r))]
  /\ phase' = "sending" /\ todo' = todo \ {r} /\ found' = NoArg
  /\ UNCHANGED <<watcherVars, current, slot, clientVars>>

\* The original sendPrepared queues the request.
SendEnd ==
  /\ phase = "sending" /\ todo = {}
  /\ phase' = "idle" /\ current' = NoId
  /\ UNCHANGED <<watcherVars, ring, todo, found, slot, clientVars>>

----------------------------------------------------------------------------
(* Replies: hkTryToReceive, pg_apply_response.                             *)

\* What a payments.savedStarGifts reply is the answer to.
HasSavedGifts(id) == id # NoId /\ request[id].kind = "savedGifts"

\* Who may act on this reply.  The others find neither the id nor the
\* constructor they look for; nothing is tracked while a reply is walked.
Concerned(id) ==
  {r \in RingName : Tracked(r, id)}
  \cup (IF HasSavedGifts(id) THEN ModeRing \cup {"extras"} ELSE {})

\* A reply, or an update that answers no request.  The same reply comes by
\* again when the original tryToReceive left it in the queue.
TryToReceive(id) ==
  /\ phase = "idle"
  /\ id # NoId => request[id] # NoRequest
  /\ phase' = "receiving" /\ current' = id /\ todo' = Concerned(id)
  /\ UNCHANGED <<watcherVars, ring, found, slot, clientVars>>

\* The feature is off, or the id has been wiped from its ring.
PassBy(r) ==
  /\ phase = "receiving" /\ First(r)
  /\ ~Enabled(r) \/ (~Untargeted(r) /\ ~Tracked(r, current))
  /\ todo' = todo \ {r}
  /\ UNCHANGED <<watcherVars, ring, phase, current, found, slot, clientVars>>

\* The mode is "all", or nobody asks for one: any payments.savedStarGifts will do.
TakeAny(r) ==
  /\ phase = "receiving" /\ First(r)
  /\ Enabled(r) /\ Untargeted(r) /\ HasSavedGifts(current)
  /\ entitled' = [entitled EXCEPT ![current] = @ \cup ({r} \cap RingName)]
  /\ phase' = "building"
  /\ UNCHANGED <<watcherVars, ring, current, todo, found, slot, request, rewrites>>

\* The id was noted: a slot with it is found.  The watcher may wipe the slot
\* before it is read, and nobody else writes there.
Match(r) ==
  /\ phase = "receiving" /\ First(r)
  /\ Enabled(r) /\ ~Untargeted(r) /\ Tracked(r, current)
  /\ phase' = "taking" /\ slot' = SlotOf(ring[r], current)
  /\ UNCHANGED <<watcherVars, ring, current, todo, found, clientVars>>

\* Read what the slot says now, empty it and answer, unless that is unusable.  A
\* transfer reads the type and then the peer: with the memset in between, a peer
\* that is gone, whose type tells nothing.
Take(r) ==
  /\ phase = "taking" /\ First(r)
  /\ ring' = [ring EXCEPT ![r] = Free(@, slot)]
  /\ LET arg == ring[r][slot].arg
     IN IF \/ r = "coll" /\ arg \notin DOMAIN live.list
           \/ r = "fact" /\ arg = NoArg
          THEN phase' = "receiving" /\ todo' = todo \ {r} /\ found' = found
          ELSE phase' = "building" /\ todo' = todo /\ found' = arg
  /\ slot' = 0
  /\ UNCHANGED <<watcherVars, current, clientVars>>

\* Build the answer from the configuration as it is now, and put it in place.
Build(r) ==
  /\ phase = "building" /\ First(r)
  /\ Validates(r)
  /\ rewrites' = [rewrites EXCEPT ![current] = @ \cup {[by |-> r, says |-> Says(r, found)]}]
  /\ phase' = "receiving" /\ todo' = todo \ {r} /\ found' = NoArg
  /\ UNCHANGED <<watcherVars, ring, current, slot, request, entitled>>

\* Leave the genuine reply: no target in it, or what was built is not valid.
Decline(r) ==
  /\ phase = "building" /\ First(r)
  /\ r \notin Substitutes
  /\ phase' = "receiving" /\ todo' = todo \ {r} /\ found' = NoArg
  /\ UNCHANGED <<watcherVars, ring, current, slot, clientVars>>

\* The original tryToReceive dispatches the reply.
Dispatch ==
  /\ phase = "receiving" /\ todo = {}
  /\ phase' = "idle" /\ current' = NoId
  /\ UNCHANGED <<watcherVars, ring, todo, found, slot, clientVars>>

Engine ==
  \/ \E id \in Id, req \in Requests : SendPrepared(id, req)
  \/ \E r \in RingName : Gate(r)
  \/ \E r \in RingName : Store(r)
  \/ SendEnd
  \/ \E id \in Id \cup {NoId} : TryToReceive(id)
  \/ \E r \in Rewriter : PassBy(r)
  \/ \E r \in Rewriter : TakeAny(r)
  \/ \E r \in RingName : Match(r)
  \/ \E r \in RingName : Take(r)
  \/ \E r \in Rewriter : Build(r)
  \/ \E r \in Rewriter : Decline(r)
  \/ Dispatch

----------------------------------------------------------------------------

\* pg_config_load has run once, with whatever file was there, before the hooks
\* and the watcher start.
Init ==
  /\ live \in Configs
  /\ hook = ("phone" \in live.on)
  /\ target = live
  /\ pc = 0
  /\ ring = [r \in RingName |-> BlankRing]
  /\ phase = "idle" /\ current = NoId /\ todo = {} /\ found = NoArg /\ slot = 0
  /\ request = [id \in Id |-> NoRequest]
  /\ entitled = [id \in Id \cup {NoId} |-> {}]
  /\ rewrites = [id \in Id \cup {NoId} |-> {}]

Next == Watcher \/ Engine

Spec == Init /\ [][Next]_vars

----------------------------------------------------------------------------
(* Properties.                                                             *)

Rewrite == [by : Rewriter, says : Arg]

TypeOK ==
  /\ live \in Config
  /\ hook \in BOOLEAN
  /\ target \in Configs
  /\ pc \in 0 .. Len(Program)
  /\ ring \in [RingName -> Ring]
  /\ phase \in {"idle", "sending", "storing", "receiving", "taking", "building"}
  /\ current \in Id \cup {NoId}
  /\ todo \subseteq Rewriter
  /\ found \in Arg
  /\ slot \in 0 .. Size
  /\ request \in [Id -> Requests \cup {NoRequest}]
  /\ entitled \in [Id \cup {NoId} -> SUBSET RingName]
  /\ rewrites \in [Id \cup {NoId} -> SUBSET Rewrite]

\* No ring holds an id twice, whatever wipes fall between a gate and its store
\* and however often a request is sent again.  A take clears one slot: a second
\* one would answer the request again when its reply comes by again.
NoDuplicateIds == \A r \in RingName : NoDuplicates(ring[r])

\* A reply is rewritten by a feature with a ring only if the feature's own gate
\* let the request through when it was sent, or the mode "all" let the reply
\* through, and by the extras only if it is a page of saved gifts.  In particular
\* no update and no reply to a request of another kind is ever taken for one of
\* ours, over evictions, wipes and reused slots.  That the extras stay with the
\* profile that is meant is another matter: see OnlyTheTargetedProfile.
OnlyEntitledRewrites ==
  \A id \in Id \cup {NoId} : \A w \in rewrites[id] :
     IF w.by = "extras" THEN HasSavedGifts(id) ELSE w.by \in entitled[id]

\* The transfer that Telegram is told has happened never goes to the recipient of
\* another request: the peer kept in a slot belongs to the slot's id, although
\* slots are evicted, emptied, taken again, and wiped between being matched and
\* being read.  Such a wipe may leave no recipient at all, which the code does not
\* test for, or the number of the right one for a user's.
TransferNamesNoOther ==
  \A id \in Id : \A w \in rewrites[id] :
     w.by = "transfer" =>
        w.says \in {request[id].what, Untyped(request[id].what), NoArg}

\* "Only rewrite the targeted profile's gifts": a page of saved gifts that is ready
\* to be dispatched and that the extras have rewritten is of a profile that a gift
\* feature was let through for.
OnlyTheTargetedProfile ==
  phase = "receiving" /\ todo = {} =>
     \A w \in rewrites[current] :
        w.by = "extras" => entitled[current] \cap ModeRing # {}

\* A fact-check slot knows as many messages as its request asked about, or none
\* when the reload wiped the counts under it: never those of another request.
\* (pg_fact_check_track: "the reply must carry exactly one factCheck per msg_id")
FactCountIsOwn ==
  \A s \in Slot :
     LET e == ring["fact"][s]
     IN e.id # NoId => e.arg \in {request[e.id].what, NoArg}

\* Where a reload wipes a ring because its feature went off, at most one request
\* is left in it: the one whose store was already past its gate.  It never adds
\* up, so a ring that is closed cannot fill with ids nobody will take.
Position(op, x) == CHOOSE k \in DOMAIN Program : Program[k] = <<op, x>>

ClosedRingHoldsAtMostOne ==
  \A r \in RingName :
     Closed(r) /\ (pc = 0 \/ pc > Position("wipe", r)) =>
        Cardinality({s \in Slot : ring[r][s].id # NoId}) <= 1

\* A noted request is forgotten for a reason: its own reply is being rewritten,
\* the reload closes its ring, or the ring is full and the first slot is reused.
Reason(r, id) ==
  \/ phase = "taking" /\ current = id /\ First(r)
  \/ AtStep("wipe", r) /\ Closed(r)
  \/ phase = "storing" /\ First(r) /\ IsFull(ring[r]) /\ ring[r][1].id = id

ForgottenForAReason ==
  [][\A r \in RingName, id \in Id :
        Holds(ring[r], id) /\ ~Holds(ring[r], id)' => Reason(r, id)]_vars

\* "must answer EVERY tap or the collectible-phone row null-derefs": the reply
\* to a tap on the own phone row is never the server's.
EveryPhoneTapAnswered ==
  phase = "receiving" /\ todo = {} /\ current \in Id =>
     (request[current].kind = "phoneInfo" /\ request[current].self =>
        \E w \in rewrites[current] : w.by = "fragment")
=============================================================================
