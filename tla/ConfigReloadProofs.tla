-------------------------- MODULE ConfigReloadProofs --------------------------
(***************************************************************************)
(* ConfigReload keeps its types, and between reloads the code follows the  *)
(* flags wherever the two threads have never met, for any keys, patches,   *)
(* hooks and texts and however start-up and the reloads fall together.     *)
(***************************************************************************)
EXTENDS ConfigReload, SequenceTheorems, TLAPS

USE DEF vars, guiVars, readVars, patchVars, hookVars, Goto

\* What start-up goes through: the features in order, then the hooks that are created.
LEMMA WorkPlaces ==
  /\ Len(Order) \in Nat \ {0} /\ Len(Keys) \in Nat \ {0}
  /\ Len(Work) \in Nat /\ Len(Work) >= Len(Order)
  /\ \A k \in 1 .. Len(Order) : Work[k] = Order[k] /\ Work[k] \in Feature
  /\ \A k \in Len(Order) + 1 .. Len(Work) : Work[k] \in Hooks
  /\ \A f \in Feature : \E k \in 1 .. Len(Order) : Work[k] = f
  /\ \A f \in Hooks : \E k \in Len(Order) + 1 .. Len(Work) : Work[k] = f
<1>1. Order \in Seq(Feature) /\ Order # <<>> /\ Keys \in Seq(Key) /\ Keys # <<>>
  BY OrderAssumption, KeysAssumption
<1>2. Creation \in Seq(Feature) /\ Creation \in Seq(Hooks) /\ Hooks \subseteq Feature
  BY HooksAssumption
<1>3. /\ Len(Work) = Len(Order) + Len(Creation)
      /\ \A k \in 1 .. Len(Order) + Len(Creation) :
            Work[k] = IF k <= Len(Order) THEN Order[k] ELSE Creation[k - Len(Order)]
  BY <1>1, <1>2, ConcatProperties DEF Work
<1>4. /\ Len(Order) \in Nat \ {0} /\ Len(Keys) \in Nat \ {0} /\ Len(Creation) \in Nat
      /\ \A k \in 1 .. Len(Order) : Order[k] \in Feature
      /\ \A k \in 1 .. Len(Creation) : Creation[k] \in Hooks
      /\ DOMAIN Order = 1 .. Len(Order) /\ DOMAIN Creation = 1 .. Len(Creation)
  BY <1>1, <1>2
<1>5. ASSUME NEW k \in Len(Order) + 1 .. Len(Work)
      PROVE  Work[k] \in Hooks
  BY <1>3, <1>4, <1>5
<1>6. ASSUME NEW f \in Feature
      PROVE  \E k \in 1 .. Len(Order) : Work[k] = f
  <2>1. PICK k \in 1 .. Len(Order) : Order[k] = f
    BY <1>4, <1>6 DEF Feature
  <2>2. Work[k] = f
    BY <1>3, <1>4, <2>1
  <2> QED
    BY <2>2
<1>7. ASSUME NEW f \in Hooks
      PROVE  \E k \in Len(Order) + 1 .. Len(Work) : Work[k] = f
  <2>1. PICK k \in 1 .. Len(Creation) : Creation[k] = f
    BY <1>4, <1>7, HooksAssumption
  <2>2. Work[Len(Order) + k] = f
    BY <1>3, <1>4, <2>1
  <2>3. Len(Order) + k \in Len(Order) + 1 .. Len(Work)
    BY <1>3, <1>4
  <2> QED
    BY <2>2, <2>3
<1> QED
  BY <1>3, <1>4, <1>5, <1>6, <1>7

----------------------------------------------------------------------------
(* Types.                                                                  *)

\* A thread is at a key, or at a feature of its list, and it only reads a file
\* that exists.
Sound(t) ==
  /\ pc[t] = "load" => idx[t] <= Len(Keys)
  /\ pc[t] \in Applying => idx[t] <= End[t]
  /\ pc[t] = "spawn" => t = "main" /\ idx[t] = 1
  /\ pc[t] = "create" => t = "main" /\ idx[t] > Len(Order)
  /\ pc[t] = "read" => file # Missing
  /\ pc[t] \in {"render", "search", "match", "capture", "write"} => Current(t) \in Feature \ Hooks
  /\ pc[t] \in {"compare", "toggle"} => Current(t) \in Hooks

PlaceInv == \A t \in Thread : Sound(t)

\* What the client and the GUI keep has its type.
StateOK ==
  /\ file \in Contents \cup {<<>>, Missing}
  /\ saving \in Contents \cup {Missing}
  /\ pc \in [Thread -> Label]
  /\ idx \in [Thread -> 1 .. Longest]
  /\ size \in [Thread -> Nat]
  /\ text \in [Thread -> Seq(Key) \cup {Missing}]
  /\ want \in [Thread -> SUBSET Key]
  /\ last \in Seq(Key) \cup {Missing, Unread}
  /\ flags \subseteq Key
  /\ rendered \in Bytes
  /\ code \in [Feature -> Bytes]
  /\ searched \subseteq Feature /\ site \subseteq Feature
  /\ captured \in [Feature -> Bytes]
  /\ created \subseteq Hooks /\ enabled \subseteq Hooks

TypeInv == StateOK /\ PlaceInv

\* Texts are told from the marks for no text.
LEMMA Texts ==
  /\ Contents \subseteq Seq(Key) /\ <<>> \in Seq(Key)
  /\ Missing \notin Seq(Key) /\ Unread \notin Seq(Key) /\ Missing # Unread
<1>1. Contents \subseteq Seq(Key) /\ <<>> \in Seq(Key)
  BY ContentsAssumption
<1>2. \A s \in Seq(Key) : s # <<>> => s[1] \in Key
  OBVIOUS
<1>3. /\ Missing # <<>> /\ Missing[1] = "missing" /\ Unread # <<>> /\ Unread[1] = "unread"
  BY DEF Missing, Unread
<1>4. "missing" \notin Key /\ "unread" \notin Key
  BY NamesAssumption
<1> QED
  BY <1>1, <1>2, <1>3, <1>4

\* Where a thread that applies is, there is a feature.
LEMMA CurrentIsFeature ==
  ASSUME TypeInv, NEW t \in Thread, pc[t] \in Applying
  PROVE  /\ Current(t) \in Feature /\ Hooks \subseteq Feature
         /\ idx[t] \in 1 .. End[t] /\ End[t] \in Nat /\ End[t] <= Longest
         /\ idx[t] > Len(Order) => Current(t) \in Hooks
<1>1. /\ End["main"] = Len(Work) /\ End["watcher"] = Len(Order)
  BY DEF End
<1>2. End[t] \in Nat /\ End[t] <= Longest /\ End[t] <= Len(Work)
  BY <1>1, WorkPlaces DEF Thread, Longest
<1>3. idx[t] \in 1 .. End[t]
  BY <1>2, WorkPlaces DEF TypeInv, PlaceInv, Sound, StateOK, Longest
<1>4. idx[t] \in 1 .. Len(Order) \/ idx[t] \in Len(Order) + 1 .. Len(Work)
  BY <1>2, <1>3, WorkPlaces
<1>5. Current(t) \in Feature /\ (idx[t] > Len(Order) => Current(t) \in Hooks)
  BY <1>4, WorkPlaces, HooksAssumption DEF Current
<1> QED
  BY <1>2, <1>3, <1>5, HooksAssumption

\* Bytes are what the client has or what the code writes.
LEMMA BytesAreBytes ==
  /\ Original \in Bytes /\ Patched \in Bytes /\ Unknown \in Bytes
  /\ \A keys \in SUBSET Key : Rendering(keys) \in Bytes
BY DEF Bytes

\* Nothing has been read, loaded or applied.
LEMMA InitType == Init => TypeInv
<1> SUFFICES ASSUME Init PROVE TypeInv
  OBVIOUS
<1>1. /\ file \in Contents \cup {<<>>, Missing} /\ saving \in Contents \cup {Missing}
      /\ last \in Seq(Key) \cup {Missing, Unread}
  BY DEF Init
<1>2. pc \in [Thread -> Label]
  BY DEF Init, Thread, Label
<1>3. 1 \in 1 .. Longest
  BY WorkPlaces DEF Longest
<1>4. /\ idx \in [Thread -> 1 .. Longest] /\ size \in [Thread -> Nat]
      /\ text \in [Thread -> Seq(Key) \cup {Missing}]
  BY <1>3 DEF Init
<1>5. want \in [Thread -> SUBSET Key] /\ flags \subseteq Key
  BY DEF Init
<1>6. rendered \in Bytes /\ code \in [Feature -> Bytes] /\ captured \in [Feature -> Bytes]
  BY BytesAreBytes DEF Init
<1>7. /\ searched \subseteq Feature /\ site \subseteq Feature
      /\ created \subseteq Hooks /\ enabled \subseteq Hooks
  BY DEF Init
<1>8. PlaceInv
  <2> SUFFICES ASSUME NEW t \in Thread PROVE Sound(t)
    BY DEF PlaceInv
  <2>1. pc[t] \in {"open", "off"}
    BY DEF Init, Thread
  <2> QED
    BY <2>1 DEF Sound, Applying
<1> QED
  BY <1>1, <1>2, <1>4, <1>5, <1>6, <1>7, <1>8 DEF TypeInv, StateOK

\* When one thread moves, the other stays where it was.
LEMMA OneMoves ==
  ASSUME TypeInv, NEW t \in Thread, NEW l \in Label, NEW n \in 1 .. Longest,
         pc' = [pc EXCEPT ![t] = l], idx' = [idx EXCEPT ![t] = n],
         file' = file, Sound(t)'
  PROVE  PlaceInv' /\ pc' \in [Thread -> Label] /\ idx' \in [Thread -> 1 .. Longest]
<1>1. pc \in [Thread -> Label] /\ idx \in [Thread -> 1 .. Longest]
  BY DEF TypeInv, StateOK
<1>2. ASSUME NEW u \in Thread, u # t PROVE Sound(u)'
  <2>1. pc'[u] = pc[u] /\ idx'[u] = idx[u] /\ Sound(u)
    BY <1>1, <1>2 DEF TypeInv, PlaceInv
  <2> QED
    BY <2>1 DEF Sound, Current
<1> QED
  BY <1>1, <1>2 DEF PlaceInv

\* What has been read is compared, loaded or taken as the baseline.
LEMMA ReadType ==
  ASSUME TypeInv, NEW t \in Thread, NEW x \in Seq(Key) \cup {Missing}, AfterRead(t, x),
         file' = file
  PROVE  /\ PlaceInv' /\ pc' \in [Thread -> Label] /\ idx' \in [Thread -> 1 .. Longest]
         /\ text' \in [Thread -> Seq(Key) \cup {Missing}]
         /\ last' \in Seq(Key) \cup {Missing, Unread}
<1>1. 1 \in 1 .. Longest /\ 1 <= Len(Keys)
  BY WorkPlaces DEF Longest
<1>2. PICK l \in {"asleep", "load"} : pc' = [pc EXCEPT ![t] = l]
  BY DEF AfterRead
<1>3. pc'[t] = l /\ idx'[t] = 1 /\ idx' = [idx EXCEPT ![t] = 1]
  BY <1>2 DEF AfterRead, TypeInv, StateOK
<1>4. Sound(t)'
  BY <1>1, <1>3 DEF Sound, Applying
<1>5. PlaceInv' /\ pc' \in [Thread -> Label] /\ idx' \in [Thread -> 1 .. Longest]
  <2>1. l \in Label
    BY DEF Label
  <2> QED
    BY <1>1, <1>2, <1>3, <1>4, <2>1, OneMoves
<1>6. /\ text' \in [Thread -> Seq(Key) \cup {Missing}]
      /\ last' \in Seq(Key) \cup {Missing, Unread}
  BY DEF AfterRead, TypeInv, StateOK
<1> QED
  BY <1>5, <1>6

\* Where a thread that goes on is.
LEMMA NextFeaturePlace ==
  ASSUME TypeInv, NEW t \in Thread, pc[t] \in Applying, NextFeature(t)
  PROVE  \E l \in {"call", "create", "done", "asleep"}, n \in 1 .. Longest :
           /\ pc' = [pc EXCEPT ![t] = l] /\ idx' = [idx EXCEPT ![t] = n]
           /\ l \in {"call", "create"} => n = idx[t] + 1 /\ n <= End[t]
           /\ l = "create" <=> n > Len(Order)
           /\ l \in {"done", "asleep"} => n = 1 /\ idx[t] = End[t]
           /\ l = "done" => t = "main"
           /\ l = "asleep" => t = "watcher"
<1>1. /\ idx[t] \in 1 .. End[t] /\ End[t] \in Nat /\ End[t] <= Longest
      /\ Len(Order) \in Nat \ {0} /\ Longest \in Nat /\ idx \in [Thread -> 1 .. Longest]
  BY CurrentIsFeature, WorkPlaces DEF TypeInv, StateOK, Longest
<1>2. CASE idx[t] < End[t]
  <2>1. idx[t] + 1 \in 1 .. Longest /\ idx[t] + 1 <= End[t]
    BY <1>1, <1>2
  <2>2. idx' = [idx EXCEPT ![t] = idx[t] + 1] /\ idx'[t] = idx[t] + 1
    BY <1>1, <1>2 DEF NextFeature
  <2>3. CASE idx[t] + 1 > Len(Order)
    <3>1. pc' = [pc EXCEPT ![t] = "create"]
      BY <1>2, <2>2, <2>3 DEF NextFeature
    <3> QED
      BY <2>1, <2>2, <2>3, <3>1
  <2>4. CASE ~(idx[t] + 1 > Len(Order))
    <3>1. pc' = [pc EXCEPT ![t] = "call"]
      BY <1>2, <2>2, <2>4 DEF NextFeature
    <3> QED
      BY <2>1, <2>2, <2>4, <3>1
  <2> QED
    BY <2>3, <2>4
<1>3. CASE ~(idx[t] < End[t])
  <2>1. idx[t] = End[t] /\ 1 \in 1 .. Longest /\ ~(1 > Len(Order))
    BY <1>1, <1>3
  <2>2. idx' = [idx EXCEPT ![t] = 1]
    BY <1>3 DEF NextFeature
  <2>3. CASE t = "main"
    BY <1>3, <2>1, <2>2, <2>3 DEF NextFeature
  <2>4. CASE t = "watcher"
    BY <1>3, <2>1, <2>2, <2>4 DEF NextFeature
  <2> QED
    BY <2>3, <2>4 DEF Thread
<1> QED
  BY <1>2, <1>3

\* Going on keeps the places sound.
LEMMA NextFeatureType ==
  ASSUME TypeInv, NEW t \in Thread, pc[t] \in Applying, NextFeature(t), file' = file
  PROVE  /\ PlaceInv' /\ pc' \in [Thread -> Label] /\ idx' \in [Thread -> 1 .. Longest]
         /\ last' \in Seq(Key) \cup {Missing, Unread}
<1>1. PICK l \in {"call", "create", "done", "asleep"}, n \in 1 .. Longest :
           /\ pc' = [pc EXCEPT ![t] = l] /\ idx' = [idx EXCEPT ![t] = n]
           /\ l \in {"call", "create"} => n = idx[t] + 1 /\ n <= End[t]
           /\ l = "create" <=> n > Len(Order)
           /\ l \in {"done", "asleep"} => n = 1 /\ idx[t] = End[t]
           /\ l = "done" => t = "main"
           /\ l = "asleep" => t = "watcher"
  BY NextFeaturePlace
<1>2. pc'[t] = l /\ idx'[t] = n
  BY <1>1 DEF TypeInv, StateOK
<1>3. l = "create" => t = "main"
  <2>1. l = "create" /\ t = "watcher" => n <= Len(Order) /\ n > Len(Order)
    BY <1>1 DEF End
  <2> QED
    BY <2>1, WorkPlaces DEF Thread
<1>4. Sound(t)'
  BY <1>1, <1>2, <1>3 DEF Sound, Applying
<1>5. l \in Label
  BY DEF Label
<1>6. last' \in Seq(Key) \cup {Missing, Unread}
  BY DEF NextFeature, TypeInv, StateOK
<1> QED
  BY <1>1, <1>4, <1>5, <1>6, OneMoves

\* Saving changes the file only, and leaves one.
LEMMA GuiType == TypeInv /\ Gui => TypeInv'
<1> SUFFICES ASSUME TypeInv, Gui PROVE TypeInv'
  OBVIOUS
<1>1. /\ file' \in Contents \cup {<<>>, Missing} /\ saving' \in Contents \cup {Missing}
      /\ file # Missing => file' # Missing
  BY Texts DEF Gui, BeginSave, EndSave, LoseSave, TypeInv, StateOK
<1>2. UNCHANGED <<pc, idx, readVars, want, last, flags, patchVars, hookVars>>
  BY DEF Gui, BeginSave, EndSave, LoseSave
<1>3. StateOK'
  BY <1>1, <1>2 DEF TypeInv, StateOK
<1>4. PlaceInv'
  BY <1>1, <1>2 DEF TypeInv, PlaceInv, Sound, Current
<1> QED
  BY <1>3, <1>4 DEF TypeInv

\* Reading the file leaves a text or none.
LEMMA ReadingType ==
  ASSUME TypeInv, NEW t \in Thread, Open(t) \/ Read(t)
  PROVE  TypeInv'
<1>1. CASE Open(t) /\ file = Missing
  BY <1>1, ReadType DEF Open, TypeInv, StateOK
<1>2. CASE Open(t) /\ file # Missing
  <2>1. size' \in [Thread -> Nat]
    <3>1. file \in Seq(Key)
      BY <1>2, Texts DEF TypeInv, StateOK
    <3>2. Len(file) \in Nat
      BY <3>1
    <3> QED
      BY <1>2, <3>2 DEF Open, TypeInv, StateOK
  <2>2. /\ pc' = [pc EXCEPT ![t] = "read"] /\ idx' = [idx EXCEPT ![t] = idx[t]]
        /\ "read" \in Label /\ idx[t] \in 1 .. Longest /\ pc'[t] = "read" /\ file' = file
    BY <1>2 DEF Open, TypeInv, StateOK, Label
  <2>3. Sound(t)'
    BY <1>2, <2>2 DEF Sound, Applying
  <2>4. PlaceInv' /\ pc' \in [Thread -> Label] /\ idx' \in [Thread -> 1 .. Longest]
    BY <2>2, <2>3, OneMoves
  <2> QED
    BY <1>2, <2>1, <2>4 DEF Open, TypeInv, StateOK
<1>3. CASE Read(t)
  <2>1. file \in Seq(Key)
    BY <1>3, Texts DEF Read, TypeInv, StateOK, PlaceInv, Sound
  <2>2. PICK n \in Nat : n <= Len(file) /\ AfterRead(t, SubSeq(file, 1, n))
    BY <1>3, <2>1 DEF Read, TypeInv, StateOK
  <2>3. SubSeq(file, 1, n) \in Seq(Key)
    BY <2>1, <2>2
  <2> QED
    BY <1>3, <2>2, <2>3, ReadType DEF Read, TypeInv, StateOK
<1> QED
  BY <1>1, <1>2, <1>3

\* The globals are loaded, the watcher is started or has slept.
LEMMA LoadingType ==
  /\ \A t \in Thread : TypeInv /\ Load(t) => TypeInv'
  /\ TypeInv /\ Spawn => TypeInv'
  /\ TypeInv /\ Wake => TypeInv'
<1>1. ASSUME NEW t \in Thread, TypeInv, Load(t) PROVE TypeInv'
  <2>1. /\ idx[t] \in 1 .. Len(Keys) /\ Len(Keys) \in Nat /\ Len(Keys) <= Longest
        /\ 1 \in 1 .. Longest /\ idx \in [Thread -> 1 .. Longest] /\ Longest \in Nat
        /\ 1 <= End[t]
    BY <1>1, WorkPlaces DEF Load, TypeInv, StateOK, PlaceInv, Sound, Longest, End, Thread
  <2>2. Keys[idx[t]] \in Key
    BY <2>1, KeysAssumption DEF Key
  <2>3. flags' \subseteq Key
    BY <1>1, <2>2 DEF Load, TypeInv, StateOK
  <2>4. CASE idx[t] < Len(Keys)
    <3>1. /\ pc' = [pc EXCEPT ![t] = "load"] /\ idx' = [idx EXCEPT ![t] = idx[t] + 1]
          /\ "load" \in Label /\ idx[t] + 1 \in 1 .. Longest /\ idx[t] + 1 <= Len(Keys)
          /\ pc'[t] = "load" /\ idx'[t] = idx[t] + 1 /\ file' = file
      BY <1>1, <2>1, <2>4 DEF Load, TypeInv, StateOK, Label
    <3>2. Sound(t)'
      BY <3>1 DEF Sound, Applying
    <3>3. PlaceInv' /\ pc' \in [Thread -> Label] /\ idx' \in [Thread -> 1 .. Longest]
      BY <1>1, <3>1, <3>2, OneMoves
    <3> QED
      BY <1>1, <2>3, <3>3 DEF Load, TypeInv, StateOK
  <2>5. CASE ~(idx[t] < Len(Keys))
    <3>1. PICK l \in {"spawn", "call"} :
            pc' = [pc EXCEPT ![t] = l] /\ (l = "spawn" => t = "main")
      BY <1>1, <2>5 DEF Load
    <3>2. /\ idx' = [idx EXCEPT ![t] = 1] /\ l \in Label
          /\ pc'[t] = l /\ idx'[t] = 1 /\ file' = file
      BY <1>1, <2>5, <3>1 DEF Load, TypeInv, StateOK, Label
    <3>3. Sound(t)'
      BY <2>1, <3>1, <3>2 DEF Sound, Applying
    <3>4. PlaceInv' /\ pc' \in [Thread -> Label] /\ idx' \in [Thread -> 1 .. Longest]
      BY <1>1, <2>1, <3>1, <3>2, <3>3, OneMoves
    <3> QED
      BY <1>1, <2>3, <3>4 DEF Load, TypeInv, StateOK
  <2> QED
    BY <2>4, <2>5
<1>2. ASSUME TypeInv, Spawn PROVE TypeInv'
  <2>1. idx["main"] = 1 /\ 1 <= End["main"]
    BY <1>2, WorkPlaces DEF Spawn, TypeInv, PlaceInv, Sound, Thread, End
  <2>2. Sound("main")' /\ Sound("watcher")'
    BY <1>2, <2>1 DEF Spawn, Sound, Applying
  <2>3. pc' \in [Thread -> Label]
    BY <1>2 DEF Spawn, Thread, Label
  <2>4. StateOK'
    BY <1>2, <2>3 DEF Spawn, TypeInv, StateOK
  <2> QED
    BY <2>2, <2>4 DEF TypeInv, PlaceInv, Thread
<1>3. ASSUME TypeInv, Wake PROVE TypeInv'
  <2>1. /\ pc' = [pc EXCEPT !["watcher"] = "open"]
        /\ idx' = [idx EXCEPT !["watcher"] = idx["watcher"]]
        /\ "open" \in Label /\ idx["watcher"] \in 1 .. Longest /\ "watcher" \in Thread
        /\ pc'["watcher"] = "open" /\ file' = file
    BY <1>3 DEF Wake, TypeInv, StateOK, Label, Thread
  <2>2. Sound("watcher")'
    BY <2>1 DEF Sound, Applying
  <2>3. PlaceInv' /\ pc' \in [Thread -> Label] /\ idx' \in [Thread -> 1 .. Longest]
    BY <1>3, <2>1, <2>2, OneMoves
  <2> QED
    BY <1>3, <2>3 DEF Wake, TypeInv, StateOK
<1> QED
  BY <1>1, <1>2, <1>3

\* A step that keeps its place in the list and changes the label only.
LEMMA LabelMoves ==
  ASSUME TypeInv, NEW t \in Thread, pc[t] \in Applying, NEW l \in Applying \ {"create"},
         pc' = [pc EXCEPT ![t] = l], idx' = idx, file' = file,
         l \in {"render", "search", "match", "capture", "write"} => Current(t) \in Feature \ Hooks,
         l \in {"compare", "toggle"} => Current(t) \in Hooks
  PROVE  PlaceInv' /\ pc' \in [Thread -> Label] /\ idx' \in [Thread -> 1 .. Longest]
<1>1. /\ idx' = [idx EXCEPT ![t] = idx[t]] /\ idx[t] \in 1 .. Longest /\ pc'[t] = l
      /\ Current(t)' = Current(t) /\ l \in Label /\ idx'[t] = idx[t]
  BY DEF TypeInv, StateOK, Current, Applying, Label
<1>2. idx[t] <= End[t]
  BY DEF TypeInv, PlaceInv, Sound
<1>3. Sound(t)'
  BY <1>1, <1>2 DEF Sound, Applying
<1> QED
  BY <1>1, <1>3, OneMoves

\* The steps of pg_apply_mem_patches.
Applies(t) ==
  \/ Call(t) \/ Render(t) \/ Search(t) \/ Match(t) \/ Capture(t) \/ Write(t)
  \/ Compare(t) \/ Toggle(t) \/ (t = "main" /\ Create)

\* A patch is read for, rendered, searched, captured or written; a hook is created,
\* compared or switched.
LEMMA ApplyingType ==
  ASSUME TypeInv, NEW t \in Thread, Applies(t)
  PROVE  TypeInv'
<1> USE DEF TypeInv
<1>1. pc[t] \in Applying
  BY DEF Applies, Call, Render, Search, Match, Capture, Write, Compare, Toggle, Create, Applying
<1>2. Current(t) \in Feature /\ (Current(t) \in Present \cup Hooks => Current(t) \in Feature)
  BY <1>1, CurrentIsFeature
<1>3. CASE Call(t)
  <2>1. Drivers[Current(t)] \subseteq Key
    BY <1>2, DriversAssumption
  <2>2. want' \in [Thread -> SUBSET Key]
    BY <1>3, <2>1 DEF Call, StateOK
  <2>3. PICK l \in {"compare", "render", "write", "search"} :
          pc' = [pc EXCEPT ![t] = l] /\ (l = "compare" <=> Current(t) \in Hooks)
    BY <1>3 DEF Call
  <2>4. /\ l \in Applying \ {"create"}
        /\ l \in {"render", "search", "match", "capture", "write"} => Current(t) \in Feature \ Hooks
        /\ l \in {"compare", "toggle"} => Current(t) \in Hooks
        /\ idx' = idx /\ file' = file
    BY <1>2, <1>3, <2>3 DEF Call, Applying
  <2>5. PlaceInv' /\ pc' \in [Thread -> Label] /\ idx' \in [Thread -> 1 .. Longest]
    BY <1>1, <2>3, <2>4, LabelMoves
  <2> QED
    BY <1>3, <2>2, <2>5 DEF Call, StateOK
<1>4. CASE Render(t) \/ Search(t) \/ Match(t) \/ Capture(t)
  <2>1. Current(t) \in Feature \ Hooks
    BY <1>4 DEF Render, Search, Match, Capture, PlaceInv, Sound
  <2>2. PICK l \in {"search", "match", "capture", "write"} : pc' = [pc EXCEPT ![t] = l]
    BY <1>4 DEF Render, Search, Match, Capture
  <2>3. l \in Applying \ {"create"} /\ l \notin {"compare", "toggle"} /\ idx' = idx /\ file' = file
    BY <1>4, <2>2 DEF Render, Search, Match, Capture, Applying
  <2>4. PlaceInv' /\ pc' \in [Thread -> Label] /\ idx' \in [Thread -> 1 .. Longest]
    BY <1>1, <2>1, <2>2, <2>3, LabelMoves
  <2>5. rendered' \in Bytes
    <3>1. want[t] \cup (flags \ Drivers[Current(t)]) \in SUBSET Key
      BY DEF StateOK
    <3> QED
      BY <1>4, <3>1, BytesAreBytes DEF Render, Search, Match, Capture, StateOK
  <2>6. searched' \subseteq Feature /\ site' \subseteq Feature /\ captured' \in [Feature -> Bytes]
    <3>1. searched' \subseteq Feature /\ site' \subseteq Feature
      BY <1>2, <1>4 DEF Render, Search, Match, Capture, StateOK
    <3>2. code[Current(t)] \in Bytes
      BY <1>2 DEF StateOK
    <3>3. captured' \in [Feature -> Bytes]
      <4>1. CASE Capture(t)
        BY <3>2, <4>1 DEF Capture, StateOK
      <4>2. CASE Render(t) \/ Search(t) \/ Match(t)
        BY <4>2 DEF Render, Search, Match, StateOK
      <4> QED
        BY <1>4, <4>1, <4>2
    <3> QED
      BY <3>1, <3>3
  <2> QED
    BY <1>4, <2>4, <2>5, <2>6 DEF Render, Search, Match, Capture, StateOK
<1>5. CASE Write(t)
  <2>1. BytesToWrite(t) \in Bytes
    BY <1>2, BytesAreBytes DEF BytesToWrite, StateOK
  <2>2. code' \in [Feature -> Bytes]
    BY <1>5, <2>1 DEF Write, StateOK
  <2> QED
    BY <1>1, <1>5, <2>2, NextFeatureType DEF Write, StateOK
<1>6. CASE Compare(t)
  <2>1. CASE Current(t) \in created /\ (want[t] # {}) # (Current(t) \in enabled)
    <3>1. Current(t) \in Hooks
      BY <1>6 DEF Compare, PlaceInv, Sound
    <3>2. pc' = [pc EXCEPT ![t] = "toggle"] /\ idx' = idx /\ last' = last /\ file' = file
      BY <1>6, <2>1 DEF Compare
    <3>3. PlaceInv' /\ pc' \in [Thread -> Label] /\ idx' \in [Thread -> 1 .. Longest]
      BY <1>1, <3>1, <3>2, LabelMoves DEF Applying
    <3> QED
      BY <1>6, <3>2, <3>3 DEF Compare, StateOK
  <2>2. CASE NextFeature(t)
    BY <1>1, <1>6, <2>2, NextFeatureType DEF Compare, StateOK
  <2> QED
    BY <1>6, <2>1, <2>2 DEF Compare
<1>7. CASE Toggle(t)
  <2>1. Current(t) \in Hooks
    BY <1>7 DEF Toggle, PlaceInv, Sound
  <2>2. code' \in [Feature -> Bytes]
    BY <1>7, BytesAreBytes DEF Toggle, StateOK
  <2>3. enabled' \subseteq Hooks
    BY <1>7, <2>1 DEF Toggle, StateOK
  <2> QED
    BY <1>1, <1>7, <2>2, <2>3, NextFeatureType DEF Toggle, StateOK
<1>8. CASE t = "main" /\ Create
  <2>1. Current("main") \in Hooks /\ pc["main"] = "create" /\ "main" \in Thread
    <3>1. idx["main"] > Len(Order)
      BY <1>8 DEF Create, PlaceInv, Sound
    <3> QED
      BY <1>1, <1>8, <3>1, CurrentIsFeature DEF Create
  <2>2. CASE Current("main") \in Present
    <3>1. pc' = [pc EXCEPT !["main"] = "call"] /\ idx' = idx /\ last' = last /\ file' = file
      BY <1>8, <2>2 DEF Create
    <3>2. PlaceInv' /\ pc' \in [Thread -> Label] /\ idx' \in [Thread -> 1 .. Longest]
      BY <1>1, <1>8, <3>1, LabelMoves DEF Applying
    <3>3. created' \subseteq Hooks
      BY <1>8, <2>1, <2>2 DEF Create, StateOK
    <3> QED
      BY <1>8, <3>1, <3>2, <3>3 DEF Create, StateOK
  <2>3. CASE Current("main") \notin Present
    <3>1. NextFeature("main") /\ created' = created /\ file' = file
      BY <1>8, <2>3 DEF Create
    <3>2. /\ PlaceInv' /\ pc' \in [Thread -> Label] /\ idx' \in [Thread -> 1 .. Longest]
          /\ last' \in Seq(Key) \cup {Missing, Unread}
      BY <1>1, <1>8, <3>1, NextFeatureType
    <3> QED
      BY <1>8, <3>1, <3>2 DEF Create, StateOK
  <2> QED
    BY <2>2, <2>3
<1> QED
  BY <1>3, <1>4, <1>5, <1>6, <1>7, <1>8 DEF Applies

\* All of Next, and stuttering.
LEMMA TypeStep == TypeInv /\ [Next]_vars => TypeInv'
<1> SUFFICES ASSUME TypeInv, [Next]_vars PROVE TypeInv'
  OBVIOUS
<1>1. CASE Gui
  BY <1>1, GuiType
<1>2. ASSUME NEW t \in Thread, Step(t) PROVE TypeInv'
  <2>1. CASE Open(t) \/ Read(t)
    BY <2>1, ReadingType
  <2>2. CASE Load(t)
    BY <2>2, LoadingType
  <2>3. CASE Applies(t)
    BY <2>3, ApplyingType
  <2> QED
    BY <1>2, <2>1, <2>2, <2>3 DEF Step, Applies
<1>3. CASE Spawn \/ Wake
  BY <1>3, LoadingType
<1>4. CASE Create
  BY <1>4, ApplyingType DEF Thread, Applies
<1>5. CASE UNCHANGED vars
  BY <1>5 DEF TypeInv, StateOK, PlaceInv, Sound, Current
<1> QED
  BY <1>1, <1>2, <1>3, <1>4, <1>5 DEF Next, Main, Watcher, Thread

\* The switches of a feature are keys.
MetOK == met \subseteq SUBSET Key

\* The threads meet at features.
LEMMA MeetingType == TypeInv => Meeting \subseteq SUBSET Key
<1> SUFFICES ASSUME TypeInv PROVE Meeting \subseteq SUBSET Key
  OBVIOUS
<1>1. ASSUME pc["main"] \in Applying PROVE Drivers[Current("main")] \subseteq Key
  BY <1>1, CurrentIsFeature, DriversAssumption DEF Thread
<1> QED
  BY <1>1 DEF Meeting, Switches

\* What a step adds to what has been met.
LEMMA MetGrows ==
  ASSUME [Next]_vars
  PROVE  met' = met \/ met' = met \cup Meeting'
BY DEF Next, Gui, Main, Watcher

\* What the threads read, load, apply and remember has its type.
THEOREM TypeCorrect == Spec => []TypeOK
<1>1. Init => MetOK
  BY DEF Init, MetOK
<1>2. (TypeInv => Meeting \subseteq SUBSET Key)'
  BY MeetingType, PTL
<1>3. TypeInv /\ MetOK /\ [Next]_vars => MetOK'
  BY <1>2, TypeStep, MetGrows DEF MetOK
<1>4. TypeInv /\ MetOK => TypeOK
  BY DEF TypeInv, StateOK, MetOK, TypeOK
<1> QED
  BY <1>1, <1>3, <1>4, InitType, TypeStep, PTL DEF Spec

----------------------------------------------------------------------------
(* Where the threads meet, and what they still have to come to.            *)

\* The switches of a feature were never met at.
Apart(f) == Drivers[f] \notin met

\* Both threads are at features of one switch now: that has been noted.
Seen == Meeting \subseteq met

\* That keeps the other thread away from a feature that was never met at.
Separate ==
  \A t, u \in Thread :
     t # u /\ pc[t] \in Applying /\ pc[u] \in Applying /\ Apart(Current(t))
       => Drivers[Current(u)] # Drivers[Current(t)]

\* A meeting that was noted is not one at a feature that was never met at.
LEMMA SeenIsSeparate == Seen => Separate
BY DEF Seen, Separate, Apart, Meeting, Switches, Thread

\* configWatcher is started by start-up, after its own load.
Early == pc["main"] \in {"open", "read", "load", "spawn"} => pc["watcher"] = "off"

\* All of the list lies ahead of a thread that has not begun it.
Before(t) == \/ t = "main" /\ pc[t] \in {"open", "read", "load", "spawn"}
             \/ t = "watcher" /\ pc[t] = "load"

\* Start-up does not get a hook right before it has created it.
Counts(t, j) == t = "main" /\ Work[j] \in Hooks => j > Len(Order)

\* A thread will still see to a feature.
Due(t, f) ==
  \/ Before(t)
  \/ /\ pc[t] \in Applying
     /\ \E j \in idx[t] .. End[t] : Work[j] = f /\ Counts(t, j)

\* Start-up may go by flags that are no longer current, but then the watcher is still
\* to come to where it is.
Behind ==
  \/ pc["watcher"] = "load"
  \/ /\ pc["watcher"] \in Applying
     /\ \E j \in idx["watcher"] + 1 .. Len(Order) :
          /\ Work[j] = Current("main")
          /\ idx["main"] <= Len(Order) => j = idx["main"]

\* A step that stays at its feature, one that goes on, and one that was the last.
Stays(t) == idx'[t] = idx[t] /\ pc'[t] \in Applying
Moves(t) ==
  /\ idx[t] < End[t] /\ idx'[t] = idx[t] + 1
  /\ pc'[t] = IF idx[t] + 1 > Len(Order) THEN "create" ELSE "call"
Ends(t) == idx[t] = End[t] /\ pc'[t] \in {"done", "asleep"}

\* What going on is.
LEMMA GoesOn ==
  ASSUME TypeInv, NEW t \in Thread, pc[t] \in Applying, NextFeature(t)
  PROVE  /\ Moves(t) \/ Ends(t)
         /\ \A u \in Thread : u # t => pc'[u] = pc[u] /\ idx'[u] = idx[u]
<1>1. PICK l \in {"call", "create", "done", "asleep"}, n \in 1 .. Longest :
           /\ pc' = [pc EXCEPT ![t] = l] /\ idx' = [idx EXCEPT ![t] = n]
           /\ l \in {"call", "create"} => n = idx[t] + 1 /\ n <= End[t]
           /\ l = "create" <=> n > Len(Order)
           /\ l \in {"done", "asleep"} => n = 1 /\ idx[t] = End[t]
           /\ l = "done" => t = "main"
           /\ l = "asleep" => t = "watcher"
  BY NextFeaturePlace
<1>2. pc'[t] = l /\ idx'[t] = n /\ \A u \in Thread : u # t => pc'[u] = pc[u] /\ idx'[u] = idx[u]
  BY <1>1 DEF TypeInv, StateOK
<1>3. idx[t] \in 1 .. End[t] /\ End[t] \in Nat
  BY CurrentIsFeature
<1>4. CASE l \in {"call", "create"}
  <2>1. n = idx[t] + 1 /\ idx[t] < End[t]
    BY <1>1, <1>3, <1>4
  <2>2. l = IF idx[t] + 1 > Len(Order) THEN "create" ELSE "call"
    BY <1>1, <1>4, <2>1
  <2> QED
    BY <1>2, <2>1, <2>2 DEF Moves
<1>5. CASE l \in {"done", "asleep"}
  BY <1>1, <1>2, <1>5 DEF Ends
<1> QED
  BY <1>2, <1>4, <1>5

\* Going on leaves the feature.
LEMMA GoesOnAway ==
  ASSUME TypeInv, NEW t \in Thread, pc[t] \in Applying, NextFeature(t)
  PROVE  ~Stays(t) /\ pc'[t] \notin {"match", "capture"}
<1>1. Moves(t) \/ Ends(t)
  BY GoesOn
<1>2. idx[t] \in Nat
  BY DEF TypeInv, StateOK
<1> QED
  BY <1>1, <1>2 DEF Stays, Moves, Ends, Applying

\* What a step of pg_apply_mem_patches leaves alone, and where it goes.
LEMMA AppliesFrame ==
  ASSUME TypeInv, NEW t \in Thread, Applies(t)
  PROVE  /\ pc[t] \in Applying
         /\ Stays(t) \/ ((Moves(t) \/ Ends(t)) /\ pc[t] \in {"write", "compare", "toggle", "create"})
         /\ \A u \in Thread : u # t => pc'[u] = pc[u] /\ idx'[u] = idx[u] /\ want'[u] = want[u]
         /\ flags' = flags /\ created \subseteq created'
<1>1. pc[t] \in Applying
  BY DEF Applies, Call, Render, Search, Match, Capture, Write, Compare, Toggle, Create, Applying
<1>2. flags' = flags /\ created \subseteq created'
  BY DEF Applies, Call, Render, Search, Match, Capture, Write, Compare, Toggle, Create
<1>3. \A u \in Thread : u # t => want'[u] = want[u]
  BY DEF Applies, Call, Render, Search, Match, Capture, Write, Compare, Toggle, Create,
         TypeInv, StateOK
<1>4. \/ NextFeature(t) /\ pc[t] \in {"write", "compare", "toggle", "create"}
      \/ \E l \in Applying : pc' = [pc EXCEPT ![t] = l] /\ idx' = idx
  BY DEF Applies, Call, Render, Search, Match, Capture, Write, Compare, Toggle, Create, Applying
<1>5. CASE NextFeature(t) /\ pc[t] \in {"write", "compare", "toggle", "create"}
  BY <1>1, <1>2, <1>3, <1>5, GoesOn
<1>6. CASE \E l \in Applying : pc' = [pc EXCEPT ![t] = l] /\ idx' = idx
  <2>1. Stays(t) /\ \A u \in Thread : u # t => pc'[u] = pc[u] /\ idx'[u] = idx[u]
    BY <1>6 DEF Stays, TypeInv, StateOK
  <2> QED
    BY <1>1, <1>2, <1>3, <2>1
<1> QED
  BY <1>4, <1>5, <1>6

\* A thread that does not move has to come to what it had to come to.
LEMMA DueOfOther ==
  ASSUME NEW u \in Thread, pc'[u] = pc[u], idx'[u] = idx[u], NEW f
  PROVE  Due(u, f)' <=> Due(u, f)
BY DEF Due, Before, Counts

\* A thread that goes on has done with what it was at, and with nothing else.
LEMMA DueOfOwn ==
  ASSUME TypeInv, NEW t \in Thread, Applies(t), NEW f, Due(t, f),
         Stays(t) \/ f # Current(t) \/ ~Counts(t, idx[t])
  PROVE  Due(t, f)'
<1>1. /\ pc[t] \in Applying
      /\ Stays(t) \/ Moves(t) \/ Ends(t)
      /\ idx[t] \in 1 .. End[t] /\ End[t] \in Nat
  BY AppliesFrame, CurrentIsFeature
<1>2. PICK j \in idx[t] .. End[t] : Work[j] = f /\ Counts(t, j)
  BY <1>1 DEF Due, Before, Applying
<1>3. CASE Stays(t)
  BY <1>2, <1>3 DEF Due, Stays, Counts
<1>4. CASE ~Stays(t)
  <2>1. j # idx[t]
    BY <1>2, <1>4 DEF Current
  <2>2. Moves(t) /\ j \in idx[t] + 1 .. End[t]
    BY <1>1, <1>2, <1>4, <2>1 DEF Ends
  <2>3. pc'[t] \in Applying /\ j \in idx'[t] .. End[t]
    BY <2>2 DEF Moves, Applying
  <2> QED
    BY <1>2, <2>3 DEF Due, Counts
<1> QED
  BY <1>3, <1>4

\* Where start-up is behind, the watcher is still to come.
LEMMA BehindIsDue == TypeInv /\ Behind => Due("watcher", Current("main"))
<1> SUFFICES ASSUME TypeInv, Behind PROVE Due("watcher", Current("main"))
  OBVIOUS
<1>1. CASE pc["watcher"] = "load"
  BY <1>1 DEF Due, Before
<1>2. CASE pc["watcher"] # "load"
  <2>1. PICK j \in idx["watcher"] + 1 .. Len(Order) : Work[j] = Current("main")
    BY <1>2 DEF Behind
  <2>2. j \in idx["watcher"] .. End["watcher"] /\ Counts("watcher", j)
    BY <2>1, WorkPlaces DEF End, Counts, TypeInv, StateOK, Thread, Longest
  <2> QED
    BY <1>2, <2>1, <2>2 DEF Behind, Due
<1> QED
  BY <1>1, <1>2

----------------------------------------------------------------------------
(* The code follows the flags.                                             *)

\* A thread is at this patch, with this to do.
Handled(f, label) == \E t \in Thread : pc[t] = label /\ Current(t) = f

\* A patch that has not been searched for is not in place; one that is located can be
\* undone, unless a thread is just about to remember how.
Undoable(f) ==
  /\ f \notin searched => code[f] = Original
  /\ f \in searched \cap Present => f \in site \/ Handled(f, "match")
  /\ f \in site => captured[f] = Original \/ Handled(f, "capture")
  /\ Handled(f, "match") \/ Handled(f, "capture") => code[f] = Original

\* A feature is as the flags want it.
Placed(f) == f \in Present => code[f] = BytesFor(f, flags)

\* ... or will be when the threads are through.
InTime(f) == Placed(f) \/ Due("main", f) \/ Due("watcher", f)

Whole(f) == (f \notin Hooks => Undoable(f)) /\ InTime(f)

\* MinHook and the DLL agree on which hooks are on.
HookInv == \A f \in Hooks : code[f] = IF f \in enabled THEN Patched ELSE Original

\* Every hook of the client exists or is still to be created.
CreatedInv ==
  /\ \A f \in Hooks \cap Present : f \in created \/ Due("main", f)
  /\ pc["main"] \in Applying \ {"create"} /\ idx["main"] > Len(Order) => Current("main") \in created

\* A thread goes by the flags, and writes bytes that are rendered from them.
Fresh(t) ==
  /\ want[t] = Drivers[Current(t)] \cap flags
  /\ pc[t] \in {"search", "match", "capture", "write"} /\ Current(t) \in Rendered /\ want[t] # {}
       => rendered = Rendering(flags)

Justified(t) == Fresh(t) \/ (t = "main" /\ Behind)

\* Only the credits are rendered.
RenderInv == \A t \in Thread : pc[t] = "render" => Current(t) \in Rendered

\* Where it never met the other, a thread does what its place calls for.
Ready(t) ==
  pc[t] \in Applying /\ Apart(Current(t)) =>
    /\ pc[t] = "search" => Current(t) \notin searched
    /\ pc[t] \in {"match", "capture", "write"} => Current(t) \in searched
    /\ pc[t] # "create" /\ (pc[t] = "call" => Current(t) \in Grouped) => Justified(t)

FollowInv ==
  /\ Early /\ CreatedInv /\ HookInv /\ RenderInv
  /\ \A t \in Thread : Ready(t)
  /\ \A f \in Feature : Apart(f) => Whole(f)

\* What a step starts from, and that meetings are never forgotten.
Setting == TypeInv /\ FollowInv /\ Separate /\ Separate' /\ met \subseteq met'

\* What is apart now was apart before.
LEMMA ApartBefore == ASSUME Setting, NEW f, Apart(f)' PROVE Apart(f)
BY DEF Setting, Apart

\* What a step does not do to a feature it is not at.
SameAt(f) ==
  /\ code'[f] = code[f] /\ captured'[f] = captured[f]
  /\ f \in searched' <=> f \in searched
  /\ f \in site' <=> f \in site
  /\ f \in enabled' <=> f \in enabled

\* Every step is at one feature.
LEMMA SameElsewhere ==
  ASSUME TypeInv, NEW t \in Thread, Applies(t), NEW f \in Feature, f # Current(t)
  PROVE  SameAt(f)
<1>1. CASE Call(t) \/ Render(t) \/ Compare(t) \/ (t = "main" /\ Create)
  BY <1>1 DEF Call, Render, Compare, Create, SameAt
<1>2. CASE Search(t) \/ Match(t) \/ Capture(t)
  BY <1>2 DEF Search, Match, Capture, SameAt, TypeInv, StateOK
<1>3. CASE Write(t)
  BY <1>3 DEF Write, SameAt, TypeInv, StateOK
<1>4. CASE Toggle(t)
  BY <1>4 DEF Toggle, SameAt, TypeInv, StateOK
<1> QED
  BY <1>1, <1>2, <1>3, <1>4 DEF Applies

\* Nor does it begin or end the search for one.
LEMMA HandledElsewhere ==
  ASSUME TypeInv, NEW t \in Thread, Applies(t), NEW f, f # Current(t),
         NEW l \in {"match", "capture"}
  PROVE  Handled(f, l)' <=> Handled(f, l)
<1>1. ASSUME NEW u \in Thread, u # t
      PROVE  (pc'[u] = l /\ Current(u)' = f) <=> (pc[u] = l /\ Current(u) = f)
  BY <1>1, AppliesFrame DEF Current
<1>2. ~(pc'[t] = l /\ Current(t)' = f)
  BY AppliesFrame DEF Stays, Moves, Ends, Current
<1> QED
  BY <1>1, <1>2 DEF Handled

\* At a feature of its own only the thread itself looks.
LEMMA HandledHere ==
  ASSUME TypeInv, Separate, NEW t \in Thread, Applies(t), Apart(Current(t)),
         NEW g, g = Current(t), NEW l \in {"match", "capture"}
  PROVE  /\ Handled(g, l) <=> pc[t] = l
         /\ Handled(g, l)' <=> pc'[t] = l
<1>1. pc[t] \in Applying
  BY AppliesFrame
<1>2. ASSUME NEW u \in Thread, u # t
      PROVE  ~(pc[u] = l /\ Current(u) = g) /\ ~(pc'[u] = l /\ Current(u)' = g)
  <2>1. ~(pc[u] = l /\ Current(u) = g)
    BY <1>1, <1>2 DEF Separate, Applying
  <2>2. pc'[u] = pc[u] /\ Current(u)' = Current(u)
    BY <1>2, AppliesFrame DEF Current
  <2> QED
    BY <2>1, <2>2
<1>3. pc'[t] = l => Current(t)' = g
  BY AppliesFrame DEF Stays, Moves, Ends, Current
<1> QED
  BY <1>2, <1>3 DEF Handled

\* What a step is not at stays whole.
LEMMA WholeElsewhere ==
  ASSUME Setting, NEW t \in Thread, Applies(t), NEW f \in Feature, f # Current(t), Apart(f)'
  PROVE  Whole(f)'
<1>1. TypeInv /\ Whole(f) /\ flags' = flags
  BY ApartBefore, AppliesFrame DEF Setting, FollowInv
<1>2. SameAt(f)
  BY <1>1, SameElsewhere
<1>3. /\ Handled(f, "match")' <=> Handled(f, "match")
      /\ Handled(f, "capture")' <=> Handled(f, "capture")
  BY <1>1, HandledElsewhere
<1>4. Undoable(f) => Undoable(f)'
  BY <1>2, <1>3 DEF Undoable, SameAt
<1>5. Placed(f) => Placed(f)'
  BY <1>1, <1>2 DEF Placed, SameAt
<1>6. ASSUME NEW u \in Thread, Due(u, f) PROVE Due(u, f)'
  <2>1. CASE u = t
    BY <1>1, <1>6, <2>1, DueOfOwn
  <2>2. CASE u # t
    BY <1>1, <1>6, <2>2, AppliesFrame, DueOfOther
  <2> QED
    BY <2>1, <2>2
<1> QED
  BY <1>1, <1>4, <1>5, <1>6 DEF Whole, InTime, Thread

\* A step that stays at its feature leaves in time what was.
LEMMA InTimeHere ==
  ASSUME TypeInv, NEW t \in Thread, Applies(t), Stays(t), code' = code, NEW f, InTime(f)
  PROVE  InTime(f)'
<1>1. Placed(f) => Placed(f)'
  BY AppliesFrame DEF Placed
<1>2. ASSUME NEW u \in Thread, Due(u, f) PROVE Due(u, f)'
  <2>1. CASE u = t
    BY <1>2, <2>1, DueOfOwn
  <2>2. CASE u # t
    BY <1>2, <2>2, AppliesFrame, DueOfOther
  <2> QED
    BY <2>1, <2>2
<1> QED
  BY <1>1, <1>2 DEF InTime, Thread

\* Start-up stays behind until the watcher has come to where it is.
LEMMA BehindStays ==
  ASSUME Setting, Applies("watcher"), pc["main"] \in Applying, Apart(Current("main"))', Behind
  PROVE  Behind'
<1>1. /\ TypeInv /\ "watcher" \in Thread /\ "main" \in Thread /\ pc["watcher"] \in Applying
      /\ pc'["main"] = pc["main"] /\ idx'["main"] = idx["main"]
      /\ Current("main")' = Current("main") /\ End["watcher"] = Len(Order)
      /\ Stays("watcher") \/ Moves("watcher") \/ Ends("watcher")
      /\ idx["watcher"] \in Nat /\ Len(Order) \in Nat
  BY AppliesFrame, WorkPlaces DEF Setting, Thread, Current, End, TypeInv, StateOK
<1>2. PICK j \in idx["watcher"] + 1 .. Len(Order) :
        Work[j] = Current("main") /\ (idx["main"] <= Len(Order) => j = idx["main"])
  BY <1>1 DEF Behind, Applying
<1>3. CASE Stays("watcher")
  BY <1>1, <1>2, <1>3 DEF Stays, Behind
<1>4. CASE Moves("watcher")
  <2>1. pc'["watcher"] \in Applying /\ idx'["watcher"] = idx["watcher"] + 1
    BY <1>4 DEF Moves, Applying
  <2>2. Drivers[Current("watcher")'] # Drivers[Current("main")']
    BY <1>1, <2>1 DEF Setting, Separate
  <2>3. j # idx["watcher"] + 1
    BY <1>1, <1>2, <2>1, <2>2 DEF Current
  <2>4. j \in idx'["watcher"] + 1 .. Len(Order)
    BY <1>1, <1>2, <2>1, <2>3
  <2> QED
    BY <1>1, <1>2, <2>1, <2>4 DEF Behind
<1>5. CASE Ends("watcher")
  BY <1>1, <1>2, <1>5 DEF Ends
<1> QED
  BY <1>1, <1>3, <1>4, <1>5

\* The other thread stays ready.
LEMMA OtherIsReady ==
  ASSUME Setting, NEW t \in Thread, Applies(t), NEW u \in Thread, u # t
  PROVE  Ready(u)'
<1> SUFFICES ASSUME pc'[u] \in Applying, Apart(Current(u))' PROVE Ready(u)'
  BY DEF Ready
<1>1. /\ TypeInv /\ pc[t] \in Applying /\ pc[u] \in Applying /\ pc'[u] = pc[u]
      /\ idx'[u] = idx[u] /\ want'[u] = want[u] /\ flags' = flags /\ Current(u)' = Current(u)
  BY AppliesFrame DEF Setting, Current
<1>2. Apart(Current(u)) /\ Ready(u)
  BY <1>1 DEF Setting, FollowInv, Apart
<1>3. Current(u) # Current(t) /\ Current(u) \in Feature
  BY <1>1, <1>2, CurrentIsFeature DEF Setting, Separate
<1>4. SameAt(Current(u))
  BY <1>1, <1>3, SameElsewhere
<1>5. Fresh(u) => Fresh(u)'
  <2>1. CASE rendered' = rendered
    BY <1>1, <2>1 DEF Fresh
  <2>2. CASE rendered' # rendered
    <3>1. Render(t)
      BY <2>2 DEF Applies, Call, Render, Search, Match, Capture, Write, Compare, Toggle, Create
    <3>2. Current(t) \in Rendered
      BY <3>1 DEF Setting, FollowInv, RenderInv, Render
    <3>3. Current(u) \notin Rendered
      BY <1>3, <3>2, PatchesAssumption
    <3> QED
      BY <1>1, <3>3 DEF Fresh
  <2> QED
    BY <2>1, <2>2
<1>6. u = "main" /\ Behind => Behind'
  BY <1>1, BehindStays DEF Thread
<1>7. Justified(u) => Justified(u)'
  BY <1>5, <1>6 DEF Justified
<1> QED
  BY <1>1, <1>2, <1>4, <1>7 DEF Ready, SameAt

\* Going on from one patch of a group to the next, a thread takes what it goes by along.
LEMMA ArrivesReady ==
  ASSUME Setting, NEW t \in Thread, Applies(t), ~Stays(t), want' = want
  PROVE  Ready(t)'
<1>1. /\ Moves(t) \/ Ends(t)
      /\ TypeInv /\ pc[t] \in Applying /\ flags' = flags
      /\ pc[t] \in {"write", "compare", "toggle", "create"}
      /\ idx[t] \in 1 .. End[t] /\ End[t] \in Nat
  BY AppliesFrame, CurrentIsFeature DEF Setting
<1> SUFFICES ASSUME Moves(t), pc'[t] = "call", Apart(Current(t))', Current(t)' \in Grouped
             PROVE  Justified(t)'
  BY <1>1 DEF Ready, Moves, Ends, Applying
<1>2. /\ idx'[t] = idx[t] + 1 /\ idx[t] \in 1 .. Len(Order) /\ idx[t] + 1 \in 1 .. Len(Order)
      /\ Len(Order) \in Nat
  BY <1>1, WorkPlaces DEF Moves
<1>3. /\ Current(t)' = Order[idx[t] + 1] /\ Current(t) = Order[idx[t]]
      /\ idx[t] + 1 \in DOMAIN Order
  <2>1. DOMAIN Order = 1 .. Len(Order)
    BY OrderAssumption
  <2> QED
    BY <1>2, <2>1, WorkPlaces DEF Current
<1>4. Current(t) \notin Hooks /\ Drivers[Current(t)'] = Drivers[Current(t)]
  <2>1. (idx[t] + 1) - 1 = idx[t]
    BY <1>1
  <2> QED
    BY <1>3, <2>1, GroupedAssumption
<1>5. pc[t] = "write" /\ Ready(t) /\ Apart(Current(t))
  <2>1. pc[t] # "compare" /\ pc[t] # "toggle" /\ pc[t] # "create"
    BY <1>1, <1>2, <1>4 DEF TypeInv, PlaceInv, Sound
  <2> QED
    BY <1>1, <1>4, <2>1 DEF Setting, FollowInv, Apart
<1>6. Justified(t)
  BY <1>1, <1>5 DEF Ready
<1>7. Fresh(t) => Fresh(t)'
  BY <1>1, <1>4 DEF Fresh
<1>8. t = "main" /\ Behind => Behind'
  <2> SUFFICES ASSUME t = "main", Behind PROVE Behind'
    OBVIOUS
  <2>1. pc'["watcher"] = pc["watcher"] /\ idx'["watcher"] = idx["watcher"]
    BY <1>1, AppliesFrame DEF Thread
  <2>2. CASE pc["watcher"] = "load"
    BY <2>1, <2>2 DEF Behind
  <2>3. CASE pc["watcher"] # "load"
    <3>1. pc["watcher"] \in Applying /\ idx["main"] \in idx["watcher"] + 1 .. Len(Order)
      BY <1>2, <2>3 DEF Behind
    <3>2. idx'["main"] \in idx'["watcher"] + 1 .. Len(Order) /\ Work[idx'["main"]] = Current("main")'
      BY <1>1, <1>2, <2>1, <3>1 DEF Current, TypeInv, StateOK, Thread
    <3> QED
      BY <1>1, <2>1, <3>1, <3>2 DEF Behind
  <2> QED
    BY <2>2, <2>3
<1> QED
  BY <1>6, <1>7, <1>8 DEF Justified

\* At its feature start-up is as far behind as it was.
LEMMA StaysJustified ==
  ASSUME Setting, NEW t \in Thread, Applies(t), Stays(t), Fresh(t) => Fresh(t)', Justified(t)
  PROVE  Justified(t)'
<1>1. t = "main" => pc'["watcher"] = pc["watcher"] /\ idx'["watcher"] = idx["watcher"]
  BY AppliesFrame DEF Setting, Thread
<1>2. idx'[t] = idx[t] /\ Current(t)' = Current(t)
  BY DEF Stays, Current
<1>3. t = "main" /\ Behind => Behind'
  BY <1>1, <1>2 DEF Behind
<1> QED
  BY <1>3 DEF Justified

\* Hooks are created one by one.
LEMMA CreatedStep ==
  ASSUME Setting, NEW t \in Thread, Applies(t)
  PROVE  CreatedInv'
<1>1. /\ TypeInv /\ CreatedInv /\ created \subseteq created' /\ pc[t] \in Applying
      /\ Stays(t) \/ Moves(t) \/ Ends(t)
  BY AppliesFrame DEF Setting, FollowInv
<1>2. CASE t = "watcher"
  <2>1. pc'["main"] = pc["main"] /\ idx'["main"] = idx["main"]
    BY <1>1, <1>2, AppliesFrame DEF Thread
  <2>2. \A f : Due("main", f)' <=> Due("main", f)
    BY <2>1, DueOfOther DEF Thread
  <2> QED
    BY <1>1, <2>1, <2>2 DEF CreatedInv, Current
<1>3. CASE t = "main"
  <2>1. CASE Stays(t)
    <3>1. \A f : Due("main", f) => Due("main", f)'
      BY <1>1, <1>3, <2>1, DueOfOwn
    <3>2. ASSUME pc'["main"] # "create", idx'["main"] > Len(Order)
          PROVE  Current("main")' \in created'
      <4>1. Current("main")' = Current("main") /\ idx'["main"] = idx["main"]
        BY <1>3, <2>1 DEF Stays, Current
      <4>2. CASE pc["main"] = "create"
        <5>1. Create
          BY <1>1, <1>3, <4>2 DEF Applies, Call, Render, Search, Match, Capture, Write, Compare, Toggle
        <5>2. Current("main") \in Present
          <6> SUFFICES ASSUME Current("main") \notin Present PROVE FALSE
            OBVIOUS
          <6>1. NextFeature("main") /\ "main" \in Thread
            BY <5>1 DEF Create, Thread
          <6>2. Moves("main") \/ Ends("main")
            BY <1>1, <1>3, <6>1, GoesOn
          <6> QED
            BY <1>1, <1>3, <2>1, <6>1, <6>2 DEF Stays, Moves, Ends, Applying, TypeInv, StateOK
        <5> QED
          BY <4>1, <5>1, <5>2 DEF Create
      <4>3. CASE pc["main"] # "create"
        BY <1>1, <1>3, <3>2, <4>1, <4>3 DEF CreatedInv
      <4> QED
        BY <4>2, <4>3
    <3> QED
      BY <1>1, <3>1, <3>2 DEF CreatedInv
  <2>2. CASE ~Stays(t)
    <3>1. ASSUME NEW f \in Hooks \cap Present PROVE f \in created' \/ Due("main", f)'
      <4>1. CASE f # Current("main") \/ ~Counts("main", idx["main"])
        BY <1>1, <1>3, <4>1, DueOfOwn DEF CreatedInv
      <4>2. CASE f = Current("main") /\ Counts("main", idx["main"])
        <5>1. idx["main"] > Len(Order)
          BY <4>2 DEF Counts, Current
        <5>2. pc["main"] # "create"
          <6> SUFFICES ASSUME pc["main"] = "create" PROVE FALSE
            OBVIOUS
          <6>1. Create
            BY <1>1, <1>3 DEF Applies, Call, Render, Search, Match, Capture, Write, Compare, Toggle
          <6>2. pc' = [pc EXCEPT !["main"] = "call"] /\ idx' = idx
            BY <4>2, <6>1 DEF Create
          <6> QED
            BY <1>1, <1>3, <2>2, <6>2 DEF Stays, TypeInv, StateOK, Applying
        <5> QED
          BY <1>1, <1>3, <4>2, <5>1, <5>2 DEF CreatedInv
      <4> QED
        BY <4>1, <4>2
    <3>2. ~(pc'["main"] \in Applying \ {"create"} /\ idx'["main"] > Len(Order))
      BY <1>1, <1>3, <2>2 DEF Moves, Ends, Applying
    <3> QED
      BY <3>1, <3>2 DEF CreatedInv
  <2> QED
    BY <2>1, <2>2
<1> QED
  BY <1>2, <1>3 DEF Thread

\* A hook that is switched is remembered as what it is.
LEMMA HookStep ==
  ASSUME Setting, NEW t \in Thread, Applies(t)
  PROVE  HookInv'
<1>1. TypeInv /\ HookInv /\ Hooks \subseteq Feature
  BY HooksAssumption DEF Setting, FollowInv
<1>2. CASE code' = code /\ enabled' = enabled
  BY <1>1, <1>2 DEF HookInv
<1>3. CASE Write(t)
  <2>1. Current(t) \notin Hooks
    BY <1>1, <1>3 DEF Write, TypeInv, PlaceInv, Sound
  <2> QED
    BY <1>1, <1>3, <2>1, SameElsewhere DEF HookInv, Applies, SameAt
<1>4. CASE Toggle(t)
  <2>1. PICK g : g = Current(t)
    OBVIOUS
  <2>2. PICK to : to = IF want[t] # {} THEN Patched ELSE Original
    OBVIOUS
  <2>3. /\ code' = [code EXCEPT ![g] = to]
        /\ enabled' = IF code[g] = to THEN enabled
                      ELSE IF want[t] # {} THEN enabled \cup {g} ELSE enabled \ {g}
        /\ g \in Hooks
    BY <1>1, <1>4, <2>1, <2>2 DEF Toggle, TypeInv, PlaceInv, Sound
  <2>4. code'[g] = to /\ Original # Patched /\ \A f \in Hooks : f # g => code'[f] = code[f]
    BY <1>1, <2>3 DEF TypeInv, StateOK, Original, Patched
  <2>5. to = IF g \in enabled' THEN Patched ELSE Original
    BY <1>1, <2>2, <2>3, <2>4 DEF HookInv
  <2>6. \A f \in Hooks : f # g => (f \in enabled' <=> f \in enabled)
    BY <2>3
  <2> QED
    BY <1>1, <2>4, <2>5, <2>6 DEF HookInv
<1> QED
  BY <1>2, <1>3, <1>4
  DEF Applies, Call, Render, Search, Match, Capture, Compare, Create

\* Only a call leads to the rendering.
LEMMA RenderStep ==
  ASSUME Setting, NEW t \in Thread, Applies(t)
  PROVE  RenderInv'
<1>1. TypeInv /\ RenderInv
  BY DEF Setting, FollowInv
<1>2. ASSUME NEW u \in Thread, u # t, pc'[u] = "render" PROVE Current(u)' \in Rendered
  BY <1>1, <1>2, AppliesFrame DEF RenderInv, Current
<1>3. ASSUME pc'[t] = "render" PROVE Current(t)' \in Rendered
  <2>1. Stays(t)
    BY <1>1, <1>3, AppliesFrame DEF Moves, Ends
  <2>2. Call(t)
    BY <1>1, <1>3, <2>1, AppliesFrame, GoesOn
    DEF Applies, Render, Search, Match, Capture, Write, Compare, Toggle, Create, Moves, Ends,
        TypeInv, StateOK
  <2>3. Current(t) \in Rendered
    BY <1>1, <1>3, <2>2 DEF Call, TypeInv, StateOK
  <2> QED
    BY <2>1, <2>3 DEF Stays, Current
<1> QED
  BY <1>2, <1>3 DEF RenderInv

\* A step that touches nothing leaves its feature whole.
LEMMA WholeHere ==
  ASSUME Setting, NEW t \in Thread, Applies(t), Stays(t), NEW g, g = Current(t), Apart(g)',
         UNCHANGED <<code, searched, site, captured>>,
         pc[t] \notin {"match", "capture"}, pc'[t] \notin {"match", "capture"}
  PROVE  Whole(g)'
<1>1. TypeInv /\ Separate /\ Apart(g) /\ g \in Feature /\ Whole(g)
  BY ApartBefore, AppliesFrame, CurrentIsFeature DEF Setting, FollowInv
<1>2. /\ ~Handled(g, "match") /\ ~Handled(g, "match")'
      /\ ~Handled(g, "capture") /\ ~Handled(g, "capture")'
  BY <1>1, HandledHere
<1>3. Undoable(g) => Undoable(g)'
  BY <1>2 DEF Undoable
<1>4. InTime(g)'
  BY <1>1, InTimeHere DEF Whole
<1> QED
  BY <1>1, <1>3, <1>4 DEF Whole

\* A thread that leaves a feature has it in place, or leaves it to the watcher.
LEMMA DoneHere ==
  ASSUME Setting, NEW t \in Thread, Applies(t), NEW g, g = Current(t), Justified(t),
         Fresh(t) => Placed(g)', g \notin Hooks => Undoable(g)'
  PROVE  Whole(g)'
<1>1. CASE Fresh(t)
  BY <1>1 DEF Whole, InTime
<1>2. CASE t = "main" /\ Behind
  <2>1. Due("watcher", g)
    BY <1>2, BehindIsDue DEF Setting
  <2>2. Due("watcher", g)'
    BY <1>2, <2>1, AppliesFrame, DueOfOther DEF Setting, Thread
  <2> QED
    BY <2>2 DEF Whole, InTime
<1> QED
  BY <1>1, <1>2 DEF Justified

\* The switches are read, or those of the patch before are kept.
LEMMA OwnCall ==
  ASSUME Setting, NEW t \in Thread, Call(t), NEW g, g = Current(t)
  PROVE  Ready(t)' /\ (Apart(g)' => Whole(g)')
<1>1. /\ TypeInv /\ Applies(t) /\ pc[t] = "call" /\ pc[t] \in Applying /\ flags' = flags
      /\ UNCHANGED <<code, searched, site, captured, rendered, flags, idx>>
  BY DEF Setting, Applies, Call, Applying
<1>2. PICK l \in {"compare", "render", "write", "search"} :
        /\ pc' = [pc EXCEPT ![t] = l]
        /\ l = "search" => g \notin searched
        /\ l = "write" => g \in searched
        /\ l \in {"write", "search"} => g \notin Rendered \/ want'[t] = {}
  BY DEF Call
<1>3. pc'[t] = l /\ Stays(t) /\ l \in Applying /\ Current(t)' = g
  BY <1>1, <1>2 DEF Stays, Applying, TypeInv, StateOK, Current
<1>4. Apart(g)' => Whole(g)'
  BY <1>1, <1>2, <1>3, WholeHere
<1>5. ASSUME Apart(g)' PROVE Justified(t)'
  <2>1. CASE g \in Grouped
    <3>1. Justified(t) /\ want' = want
      <4>1. want' = want
        BY <1>1, <2>1 DEF Call, TypeInv, StateOK
      <4> QED
        BY <1>1, <1>5, <2>1, <4>1, ApartBefore DEF Setting, FollowInv, Ready
    <3>2. Fresh(t) => Fresh(t)'
      BY <1>1, <1>2, <1>3, <3>1 DEF Fresh
    <3> QED
      BY <1>1, <1>3, <3>1, <3>2, StaysJustified
  <2>2. CASE g \notin Grouped
    <3>1. want'[t] = Drivers[g] \cap flags
      BY <2>2 DEF Call, Setting, TypeInv, StateOK
    <3>2. Fresh(t)'
      BY <1>1, <1>2, <1>3, <3>1 DEF Fresh
    <3> QED
      BY <3>2 DEF Justified
  <2> QED
    BY <2>1, <2>2
<1> QED
  BY <1>1, <1>2, <1>3, <1>4, <1>5 DEF Ready

\* The bytes are rendered from the flags.
LEMMA OwnRender ==
  ASSUME Setting, NEW t \in Thread, Render(t), NEW g, g = Current(t)
  PROVE  Ready(t)' /\ (Apart(g)' => Whole(g)')
<1>1. /\ TypeInv /\ Applies(t) /\ pc[t] = "render" /\ pc[t] \in Applying
      /\ UNCHANGED <<code, searched, site, captured, want, flags, idx>>
      /\ rendered' = Rendering(want[t] \cup (flags \ Drivers[g]))
  BY DEF Setting, Applies, Render, Applying
<1>2. PICK l \in {"write", "search"} :
        /\ pc' = [pc EXCEPT ![t] = l]
        /\ l = "search" => g \notin searched
        /\ l = "write" => g \in searched
  BY DEF Render
<1>3. pc'[t] = l /\ Stays(t) /\ l \in Applying /\ Current(t)' = g
  BY <1>1, <1>2 DEF Stays, Applying, TypeInv, StateOK, Current
<1>4. Apart(g)' => Whole(g)'
  BY <1>1, <1>2, <1>3, WholeHere
<1>5. ASSUME Apart(g)' PROVE Justified(t)'
  <2>1. Justified(t)
    BY <1>1, <1>5, ApartBefore DEF Setting, FollowInv, Ready
  <2>2. Fresh(t) => Fresh(t)'
    <3> SUFFICES ASSUME Fresh(t) PROVE Fresh(t)'
      OBVIOUS
    <3>1. want[t] = Drivers[g] \cap flags
      BY DEF Fresh
    <3>2. want[t] \cup (flags \ Drivers[g]) = flags
      BY <3>1
    <3> QED
      BY <1>1, <1>3, <3>1, <3>2 DEF Fresh
  <2> QED
    BY <1>1, <1>3, <2>1, <2>2, StaysJustified
<1> QED
  BY <1>1, <1>2, <1>3, <1>4, <1>5 DEF Ready

\* A patch is marked as searched, looked for, and its bytes are remembered.
LEMMA OwnSearch ==
  ASSUME Setting, NEW t \in Thread, Search(t) \/ Match(t) \/ Capture(t), NEW g, g = Current(t)
  PROVE  Ready(t)' /\ (Apart(g)' => Whole(g)')
<1>1. /\ TypeInv /\ Separate /\ Applies(t) /\ pc[t] \in {"search", "match", "capture"}
      /\ pc[t] \in Applying /\ g \in Feature
      /\ UNCHANGED <<code, rendered, want, flags, idx>>
  BY CurrentIsFeature DEF Setting, Applies, Search, Match, Capture, Applying
<1>2. PICK l \in {"match", "capture", "write"} :
        /\ pc' = [pc EXCEPT ![t] = l]
        /\ Search(t) => l = "match" /\ pc[t] = "search"
        /\ Match(t) => l = "capture" /\ pc[t] = "match"
        /\ Capture(t) => l = "write" /\ pc[t] = "capture"
  BY DEF Search, Match, Capture
<1>3. pc'[t] = l /\ Stays(t) /\ l \in Applying /\ Current(t)' = g
  BY <1>1, <1>2 DEF Stays, Applying, TypeInv, StateOK, Current
<1> SUFFICES ASSUME Apart(g)' PROVE Ready(t)' /\ Whole(g)'
  BY <1>3 DEF Ready
<1>4. Apart(g) /\ Ready(t) /\ Whole(g) /\ Justified(t)
  BY <1>1, ApartBefore DEF Setting, FollowInv, Ready
<1>5. g \in searched'
  BY <1>1, <1>4 DEF Search, Match, Capture, Ready
<1>6. Justified(t)'
  <2>1. Fresh(t) => Fresh(t)'
    BY <1>1, <1>2, <1>3 DEF Fresh
  <2> QED
    BY <1>1, <1>3, <1>4, <2>1, StaysJustified
<1>7. Undoable(g) => Undoable(g)'
  <2> SUFFICES ASSUME Undoable(g)
               PROVE  /\ g \notin searched' => code'[g] = Original
                      /\ g \in searched' \cap Present => g \in site' \/ Handled(g, "match")'
                      /\ g \in site' => captured'[g] = Original \/ Handled(g, "capture")'
                      /\ Handled(g, "match")' \/ Handled(g, "capture")' => code'[g] = Original
    BY DEF Undoable
  <2>1. /\ Handled(g, "match") <=> pc[t] = "match"
        /\ Handled(g, "match")' <=> l = "match"
        /\ Handled(g, "capture") <=> pc[t] = "capture"
        /\ Handled(g, "capture")' <=> l = "capture"
    BY <1>1, <1>3, <1>4, HandledHere
  <2>2. /\ g \notin searched => code[g] = Original
        /\ g \in searched \cap Present => g \in site \/ Handled(g, "match")
        /\ g \in site => captured[g] = Original \/ Handled(g, "capture")
        /\ Handled(g, "match") \/ Handled(g, "capture") => code[g] = Original
    BY DEF Undoable
  <2>3. CASE Search(t)
    BY <1>1, <1>2, <1>4, <2>1, <2>2, <2>3 DEF Search, Ready
  <2>4. CASE Match(t)
    BY <1>1, <1>2, <2>1, <2>2, <2>4 DEF Match
  <2>5. CASE Capture(t)
    <3>1. captured' = IF g \in site THEN [captured EXCEPT ![g] = code[g]] ELSE captured
      BY <2>5 DEF Capture
    <3>2. g \in site => captured'[g] = Original
      BY <1>1, <1>2, <2>1, <2>2, <2>5, <3>1 DEF TypeInv, StateOK
    <3> QED
      BY <1>2, <2>1, <2>2, <2>5, <3>2 DEF Capture
  <2> QED
    BY <2>3, <2>4, <2>5
<1>8. InTime(g)'
  BY <1>1, <1>3, <1>4, InTimeHere DEF Whole
<1> QED
  BY <1>2, <1>3, <1>4, <1>5, <1>6, <1>7, <1>8 DEF Whole, Ready

\* What is in place when a patch, or a hook, is as its switches want it.
LEMMA BytesWanted ==
  ASSUME NEW f \in Feature
  PROVE  /\ BytesFor(f, flags) = IF Drivers[f] \cap flags = {} THEN Original
                                 ELSE IF f \in Rendered THEN Rendering(flags) ELSE Patched
         /\ f \in Hooks => f \notin Rendered /\ f \notin Grouped
         /\ Original # Patched
BY PatchesAssumption DEF BytesFor, Original, Patched

\* A located patch gets the bytes that are wanted.
LEMMA OwnWrite ==
  ASSUME Setting, NEW t \in Thread, Write(t), NEW g, g = Current(t)
  PROVE  Ready(t)' /\ (Apart(g)' => Whole(g)')
<1>1. /\ TypeInv /\ Separate /\ Applies(t) /\ pc[t] = "write" /\ pc[t] \in Applying
      /\ g \in Feature \ Hooks /\ NextFeature(t)
      /\ UNCHANGED <<want, flags, rendered, searched, site, captured>>
  BY DEF Setting, Applies, Write, Applying, TypeInv, PlaceInv, Sound
<1>2. ~Stays(t) /\ pc'[t] \notin {"match", "capture"}
  BY <1>1, GoesOnAway
<1>3. Ready(t)'
  BY <1>1, <1>2, ArrivesReady
<1> SUFFICES ASSUME Apart(g)' PROVE Whole(g)'
  BY <1>3
<1>4. Apart(g) /\ g \in searched /\ Justified(t) /\ Undoable(g)
  BY <1>1, ApartBefore DEF Setting, FollowInv, Ready, Whole
<1>5. /\ ~Handled(g, "match") /\ ~Handled(g, "match")'
      /\ ~Handled(g, "capture") /\ ~Handled(g, "capture")'
  BY <1>1, <1>2, <1>4, HandledHere
<1>6. g \in Present => g \in site /\ captured[g] = Original
  BY <1>4, <1>5 DEF Undoable
<1>7. Undoable(g)'
  BY <1>1, <1>4, <1>5 DEF Undoable
<1>8. Fresh(t) => Placed(g)'
  <2> SUFFICES ASSUME Fresh(t), g \in Present PROVE code'[g] = BytesFor(g, flags)
    BY <1>1 DEF Placed
  <2>1. code'[g] = BytesToWrite(t)
    BY <1>1, <1>6 DEF Write, TypeInv, StateOK
  <2>2. want[t] = Drivers[g] \cap flags /\ (g \in Rendered /\ want[t] # {} => rendered = Rendering(flags))
    BY <1>1 DEF Fresh
  <2>3. BytesToWrite(t) = BytesFor(g, flags)
    BY <1>1, <1>6, <2>2, BytesWanted DEF BytesToWrite
  <2> QED
    BY <2>1, <2>3
<1> QED
  BY <1>1, <1>4, <1>7, <1>8, DoneHere

\* A hook that is as wanted is passed, and one that is not will be switched.
LEMMA OwnCompare ==
  ASSUME Setting, NEW t \in Thread, Compare(t), NEW g, g = Current(t)
  PROVE  Ready(t)' /\ (Apart(g)' => Whole(g)')
<1>1. /\ TypeInv /\ Applies(t) /\ pc[t] = "compare" /\ pc[t] \in Applying
      /\ g \in Hooks /\ g \in Feature
      /\ UNCHANGED <<want, flags, patchVars, hookVars>>
  BY HooksAssumption DEF Setting, Applies, Compare, Applying, TypeInv, PlaceInv, Sound
<1>2. ASSUME Apart(g)' PROVE Apart(g) /\ Justified(t) /\ InTime(g)
  BY <1>1, <1>2, ApartBefore DEF Setting, FollowInv, Ready, Whole
<1>3. CASE g \in created /\ (want[t] # {}) # (g \in enabled)
  <2>1. pc' = [pc EXCEPT ![t] = "toggle"] /\ idx' = idx
    BY <1>1, <1>3 DEF Compare
  <2>2. pc'[t] = "toggle" /\ Stays(t) /\ Current(t)' = g
    BY <1>1, <2>1 DEF Stays, Applying, TypeInv, StateOK, Current
  <2>3. Apart(g)' => Whole(g)'
    BY <1>1, <2>2, WholeHere
  <2>4. ASSUME Apart(g)' PROVE Justified(t)'
    <3>1. Fresh(t) => Fresh(t)'
      BY <1>1, <2>2 DEF Fresh
    <3> QED
      BY <1>1, <1>2, <2>2, <2>4, <3>1, StaysJustified
  <2> QED
    BY <2>2, <2>3, <2>4 DEF Ready
<1>4. CASE NextFeature(t) /\ ~(g \in created /\ (want[t] # {}) # (g \in enabled))
  <2>1. ~Stays(t)
    BY <1>1, <1>4, GoesOnAway
  <2>2. Ready(t)'
    BY <1>1, <2>1, ArrivesReady
  <2>3. ASSUME Apart(g)' PROVE Whole(g)'
    <3>1. CASE g \in Present /\ g \notin created
      <4>1. Due("main", g)
        BY <1>1, <3>1 DEF Setting, FollowInv, CreatedInv
      <4>2. Due("main", g)'
        <5>1. CASE t = "main"
          <6>1. ~(idx["main"] > Len(Order))
            BY <1>1, <3>1, <5>1 DEF Setting, FollowInv, CreatedInv
          <6>2. ~Counts(t, idx[t])
            BY <1>1, <5>1, <6>1 DEF Counts, Current
          <6> QED
            BY <1>1, <4>1, <5>1, <6>2, DueOfOwn
        <5>2. CASE t # "main"
          BY <1>1, <4>1, <5>2, AppliesFrame, DueOfOther DEF Thread
        <5> QED
          BY <5>1, <5>2
      <4> QED
        BY <1>1, <4>2 DEF Whole, InTime
    <3>2. CASE ~(g \in Present /\ g \notin created)
      <4>1. Fresh(t) => Placed(g)'
        <5> SUFFICES ASSUME Fresh(t), g \in Present PROVE code[g] = BytesFor(g, flags)
          BY <1>1 DEF Placed
        <5>1. (want[t] # {}) <=> (g \in enabled)
          BY <1>4, <3>2
        <5>2. code[g] = IF g \in enabled THEN Patched ELSE Original
          BY <1>1 DEF Setting, FollowInv, HookInv
        <5>3. want[t] = Drivers[g] \cap flags
          BY DEF Fresh
        <5> QED
          BY <1>1, <5>1, <5>2, <5>3, BytesWanted
      <4> QED
        BY <1>1, <1>2, <2>3, <4>1, DoneHere
    <3> QED
      BY <3>1, <3>2
  <2> QED
    BY <2>2, <2>3
<1> QED
  BY <1>3, <1>4 DEF Compare

\* A hook is switched to what is wanted.
LEMMA OwnToggle ==
  ASSUME Setting, NEW t \in Thread, Toggle(t), NEW g, g = Current(t)
  PROVE  Ready(t)' /\ (Apart(g)' => Whole(g)')
<1>1. /\ TypeInv /\ Applies(t) /\ pc[t] = "toggle" /\ pc[t] \in Applying
      /\ g \in Hooks /\ g \in Feature /\ NextFeature(t)
      /\ UNCHANGED <<want, flags>>
  BY HooksAssumption DEF Setting, Applies, Toggle, Applying, TypeInv, PlaceInv, Sound
<1>2. ~Stays(t)
  BY <1>1, GoesOnAway
<1>3. Ready(t)'
  BY <1>1, <1>2, ArrivesReady
<1>4. ASSUME Apart(g)' PROVE Whole(g)'
  <2>1. Justified(t)
    BY <1>1, <1>4, ApartBefore DEF Setting, FollowInv, Ready
  <2>2. code'[g] = IF want[t] # {} THEN Patched ELSE Original
    BY <1>1 DEF Toggle, TypeInv, StateOK
  <2>3. Fresh(t) => Placed(g)'
    BY <1>1, <2>2, BytesWanted DEF Placed, Fresh
  <2> QED
    BY <1>1, <2>1, <2>3, DoneHere
<1> QED
  BY <1>3, <1>4

\* A hook is created and will be applied; one this client lacks is passed.
LEMMA OwnCreate ==
  ASSUME Setting, Create, NEW g, g = Current("main")
  PROVE  Ready("main")' /\ (Apart(g)' => Whole(g)')
<1> DEFINE t == "main"
<1>1. /\ TypeInv /\ t \in Thread /\ Applies(t) /\ pc[t] = "create" /\ pc[t] \in Applying
      /\ idx[t] > Len(Order) /\ UNCHANGED <<want, flags, patchVars, enabled>>
  BY DEF Setting, Applies, Create, Applying, TypeInv, PlaceInv, Sound, Thread
<1>2. g \in Hooks /\ g \in Feature /\ g \notin Grouped
  BY <1>1, CurrentIsFeature, BytesWanted
<1>3. CASE g \in Present
  <2>1. pc' = [pc EXCEPT ![t] = "call"] /\ idx' = idx
    BY <1>1, <1>3 DEF Create
  <2>2. pc'[t] = "call" /\ Stays(t) /\ Current(t)' = g
    BY <1>1, <2>1 DEF Stays, Applying, TypeInv, StateOK, Current
  <2>3. Apart(g)' => Whole(g)'
    BY <1>1, <2>2, WholeHere
  <2> QED
    BY <1>2, <2>2, <2>3 DEF Ready
<1>4. CASE g \notin Present
  <2>1. NextFeature(t)
    BY <1>4 DEF Create
  <2>2. ~Stays(t)
    BY <1>1, <2>1, GoesOnAway
  <2>3. Ready(t)'
    BY <1>1, <2>2, ArrivesReady
  <2>4. Whole(g)'
    BY <1>2, <1>4 DEF Whole, InTime, Placed
  <2> QED
    BY <2>3, <2>4
<1> QED
  BY <1>3, <1>4

\* A step of pg_apply_mem_patches.
LEMMA FollowsApplying ==
  ASSUME Setting, NEW t \in Thread, Applies(t)
  PROVE  FollowInv'
<1>1. PICK g : g = Current(t)
  OBVIOUS
<1>2. Ready(t)' /\ (Apart(g)' => Whole(g)')
  <2>1. CASE Call(t) \/ Render(t) \/ Write(t)
    BY <1>1, <2>1, OwnCall, OwnRender, OwnWrite
  <2>2. CASE Search(t) \/ Match(t) \/ Capture(t)
    BY <1>1, <2>2, OwnSearch
  <2>3. CASE Compare(t) \/ Toggle(t) \/ (t = "main" /\ Create)
    BY <1>1, <2>3, OwnCompare, OwnToggle, OwnCreate
  <2> QED
    BY <2>1, <2>2, <2>3 DEF Applies
<1>3. \A u \in Thread : Ready(u)'
  BY <1>2, OtherIsReady
<1>4. \A f \in Feature : Apart(f)' => Whole(f)'
  BY <1>1, <1>2, WholeElsewhere
<1>5. Early'
  <2>1. /\ TypeInv /\ Early /\ pc[t] \in Applying
        /\ \A u \in Thread : u # t => pc'[u] = pc[u]
        /\ Stays(t) \/ Moves(t) \/ Ends(t)
    BY AppliesFrame DEF Setting, FollowInv
  <2>2. pc'[t] \notin {"open", "read", "load", "spawn"}
    BY <2>1 DEF Stays, Moves, Ends, Applying
  <2> QED
    BY <2>1, <2>2 DEF Early, Thread, Applying
<1> QED
  BY <1>3, <1>4, <1>5, CreatedStep, HookStep, RenderStep DEF FollowInv

----------------------------------------------------------------------------
(* Reading and loading.                                                    *)

\* What the other steps leave alone of the client, and whom of a patch.
Untouched ==
  /\ UNCHANGED <<want, patchVars, hookVars>>
  /\ \A u \in Thread :
        \/ pc'[u] = pc[u] /\ (pc[u] \in Applying => idx'[u] = idx[u])
        \/ pc[u] \notin Applying /\ pc'[u] \notin Applying
        \/ pc[u] \notin Applying /\ pc'[u] = "call" /\ idx'[u] = 1

\* Every feature lies ahead of a thread at the first one.
LEMMA AllAhead ==
  ASSUME NEW t \in Thread, pc'[t] = "call", idx'[t] = 1
  PROVE  /\ \A f \in Feature : Due(t, f)'
         /\ Current(t)' = Work[1] /\ Work[1] \notin Grouped
         /\ ~(idx'[t] > Len(Order))
<1>1. /\ Len(Order) \in Nat \ {0} /\ Len(Work) \in Nat /\ Len(Work) >= Len(Order)
      /\ Work[1] = Order[1] /\ 1 \in DOMAIN Order
  BY WorkPlaces, OrderAssumption
<1>2. Work[1] \notin Grouped
  BY <1>1, GroupedAssumption
<1>3. pc'[t] \in Applying /\ End[t] \in {Len(Work), Len(Order)} /\ (t = "main" => End[t] = Len(Work))
  BY DEF Applying, End, Thread
<1>4. ASSUME NEW f \in Feature PROVE \E j \in 1 .. End[t] : Work[j] = f /\ Counts(t, j)
  <2>1. PICK j \in 1 .. Len(Order) : Work[j] = f
    BY WorkPlaces
  <2>2. CASE t = "main" /\ f \in Hooks
    <3>1. PICK k \in Len(Order) + 1 .. Len(Work) : Work[k] = f
      BY <2>2, WorkPlaces
    <3> QED
      BY <1>1, <1>3, <2>2, <3>1 DEF Counts
  <2>3. CASE ~(t = "main" /\ f \in Hooks)
    BY <1>1, <1>3, <2>1, <2>3 DEF Counts
  <2> QED
    BY <2>2, <2>3
<1> QED
  BY <1>1, <1>2, <1>3, <1>4 DEF Due, Counts, Current

\* What these steps do not disturb.
LEMMA FollowsUntouched ==
  ASSUME Setting, Untouched
  PROVE  /\ HookInv' /\ RenderInv'
         /\ \A f : Undoable(f) => Undoable(f)'
<1>1. HookInv'
  BY DEF Setting, FollowInv, HookInv, Untouched
<1>2. RenderInv'
  BY DEF Setting, FollowInv, RenderInv, Untouched, Current, Applying
<1>3. ASSUME NEW f, NEW l \in {"match", "capture"} PROVE Handled(f, l)' <=> Handled(f, l)
  <2>1. ASSUME NEW u \in Thread
        PROVE  (pc'[u] = l /\ Current(u)' = f) <=> (pc[u] = l /\ Current(u) = f)
    BY DEF Untouched, Current, Applying
  <2> QED
    BY <2>1 DEF Handled
<1>4. ASSUME NEW f, Undoable(f) PROVE Undoable(f)'
  BY <1>3, <1>4 DEF Undoable, Untouched
<1> QED
  BY <1>1, <1>2, <1>4

\* The GUI saves, the file is read, the watcher sleeps.
LEMMA FollowsQuiet ==
  ASSUME Setting,
         \/ Gui \/ Wake \/ UNCHANGED <<pc, idx, want, flags, patchVars, hookVars>>
         \/ \E t \in Thread : Open(t) \/ Read(t)
  PROVE  FollowInv'
<1>1. pc \in [Thread -> Label] /\ idx \in [Thread -> 1 .. Longest] /\ Early
  BY DEF Setting, TypeInv, StateOK, FollowInv
<1>2. UNCHANGED <<want, flags, patchVars, hookVars>>
  BY DEF Gui, BeginSave, EndSave, LoseSave, Wake, Open, Read
<1>3. ASSUME NEW u \in Thread
      PROVE  \/ pc'[u] = pc[u] /\ idx'[u] = idx[u]
             \/ /\ pc[u] \in {"open", "read", "asleep"} /\ pc'[u] \in {"open", "read", "load", "asleep"}
                /\ u = "main" => pc[u] # "asleep" /\ pc'[u] # "asleep"
  <2>1. CASE Gui \/ Wake \/ UNCHANGED <<pc, idx, want, flags, patchVars, hookVars>>
    BY <1>1, <2>1 DEF Gui, BeginSave, EndSave, LoseSave, Wake
  <2>2. ASSUME NEW t \in Thread, Open(t) \/ Read(t)
        PROVE  /\ u # t => pc'[u] = pc[u] /\ idx'[u] = idx[u]
               /\ u = t => /\ pc[u] \in {"open", "read"} /\ pc'[u] \in {"read", "load", "asleep"}
                           /\ u = "main" => pc'[u] # "asleep"
    BY <1>1, <2>2 DEF Open, Read, AfterRead
  <2> QED
    BY <2>1, <2>2
<1>4. Untouched
  BY <1>2, <1>3 DEF Untouched, Applying
<1>5. ASSUME NEW u \in Thread, NEW f, Due(u, f) PROVE Due(u, f)'
  <2>1. CASE pc'[u] = pc[u] /\ idx'[u] = idx[u]
    BY <1>5, <2>1, DueOfOther
  <2>2. CASE ~(pc'[u] = pc[u] /\ idx'[u] = idx[u])
    <3>1. Before(u)
      BY <1>3, <1>5, <2>2 DEF Due, Applying
    <3>2. Before(u)'
      BY <1>3, <2>2, <3>1 DEF Before
    <3> QED
      BY <3>2 DEF Due
  <2> QED
    BY <2>1, <2>2
<1>6. ASSUME NEW u \in Thread, pc'[u] \in Applying
      PROVE  pc'[u] = pc[u] /\ idx'[u] = idx[u] /\ Current(u)' = Current(u)
  BY <1>3, <1>6 DEF Applying, Current
<1>7. ASSUME NEW u \in Thread PROVE Ready(u)'
  <2> SUFFICES ASSUME pc'[u] \in Applying, Apart(Current(u))' PROVE Ready(u)'
    BY DEF Ready
  <2>1. Apart(Current(u)) /\ Ready(u) /\ pc'[u] = pc[u] /\ Current(u)' = Current(u)
    BY <1>6, ApartBefore DEF Setting, FollowInv, Apart
  <2>2. Fresh(u) => Fresh(u)'
    BY <1>2, <2>1 DEF Fresh
  <2>3. u = "main" /\ Behind => Behind'
    <3> SUFFICES ASSUME u = "main", Behind PROVE Behind'
      OBVIOUS
    <3>1. idx'["main"] = idx["main"]
      BY <1>6
    <3>2. pc'["watcher"] = pc["watcher"] /\ idx'["watcher"] = idx["watcher"]
      BY <1>3 DEF Behind, Applying, Thread
    <3> QED
      BY <2>1, <3>1, <3>2 DEF Behind
  <2> QED
    BY <1>2, <2>1, <2>2, <2>3 DEF Ready, Justified
<1>8. Early'
  <2>1. pc'["main"] \in {"open", "read", "load", "spawn"} => pc["main"] \in {"open", "read", "load", "spawn"}
    BY <1>3 DEF Thread
  <2>2. pc["watcher"] = "off" => pc'["watcher"] = "off"
    BY <1>3 DEF Thread
  <2> QED
    BY <1>1, <2>1, <2>2 DEF Early
<1>9. CreatedInv'
  <2>1. \A f \in Hooks \cap Present : f \in created \/ Due("main", f)'
    BY <1>5 DEF Setting, FollowInv, CreatedInv, Thread
  <2>2. pc'["main"] \in Applying \ {"create"} /\ idx'["main"] > Len(Order)
          => Current("main")' \in created
    BY <1>6 DEF Setting, FollowInv, CreatedInv, Thread
  <2> QED
    BY <1>2, <2>1, <2>2 DEF CreatedInv
<1>10. ASSUME NEW f \in Feature, Apart(f)' PROVE Whole(f)'
  <2>1. Whole(f)
    BY <1>10, ApartBefore DEF Setting, FollowInv
  <2>2. Undoable(f) => Undoable(f)'
    BY <1>4, FollowsUntouched
  <2>3. Placed(f) => Placed(f)'
    BY <1>2 DEF Placed
  <2> QED
    BY <1>5, <2>1, <2>2, <2>3 DEF Whole, InTime, Thread
<1> QED
  BY <1>4, <1>7, <1>8, <1>9, <1>10, FollowsUntouched DEF FollowInv

\* Start-up loads before there is a watcher, and all is still to be applied.
LEMMA FollowsFirstLoad ==
  ASSUME Setting, Load("main")
  PROVE  FollowInv'
<1>1. /\ pc \in [Thread -> Label] /\ idx \in [Thread -> 1 .. Longest]
      /\ "main" \in Thread /\ "watcher" \in Thread
      /\ pc["main"] = "load" /\ pc["watcher"] = "off"
  BY DEF Setting, TypeInv, StateOK, FollowInv, Early, Load, Thread
<1>2. UNCHANGED <<want, patchVars, hookVars>>
  BY DEF Load
<1>3. pc'["main"] \in {"load", "spawn"} /\ pc'["watcher"] = "off" /\ idx'["watcher"] = idx["watcher"]
  BY <1>1 DEF Load
<1>4. Untouched
  BY <1>1, <1>2, <1>3 DEF Untouched, Applying, Thread
<1>5. \A f : Due("main", f)'
  BY <1>3 DEF Due, Before
<1>6. \A u \in Thread : Ready(u)'
  BY <1>3 DEF Ready, Applying, Thread
<1>7. Early' /\ CreatedInv'
  BY <1>3, <1>5 DEF Early, CreatedInv, Applying
<1>8. ASSUME NEW f \in Feature, Apart(f)' PROVE Whole(f)'
  <2>1. f \notin Hooks => Undoable(f)
    BY <1>8, ApartBefore DEF Setting, FollowInv, Whole
  <2>2. f \notin Hooks => Undoable(f)'
    BY <1>4, <2>1, FollowsUntouched
  <2> QED
    BY <1>5, <2>2 DEF Whole, InTime
<1> QED
  BY <1>4, <1>6, <1>7, <1>8, FollowsUntouched DEF FollowInv

\* Start-up begins to apply, and the watcher to read.
LEMMA FollowsSpawn ==
  ASSUME Setting, Spawn
  PROVE  FollowInv'
<1>1. /\ pc["main"] = "spawn" /\ idx["main"] = 1 /\ "main" \in Thread /\ "watcher" \in Thread
      /\ pc["watcher"] = "off"
  BY DEF Setting, TypeInv, PlaceInv, Sound, FollowInv, Early, Spawn, Thread
<1>2. /\ UNCHANGED <<want, flags, patchVars, hookVars>> /\ idx' = idx
      /\ pc'["main"] = "call" /\ pc'["watcher"] = "open"
  BY DEF Spawn
<1>3. Untouched
  BY <1>1, <1>2 DEF Untouched, Applying, Thread
<1>4. /\ \A f \in Feature : Due("main", f)'
      /\ Current("main")' \notin Grouped /\ ~(idx'["main"] > Len(Order))
  BY <1>1, <1>2, AllAhead
<1>5. \A u \in Thread : Ready(u)'
  BY <1>2, <1>4 DEF Ready, Applying, Thread
<1>6. Early' /\ CreatedInv'
  BY <1>2, <1>4, HooksAssumption DEF Early, CreatedInv
<1>7. ASSUME NEW f \in Feature, Apart(f)' PROVE Whole(f)'
  <2>1. f \notin Hooks => Undoable(f)
    BY <1>7, ApartBefore DEF Setting, FollowInv, Whole
  <2>2. f \notin Hooks => Undoable(f)'
    BY <1>3, <2>1, FollowsUntouched
  <2> QED
    BY <1>4, <1>7, <2>2 DEF Whole, InTime
<1> QED
  BY <1>3, <1>5, <1>6, <1>7, FollowsUntouched DEF FollowInv

\* While the watcher loads, and when it has, it has every feature still to come to, also
\* the one start-up is at.
LEMMA FollowsReload ==
  ASSUME Setting, Load("watcher")
  PROVE  FollowInv'
<1>1. /\ TypeInv /\ pc \in [Thread -> Label] /\ idx \in [Thread -> 1 .. Longest]
      /\ "main" \in Thread /\ "watcher" \in Thread /\ pc["watcher"] = "load"
      /\ pc["main"] \notin {"open", "read", "load", "spawn"}
  BY DEF Setting, TypeInv, StateOK, FollowInv, Early, Load, Thread
<1>2. UNCHANGED <<want, patchVars, hookVars>>
  BY DEF Load
<1>3. /\ pc'["main"] = pc["main"] /\ idx'["main"] = idx["main"]
      /\ Current("main")' = Current("main")
      /\ pc'["watcher"] = "load" \/ (pc'["watcher"] = "call" /\ idx'["watcher"] = 1)
  BY <1>1 DEF Load, Current
<1>4. Untouched
  BY <1>1, <1>2, <1>3 DEF Untouched, Applying, Thread
<1>5. \A f \in Feature : Due("watcher", f)'
  BY <1>1, <1>3, AllAhead DEF Due, Before
<1>6. ASSUME pc["main"] \in Applying, Apart(Current("main"))' PROVE Behind'
  <2>1. CASE pc'["watcher"] = "load"
    BY <2>1 DEF Behind
  <2>2. CASE pc'["watcher"] = "call" /\ idx'["watcher"] = 1
    <3>1. Current("watcher")' = Work[1] /\ pc'["watcher"] \in Applying
      BY <1>1, <2>2, AllAhead DEF Applying
    <3>2. Drivers[Current("watcher")'] # Drivers[Current("main")']
      BY <1>1, <1>3, <1>6, <3>1 DEF Setting, Separate
    <3>3. Current("main") # Work[1] /\ Current("main") \in Feature
      BY <1>1, <1>3, <1>6, <3>1, <3>2, CurrentIsFeature
    <3>4. idx["main"] \in Nat /\ idx["main"] >= 1 /\ Len(Order) \in Nat
      BY <1>1, WorkPlaces
    <3>5. \E j \in 2 .. Len(Order) :
            Work[j] = Current("main") /\ (idx["main"] <= Len(Order) => j = idx["main"])
      <4>1. CASE idx["main"] <= Len(Order)
        <5>1. idx["main"] # 1
          BY <3>3 DEF Current
        <5> QED
          BY <3>4, <4>1, <5>1 DEF Current
      <4>2. CASE ~(idx["main"] <= Len(Order))
        <5>1. PICK j \in 1 .. Len(Order) : Work[j] = Current("main")
          BY <3>3, WorkPlaces
        <5> QED
          BY <3>3, <3>4, <4>2, <5>1
      <4> QED
        BY <4>1, <4>2
    <3>6. idx'["watcher"] + 1 = 2
      BY <2>2
    <3> QED
      BY <1>3, <3>1, <3>5, <3>6 DEF Behind
  <2> QED
    BY <1>3, <2>1, <2>2
<1>7. Ready("main")'
  <2> SUFFICES ASSUME pc["main"] \in Applying, Apart(Current("main"))' PROVE Ready("main")'
    BY <1>3 DEF Ready
  <2>1. Apart(Current("main")) /\ Ready("main")
    BY <1>1, <1>3 DEF Setting, FollowInv, Apart
  <2> QED
    BY <1>2, <1>3, <1>6, <2>1 DEF Ready, Justified
<1>8. Ready("watcher")'
  BY <1>1, <1>3, AllAhead DEF Ready, Applying
<1>9. Early' /\ CreatedInv'
  <2>1. \A f : Due("main", f)' <=> Due("main", f)
    BY <1>1, <1>3, DueOfOther
  <2> QED
    BY <1>1, <1>2, <1>3, <2>1 DEF Early, Setting, FollowInv, CreatedInv
<1>10. ASSUME NEW f \in Feature, Apart(f)' PROVE Whole(f)'
  <2>1. f \notin Hooks => Undoable(f)
    BY <1>10, ApartBefore DEF Setting, FollowInv, Whole
  <2>2. f \notin Hooks => Undoable(f)'
    BY <1>4, <2>1, FollowsUntouched
  <2> QED
    BY <1>5, <2>2 DEF Whole, InTime
<1>11. \A u \in Thread : Ready(u)'
  BY <1>7, <1>8 DEF Thread
<1> QED
  BY <1>4, <1>9, <1>10, <1>11, FollowsUntouched DEF FollowInv

\* All of Next, and stuttering.
LEMMA FollowStep ==
  ASSUME Setting, [Next]_vars
  PROVE  FollowInv'
<1>1. CASE Gui \/ Wake \/ UNCHANGED vars
  BY <1>1, FollowsQuiet
<1>2. ASSUME NEW t \in Thread, Step(t) PROVE FollowInv'
  <2>1. CASE Open(t) \/ Read(t)
    BY <2>1, FollowsQuiet
  <2>2. CASE Load(t)
    BY <2>2, FollowsFirstLoad, FollowsReload DEF Thread
  <2>3. CASE Applies(t)
    BY <2>3, FollowsApplying
  <2> QED
    BY <1>2, <2>1, <2>2, <2>3 DEF Step, Applies
<1>3. CASE Spawn
  BY <1>3, FollowsSpawn
<1>4. CASE Create
  BY <1>4, FollowsApplying DEF Thread, Applies
<1> QED
  BY <1>1, <1>2, <1>3, <1>4 DEF Next, Main, Watcher, Thread

\* A meeting is noted when it happens.
LEMMA SeenStep == Seen /\ [Next]_vars => Seen' /\ met \subseteq met'
<1> SUFFICES ASSUME Seen, [Next]_vars PROVE Seen' /\ met \subseteq met'
  OBVIOUS
<1>1. CASE Gui \/ UNCHANGED vars
  <2>1. Meeting' = Meeting /\ met' = met
    BY <1>1 DEF Gui, BeginSave, EndSave, LoseSave, Meeting, Switches, Current
  <2> QED
    BY <2>1 DEF Seen
<1>2. CASE Main \/ Watcher
  BY <1>2 DEF Main, Watcher, Seen
<1> QED
  BY <1>1, <1>2 DEF Next

\* Between reloads every patch and hook of the client is as the flags want it, unless
\* start-up and a reload were once at features of its switches at the same time.
THEOREM CodeFollowsFlags_Always == Spec => []CodeFollowsFlags
<1>1. Init => Seen /\ FollowInv
  <2> SUFFICES ASSUME Init PROVE Seen /\ FollowInv
    OBVIOUS
  <2>1. pc["main"] = "open" /\ pc["watcher"] = "off" /\ \A t \in Thread : pc[t] \in {"open", "off"}
    BY DEF Init, Thread
  <2>2. Seen /\ Early /\ RenderInv /\ \A t \in Thread : Ready(t)
    BY <2>1 DEF Seen, Meeting, Switches, Early, RenderInv, Ready, Applying
  <2>3. \A f : Due("main", f)
    BY <2>1 DEF Due, Before
  <2>4. CreatedInv
    BY <2>1, <2>3 DEF CreatedInv, Applying
  <2>5. HookInv
    BY HooksAssumption DEF HookInv, Init
  <2>6. ASSUME NEW f \in Feature PROVE Whole(f)
    <3>1. ~Handled(f, "match") /\ ~Handled(f, "capture")
      BY <2>1 DEF Handled
    <3>2. Undoable(f)
      BY <3>1 DEF Undoable, Init
    <3> QED
      BY <2>3, <3>2 DEF Whole, InTime
  <2> QED
    BY <2>2, <2>4, <2>5, <2>6 DEF FollowInv
<1>2. (Seen => Separate)'
  BY SeenIsSeparate, PTL
<1>3. TypeInv /\ Seen /\ FollowInv /\ [Next]_vars => (Seen /\ FollowInv)'
  <2> SUFFICES ASSUME TypeInv, Seen, FollowInv, [Next]_vars PROVE (Seen /\ FollowInv)'
    OBVIOUS
  <2>1. Seen' /\ met \subseteq met'
    BY SeenStep
  <2>2. Setting
    BY <1>2, <2>1, SeenIsSeparate DEF Setting
  <2> QED
    BY <2>1, <2>2, FollowStep
<1>4. FollowInv => CodeFollowsFlags
  <2> SUFFICES ASSUME FollowInv, Settled, NEW f \in Present, Drivers[f] \notin met
               PROVE  code[f] = BytesFor(f, flags)
    BY DEF CodeFollowsFlags
  <2>1. f \in Feature /\ InTime(f)
    BY HooksAssumption DEF FollowInv, Apart, Whole
  <2>2. ~Due("main", f) /\ ~Due("watcher", f)
    BY DEF Settled, Due, Before, Applying
  <2> QED
    BY <2>1, <2>2 DEF InTime, Placed
<1> QED
  BY <1>1, <1>3, <1>4, InitType, TypeStep, PTL DEF Spec
=============================================================================
