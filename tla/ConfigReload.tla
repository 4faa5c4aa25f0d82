----------------------------- MODULE ConfigReload -----------------------------
(***************************************************************************)
(* How a change made in the GUI reaches the running client.  The GUI saves *)
(* PatchgramRuntime.json by truncating and writing it.  In the client the  *)
(* thread that installs the hooks loads the file once and starts           *)
(* configWatcher, which reads it every second and loads it when its text   *)
(* has changed.  Both threads then run pg_apply_mem_patches: each patch is *)
(* located in .text once, by its original bytes, which are kept for the    *)
(* way back; display hooks are created at start-up and switched on and off.*)
(* One switch may drive several patches and several switches one hook; the *)
(* bytes of the credits patch are rendered from the configuration.  No     *)
(* lock protects any of it.                                                *)
(***************************************************************************)
EXTENDS Integers, Sequences, FiniteSets

CONSTANTS
  Keys,          \* the keys pg_config_load looks up, in order
  Order,         \* the patches and hooks pg_apply_mem_patches goes through, in order
  Drivers,       \* which keys switch each of them on
  Grouped,       \* the patches that are applied with the switch of the one before
  Rendered,      \* the patches whose bytes depend on the configuration
  Hooks,         \* those that are a display hook and not a byte patch
  Creation,      \* the hooks installHooks creates, in order
  Present,       \* those whose signature or entry bytes this client has
  Contents,      \* what the GUI may save
  FirstSecond    \* the place start-up has surely come to when the watcher first wakes

Key == {Keys[k] : k \in DOMAIN Keys}
Feature == {Order[k] : k \in DOMAIN Order}

\* The text of the file, cut down to the keys it sets, in file order: a switch that
\* is true, or an amount that is not the default one.  A read that gets only the
\* head of the text sees the first keys alone.
ASSUME ContentsAssumption == Contents \subseteq Seq(Key)
ASSUME KeysAssumption == Keys \in Seq(Key) /\ Keys # <<>>
ASSUME OrderAssumption == Order \in Seq(Feature) /\ Order # <<>>
ASSUME DriversAssumption == Drivers \in [Feature -> SUBSET Key]
ASSUME HooksAssumption ==
  /\ Hooks \subseteq Feature /\ Present \subseteq Feature
  /\ Creation \in Seq(Hooks) /\ \A f \in Hooks : \E k \in DOMAIN Creation : Creation[k] = f
ASSUME PatchesAssumption ==
  Grouped \cup Rendered \subseteq Feature \ Hooks /\ \A f, g \in Rendered : f = g
ASSUME GroupedAssumption ==
  \A k \in DOMAIN Order :
     Order[k] \in Grouped => /\ k > 1 /\ Order[k - 1] \notin Hooks
                             /\ Drivers[Order[k]] = Drivers[Order[k - 1]]
ASSUME FirstSecondAssumption == FirstSecond \in Nat
ASSUME NamesAssumption == {"missing", "unread"} \cap Key = {}

Missing == <<"missing">>
Unread == <<"unread">>

Thread == {"main", "watcher"}

VARIABLES
  file,      \* the text on disk, or Missing
  saving,    \* what the GUI is about to write after the truncation, or Missing
  pc,        \* thread -> where it is
  idx,       \* thread -> the feature it is at, as a position in Work
  size,      \* thread -> the length readWholeFile measured
  text,      \* thread -> the text it read
  want,      \* thread -> the keys that are on of those its apply function goes by
  last,      \* the text the watcher compares with, Unread before the baseline
  flags,     \* the configuration globals: the keys that are set
  rendered,  \* PG_CREDITS_RENDERED
  code,      \* feature -> the bytes in .text
  searched,  \* the patches whose search has begun
  site,      \* the patches that were located
  captured,  \* feature -> origCapture: the bytes to write back
  created,   \* the hooks that exist
  enabled,   \* the hooks the DLL believes are enabled
  met        \* history: the switches whose features both threads were at at once

guiVars == <<file, saving>>
readVars == <<size, text>>
patchVars == <<rendered, code, searched, site, captured>>
hookVars == <<created, enabled>>
vars == <<guiVars, pc, idx, readVars, want, last, flags, patchVars, hookVars, met>>

\* The keys a text sets.
On(t) == {t[k] : k \in DOMAIN t} \cap Key

\* Bytes: those of the client, those of a patch, those rendered from the keys.
Original == {"original"}
Patched == {"patched"}
Unknown == {"unknown"}

\* pg_render_credits: stars win.
Rendering(keys) ==
  IF "stars" \in keys THEN {"stars"} \cup (keys \cap {"starsAmount"})
                      ELSE {"ton"} \cup (keys \cap {"tonAmount"})

\* What is in .text for a feature when these keys are set.
BytesFor(f, keys) ==
  IF Drivers[f] \cap keys = {} THEN Original
  ELSE IF f \in Rendered THEN Rendering(keys) ELSE Patched

\* Start-up goes through Order and then creates and applies one hook after the
\* other; a reload only goes through Order.
Work == Order \o Creation

End == [main |-> Len(Work), watcher |-> Len(Order)]
Longest == IF Len(Work) < Len(Keys) THEN Len(Keys) ELSE Len(Work)

Goto(t, label) == pc' = [pc EXCEPT ![t] = label]

----------------------------------------------------------------------------
(* The GUI: _writeConfig.                                                  *)

\* writeAsStringSync truncates the file, or creates it empty ...
BeginSave(c) ==
  /\ saving = Missing
  /\ file' = <<>> /\ saving' = c
  /\ UNCHANGED <<pc, idx, readVars, want, last, flags, patchVars, hookVars>>

\* ... and writes the text, ...
EndSave ==
  /\ saving # Missing
  /\ file' = saving /\ saving' = Missing
  /\ UNCHANGED <<pc, idx, readVars, want, last, flags, patchVars, hookVars>>

\* ... unless the GUI dies in between.
LoseSave ==
  /\ saving # Missing
  /\ saving' = Missing
  /\ UNCHANGED <<file, pc, idx, readVars, want, last, flags, patchVars, hookVars>>

----------------------------------------------------------------------------
(* readWholeFile, and what each thread does with the text.                 *)

\* Faulty: texts of one length are taken for the same.
AfterReadByLength(t, x) ==
  /\ text' = [text EXCEPT ![t] = x]
  /\ idx' = [idx EXCEPT ![t] = 1]
  /\ IF t = "watcher" /\ last = Unread
       THEN last' = x /\ Goto(t, "asleep")
       ELSE /\ last' = last
            /\ Goto(t, IF t = "watcher" /\ (x = Missing \/ Len(x) = Len(last))
                         THEN "asleep" ELSE "load")

\* Start-up has a NULL text loaded as the defaults; the watcher's baseline may
\* be NULL, and a poll without a file is given up.
AfterRead(t, x) ==
  /\ text' = [text EXCEPT ![t] = x]
  /\ idx' = [idx EXCEPT ![t] = 1]
  /\ IF t = "watcher" /\ last = Unread
       THEN last' = x /\ Goto(t, "asleep")
       ELSE /\ last' = last
            /\ Goto(t, IF t = "watcher" /\ x \in {Missing, last} THEN "asleep" ELSE "load")

Open(t) ==
  /\ pc[t] = "open"
  /\ IF file = Missing
       THEN AfterRead(t, Missing) /\ size' = size
       ELSE /\ size' = [size EXCEPT ![t] = Len(file)]
            /\ Goto(t, "read")
            /\ UNCHANGED <<idx, text, last>>
  /\ UNCHANGED <<guiVars, want, flags, patchVars, hookVars>>

\* The file may have changed since it was measured.
Read(t) ==
  /\ pc[t] = "read"
  /\ AfterRead(t, SubSeq(file, 1, IF size[t] < Len(file) THEN size[t] ELSE Len(file)))
  /\ UNCHANGED <<guiVars, size, want, flags, patchVars, hookVars>>

\* pg_config_load, one global after the other.
Load(t) ==
  /\ pc[t] = "load"
  /\ LET f == Keys[idx[t]]
     IN flags' = IF f \in On(text[t]) THEN flags \cup {f} ELSE flags \ {f}
  /\ IF idx[t] < Len(Keys)
       THEN idx' = [idx EXCEPT ![t] = @ + 1] /\ pc' = pc
       ELSE /\ idx' = [idx EXCEPT ![t] = 1]
            /\ Goto(t, IF t = "main" THEN "spawn" ELSE "call")
  /\ UNCHANGED <<guiVars, readVars, want, last, patchVars, hookVars>>

\* CreateThread(configWatcher).
Spawn ==
  /\ pc["main"] = "spawn"
  /\ pc' = [main |-> "call", watcher |-> "open"]
  /\ UNCHANGED <<guiVars, idx, readVars, want, last, flags, patchVars, hookVars>>

\* Sleep(1000) is over.  Start-up does not wait for it; a bound keeps TLC from
\* starting the first reload at every place of it.
Wake ==
  /\ pc["watcher"] = "asleep"
  /\ pc["main"] = "done" \/ idx["main"] >= FirstSecond
  /\ Goto("watcher", "open")
  /\ UNCHANGED <<guiVars, idx, readVars, want, last, flags, patchVars, hookVars>>

----------------------------------------------------------------------------
(* pg_apply_mem_patches: pg_byte_patch_apply and the hook switches.        *)

Current(t) == Work[idx[t]]

\* Faulty: the place in the list is not set back at its end.
NextFeatureOn(t) ==
  /\ idx' = [idx EXCEPT ![t] = @ + 1]
  /\ Goto(t, IF idx[t] = End[t] THEN (IF t = "main" THEN "done" ELSE "asleep")
             ELSE IF idx'[t] > Len(Order) THEN "create" ELSE "call")
  /\ last' = IF t = "watcher" /\ idx[t] = End[t] THEN text[t] ELSE last

\* To the next feature; after the last one, start-up is over, or the text that
\* was loaded becomes the one to compare with.
NextFeature(t) ==
  IF idx[t] < End[t]
    THEN /\ idx' = [idx EXCEPT ![t] = @ + 1]
         /\ Goto(t, IF idx'[t] > Len(Order) THEN "create" ELSE "call")
         /\ last' = last
    ELSE /\ idx' = [idx EXCEPT ![t] = 1]
         /\ Goto(t, IF t = "main" THEN "done" ELSE "asleep")
         /\ last' = IF t = "watcher" THEN text[t] ELSE last

\* MH_CreateHook, if the entry bytes are the expected ones.
Create ==
  /\ pc["main"] = "create"
  /\ IF Current("main") \in Present
       THEN /\ created' = created \cup {Current("main")}
            /\ Goto("main", "call")
            /\ UNCHANGED <<idx, last>>
       ELSE created' = created /\ NextFeature("main")
  /\ UNCHANGED <<guiVars, readVars, want, flags, patchVars, enabled>>

\* The argument of the apply function is read from the globals, or is the one the
\* patch before was applied with.
Call(t) ==
  /\ pc[t] = "call"
  /\ want' = [want EXCEPT ![t] = IF Current(t) \in Grouped THEN @ ELSE Drivers[Current(t)] \cap flags]
  /\ Goto(t, IF Current(t) \in Hooks THEN "compare"
             ELSE IF Current(t) \in Rendered /\ want'[t] # {} THEN "render"
             ELSE IF Current(t) \in searched THEN "write" ELSE "search")
  /\ UNCHANGED <<guiVars, idx, readVars, last, flags, patchVars, hookVars>>

\* The amount is read after the switches; the bytes a patch in place came from are
\* overwritten.
Render(t) ==
  /\ pc[t] = "render"
  /\ rendered' = Rendering(want[t] \cup (flags \ Drivers[Current(t)]))
  /\ Goto(t, IF Current(t) \in searched THEN "write" ELSE "search")
  /\ UNCHANGED <<guiVars, idx, readVars, want, last, flags, code, searched, site, captured,
                 hookVars>>

\* searched = 1 comes before the search, which goes through all of .text.
Search(t) ==
  /\ pc[t] = "search"
  /\ searched' = searched \cup {Current(t)}
  /\ Goto(t, "match")
  /\ UNCHANGED <<guiVars, idx, readVars, want, last, flags, rendered, code, site, captured,
                 hookVars>>

\* The signature contains the original bytes: a patched site does not match.
Match(t) ==
  /\ pc[t] = "match"
  /\ site' = IF Current(t) \in Present /\ code[Current(t)] = Original
               THEN site \cup {Current(t)} ELSE site \ {Current(t)}
  /\ Goto(t, "capture")
  /\ UNCHANGED <<guiVars, idx, readVars, want, last, flags, rendered, code, searched, captured,
                 hookVars>>

\* Faulty: nothing is remembered.
CaptureNothing(t) ==
  /\ pc[t] = "capture"
  /\ Goto(t, "write")
  /\ UNCHANGED <<guiVars, idx, readVars, want, last, flags, patchVars, hookVars>>

Capture(t) ==
  /\ pc[t] = "capture"
  /\ captured' = IF Current(t) \in site
                   THEN [captured EXCEPT ![Current(t)] = code[Current(t)]] ELSE captured
  /\ Goto(t, "write")
  /\ UNCHANGED <<guiVars, idx, readVars, want, last, flags, rendered, code, searched, site,
                 hookVars>>

\* Faulty: bytes that are not the client's are taken for the right ones.
BytesToWriteOnce(t) ==
  LET f == Current(t)
  IN IF want[t] = {} THEN captured[f]
     ELSE IF code[f] # captured[f] THEN code[f]
     ELSE IF f \in Rendered THEN rendered ELSE Patched

BytesToWrite(t) ==
  LET f == Current(t)
  IN IF want[t] = {} THEN captured[f] ELSE IF f \in Rendered THEN rendered ELSE Patched

\* A patch that was not located, or is being located by the other thread, is
\* left alone.
Write(t) ==
  /\ pc[t] = "write"
  /\ code' = IF Current(t) \in site THEN [code EXCEPT ![Current(t)] = BytesToWrite(t)] ELSE code
  /\ NextFeature(t)
  /\ UNCHANGED <<guiVars, readVars, want, flags, rendered, searched, site, captured, hookVars>>

\* A hook that does not exist yet, or is believed to be as wanted, is left alone.
Compare(t) ==
  /\ pc[t] = "compare"
  /\ IF Current(t) \in created /\ (want[t] # {}) # (Current(t) \in enabled)
       THEN Goto(t, "toggle") /\ UNCHANGED <<idx, last>>
       ELSE NextFeature(t)
  /\ UNCHANGED <<guiVars, readVars, want, flags, patchVars, hookVars>>

\* MinHook switches under its own lock and fails on a hook already switched, in
\* which case the DLL does not touch what it believes.
Toggle(t) ==
  /\ pc[t] = "toggle"
  /\ LET f == Current(t)
         to == IF want[t] # {} THEN Patched ELSE Original
     IN /\ code' = [code EXCEPT ![f] = to]
        /\ enabled' = IF code[f] = to THEN enabled
                      ELSE IF want[t] # {} THEN enabled \cup {f} ELSE enabled \ {f}
  /\ NextFeature(t)
  /\ UNCHANGED <<guiVars, readVars, want, flags, rendered, searched, site, captured, created>>

----------------------------------------------------------------------------

\* DllMain has started the main thread; the client's code is untouched.
Init ==
  /\ file \in Contents \cup {Missing}
  /\ saving = Missing
  /\ pc = [main |-> "open", watcher |-> "off"]
  /\ idx = [t \in Thread |-> 1]
  /\ size = [t \in Thread |-> 0]
  /\ text = [t \in Thread |-> Missing]
  /\ want = [t \in Thread |-> {}]
  /\ last = Unread
  /\ flags = {}
  /\ rendered = Unknown
  /\ code = [f \in Feature |-> Original]
  /\ searched = {} /\ site = {}
  /\ captured = [f \in Feature |-> Unknown]
  /\ created = {} /\ enabled = {}
  /\ met = {}

Gui ==
  /\ \/ \E c \in Contents : BeginSave(c)
     \/ EndSave
     \/ LoseSave
  /\ met' = met

Step(t) ==
  \/ Open(t)
  \/ Read(t)
  \/ Load(t)
  \/ Call(t)
  \/ Render(t)
  \/ Search(t)
  \/ Match(t)
  \/ Capture(t)
  \/ Write(t)
  \/ Compare(t)
  \/ Toggle(t)

\* Both threads are in pg_apply_mem_patches, or one is at the creation of a hook, at
\* features that are switched together.
Applying == {"create", "call", "render", "search", "match", "capture", "write", "compare",
             "toggle"}
Switches(t) == IF pc[t] \in Applying THEN {Drivers[Current(t)]} ELSE {}
Meeting == Switches("main") \cap Switches("watcher")

Main == (Step("main") \/ Spawn \/ Create) /\ met' = met \cup Meeting'

Watcher == (Step("watcher") \/ Wake) /\ met' = met \cup Meeting'

Next == Gui \/ Main \/ Watcher

\* The threads of the client are scheduled: neither ever waits for anything but
\* the clock.  Nothing is assumed of the GUI.
Spec == Init /\ [][Next]_vars /\ WF_vars(Main) /\ WF_vars(Watcher)

----------------------------------------------------------------------------
(* Properties.                                                             *)

Label == {"off", "open", "read", "load", "spawn", "asleep", "create", "call",
          "render", "search", "match", "capture", "write", "compare", "toggle", "done"}

Bytes == {Original, Patched, Unknown} \cup {Rendering(keys) : keys \in SUBSET Key}

TypeOK ==
  /\ file \in Contents \cup {<<>>, Missing}
  /\ saving \in Contents \cup {Missing}
  /\ pc \in [Thread -> Label]
  /\ idx \in [Thread -> 1 .. Longest]
  /\ size \in [Thread -> Nat]
  /\ text \in [Thread -> Seq(Key) \cup {Missing}]
  /\ want \in [Thread -> SUBSET Key]
  /\ last \in Seq(Key) \cup {Missing, Unread}
  /\ flags \subseteq Key
  /\ rendered \in Bytes
  /\ code \in [Feature -> Bytes]
  /\ searched \subseteq Feature /\ site \subseteq Feature
  /\ captured \in [Feature -> Bytes]
  /\ created \subseteq Hooks /\ enabled \subseteq Hooks
  /\ met \subseteq SUBSET Key

\* Neither thread is in the middle of anything.
Settled == pc["main"] = "done" /\ pc["watcher"] = "asleep"

\* "Called at init and on each config reload so the GUI toggles take effect
\* live": between reloads every patch and hook the client has is in place exactly
\* when a switch of it is on, the credits with the amount that is set now, and the
\* original bytes are back when it is off.  That is so however start-up and the first
\* reloads fall together, wherever the two threads were never at a feature, or at two
\* of one switch, at the same time.
CodeFollowsFlags ==
  Settled =>
    \A f \in Present : Drivers[f] \notin met => code[f] = BytesFor(f, flags)

\* A text that differs from what the watcher knows is loaded and put in effect,
\* unless it is saved over: however the truncation, the write and the reads
\* fall, what was read in half is read again.
ChangedTextTakesEffect ==
  \A c \in Contents :
     (file = c /\ last \notin {c, Unread})
       ~> (file # c \/ (Settled /\ flags = On(c) /\ CodeFollowsFlags))
=============================================================================
