# Patchgram for Windows: TLA+ models, model checking and proofs

Patchgram changes how an installed Telegram Desktop behaves. A GUI (Flutter)
keeps a configuration file and installs a launcher in the Telegram folder; the
launcher starts the client with `Patchgram.dll`; the DLL hooks the client's
MTProto session, rewrites requests and replies, patches a few bytes of `.text`
and switches display hooks, and follows the configuration file while it runs.

This directory models the parts of that system in which the order of steps
decides whether it works. Paths are those of the repository.

## 1. The system

| Component | Source | State it keeps | Operations |
| --- | --- | --- | --- |
| Request and reply tracking | `dll/engine_patches.c`, `dll/patchgram.cpp` | nine fixed tables of request ids with a list position, a message count or a peer beside them; the configuration globals | `pg_apply_request`, `pg_apply_response`, the track and take functions, the wipes in `pg_config_load` |
| In-place edits of replies | `dll/engine_patches.c`, `dll/patchgram_offsets.h` | the list of usernames to show; else none of its own: Telegram's received queue and Qt5 vectors, with reference counts and two allocators | `pg_qvec_grow`, `pg_qvec_replace`, the rewriters, the walk in `hkTryToReceive` |
| Configuration reload | `dll/patchgram.cpp`, `gui_flutter/lib/app_state.dart` | the file; the watcher's last text; per patch the site, the original bytes, whether it was searched; per hook whether it exists and is on | `_writeConfig`, `readWholeFile`, `configWatcher`, `installHooks`, `pg_byte_patch_apply`, `pg_apply_*_hook` |
| Persistent installation | `gui_flutter/lib/app_state.dart`, `launcher/launcher.c` | `Telegram.exe`, `Telegram_real.exe`, `Patchgram.dll` in the Telegram folder; the GUI's path, configuration and applied text | Apply, Restore Backup, Disable All, `_installPersistence`, `uninstallPersistence`, the launcher |
| TL walker and validator | `dll/engine_tl.c`, generated schema | none | `patchgram_tl_validate`, `patchgram_tl_find`, `patchgram_tl_decode` |
| Gift rewriting | `dll/engine_patches.c` | the custom gift, the list of hidden gifts | inserts into and replacements of gift objects |
| Request drops and edits | `dll/engine_patches.c` | whether the emoji ids were appended in this session | the tail of `pg_apply_request`, `pg_autoload_append_emoji` |
| Document cache | `dll/engine_patches.c` | four slots of captured emoji documents; the sticker kept for a faked transfer | `pg_unique_capture`, `pg_unique_store_doc`, `pg_unique_attr_doc` |
| Display hook bodies | `dll/patchgram.cpp` | the strings built from the configuration; the id of the own account; fields of Telegram's users | `hkUserSetFlags`, `hkPhoneVal`, `hkToString`, `hkIsCollectiblePhone` |
| Offset resolution, logger, schema, GUI widgets, native injection, tools | see `PROJECT.json` | | |

How they interact:

- Telegram's MTProto thread calls `hkSendPrepared` and `hkTryToReceive`; they run
  the request gates and the reply rewriters synchronously.
- `installHooks` of the DLL, on a thread of its own, loads the configuration, starts
  `configWatcher`, applies byte patches, then creates hooks. `configWatcher` polls the
  file every second and, when its text changed, loads it and applies the patches again.
  Neither takes a lock that the MTProto thread or the other one takes.
- The GUI and the DLL share one file, `PatchgramRuntime.json`, written by
  truncation and read without any agreement on who has finished.
- The GUI, the user, and Telegram's own updater all change and run the
  executables in one folder.

What is hard about it: stores of the watcher between any two stores of the
engine; requests whose replies come after the configuration they were noted
under is gone; tables that run full; replies that are walked more than once;
blocks of memory that two allocators and several holders know; half-written
files; two unsynchronised threads in the byte patches; and an installation of
several file calls each of which can fail, be the last before the GUI dies, or
race an update. `PROJECT.json` lists each hazard with its line and the
properties aimed at it.

What makes each component correct:

- *Tracking*: only a request's own reply is rewritten, with the data of that
  request; ids are neither lost without reason nor noted twice; a reload leaves
  nothing behind that could add up.
- *Edits*: a reply is the genuine one under whole edits, never half an edit; a
  buffer others hold is left alone; no block is freed by the wrong allocator or
  under a holder.
- *Gift rewriting*: every edit lands in the gift and at the field it was meant
  for, however far earlier edits moved the words; every gift of a page gets its
  edits, not only the first.
- *Usernames*: the own account shows the whole list that is configured, wherever it
  goes and whatever stands around it; a list read across a reload never breaks a reply.
- *Document cache*: an emoji the user chose and the server sent is what a built
  gift shows; nothing enters the cache with another document's access hash; our ids
  ride on one request of Telegram's own and leave it whole.
- *Display hooks*: a user is shown as the configuration asks, on the profiles it
  asks for and no other; Telegram never renders a half-written user.
- *Reload*: what is saved takes effect; code and hooks agree with the flags; the
  way back to the original bytes is never lost.
- *Installation*: a client always survives; an installation keeps the newest; a
  removal that reports success has restored one; a restart is skipped only if
  the running client has the current DLL.

## 2. The modules

| Module | What it is |
| --- | --- |
| `RequestRing` | the table of request ids, as operators without state |
| `ReplyTracking` | engine thread and watcher over nine such tables |
| `NotedRequests` | what the tables promise: bounded sets of notes, without slots |
| `TrackedRequests` | the refinement mapping from `ReplyTracking` to `NotedRequests` |
| `ReplyEdits` | the queue, the vectors and the rewriters that change them |
| `AtomicReplies` | what the rewriters promise: replies that show elements, and whole edits |
| `TLWalker` | the walker, the validator and the finders of gifts, as operators |
| `GiftSplice` | a page of saved gifts through spoof, inserts and rebuild |
| `UsernameSplice` | a reply with the own account through the rewriter of its usernames |
| `ReplySplices` | both, on the one thread that edits replies |
| `EmojiDocs` | requests that are dropped, edited or extended, and the way of an emoji's document into a gift |
| `DisplayHooks` | what the display hooks do to Telegram's users |
| `ConfigReload` | the file, its readers, byte patches and hook switches |
| `Persistence` | the files in the Telegram folder |
| `TrackedRequestsProofs`, `ReplyEditsProofs`, `TLWalkerProofs`, `ReplySplicesProofs`, `EmojiDocsProofs`, `DisplayHooksProofs`, `ConfigReloadProofs`, `PersistenceProofs` | theorems |
| `MCGiftReplies`, `MCLookupReplies`, `MCReplyEdits`, `MCReplySplices`, `MCEmojiDocs`, `MCDisplayHooks`, `MCConfigReload`, `MCPersistence` | instances for TLC |

Every definition that stands for code is in the `map` of `PROJECT.json` with its
lines. Definitions whose comment begins with "Faulty" are plausible mistakes in
that code. No action uses them; `PROJECT.json` pairs each with the property that
finds it (`mutants`).

### RequestRing and ReplyTracking

A ring is a function from slots to entries `[id, arg]`; in C the ids and the
arguments are parallel arrays. `Track`, `SlotOf`, `Free` and the two wipes are the
helper functions of the engine. `pg_ring_track`, `pg_fragment_track`,
`pg_cu_coll_track`, `pg_fact_check_track` and the transfer table differ only in
what they remember and in whether a second entry of an id refreshes it
(`Refreshes`). `Free` clears the argument together with the id: in C it stays,
but it is never read again before `Track` overwrites it.

`ReplyTracking` has two processes.

- The engine: `SendPrepared`, then per ring `Gate` and `Store`, then `SendEnd`;
  `TryToReceive`, then per rewriter `PassBy`, `TakeAny`, or `Match` and `Take`, then
  `Build` or `Decline`, then `Dispatch`. Rewriters take their turn in the order of
  `pg_apply_response` (`Rank`). A reply may be walked again before it is
  dispatched, and a request sent again under its id, as Telegram does both.
  `extras` is `pg_gift_extras`, which comes between the spoof and the rebuild and has
  no ring: it takes any page of saved gifts while a switch of its features is on.
- The watcher: `Program` is the list of stores `pg_config_load` and the hook
  switch make, in source order; each is one action. The user names are cleared
  and then filled one at a time.

On the way in, the scan of a ring and the store that ends it are one action: a wipe in
the middle leaves what a wipe before or after it leaves, up to which slot is used. On
the way out they are two, since what is read from the slot that was matched is used:
the wipe may come in between. A wipe, a `memset`, is one action but for the transfers,
whose slots are two words, the id with the type of the peer and then the peer: there
`WipeRing` takes the first and `WipePeers` the second. A slot that is read between the
two has a peer whose type reads as that of a user (`Untyped`, by the constant
`AsUser`); after them it has none, and a transfer to nobody is built, since nothing is
tested. Whether a rewriter finds its target in the
genuine reply is a nondeterministic choice (`Decline`), which the features that
swap the whole reply do not have. The fact-check reply never passes the
validator (a bare `Vector` is no constructor of its schema), hence `Validates`.

`entitled` and `rewrites` are history variables: which gates let a request or
reply through, and which feature rewrote a reply, saying what. Nothing entitles the
extras: `OnlyEntitledRewrites` says of them that they stay on pages of saved gifts, and
that they go to other profiles than the targeted one is a violation shown in section 3.

`Scope` says which part of a reload an instance looks at; the rest of `Program`
is skipped. It is the whole in the code; instances use it to leave out flags that
none of their requests reads.

The module also shows something no property claims otherwise: the ring of tapped
usernames holds a position in the list (`engine_patches.c:1251`), and a reload that
shortens or reorders the list without emptying it keeps the ring, so the reply is
built from whatever username has that position by then.

### NotedRequests and TrackedRequests

`NotedRequests` is the tracker a user of the rings has in mind: per feature a set of
at most `Size` notes, one per request. A note is added while there is room,
displaces exactly one other when there is none, is renewed by the features that
let a second request replace the first, and leaves when the reply at hand uses it
or the whole set is closed. `TrackedRequests` maps `ReplyTracking` to it by
forgetting the slots (`NotesIn`) and, of the engine, everything but the reply at
hand (`AtHand`). A `Store` becomes `Add`, `Displace`, `Renew` or nothing; a take
becomes `Use`; a wipe `Close`, or `Unsay` between the two wipes of the
fact checks and of the transfers; all else is a stutter. What makes this true is not local to a
step: `Add` and `Displace` count notes, which agrees with the free slots only
as long as no id is in two of them.

### ReplyEdits

A reply is a block (`owner`, `ref`, `size`, `count`, `words`) that a queue entry
points to. `Grown` is `pg_qvec_grow`: a copy in the DLL's heap whose reference
count is -1, which Qt takes for static and never frees. `Edited` writes first,
then validates the new extent, then publishes the size or reverts. `MayEdit` is
the test that the count is 1. `Swap` leaves the old block with its reference
still counted, so it is never freed: the code accepts that leak.

The words are abstracted to elements. `alien` is something behind the vector
which the schema does not know: with it the validator refuses, and the revert
runs. `Unallocated = {}` stands for exhausted memory. `QueueRoom` bounds the
waiting replies; the queue is a `std::vector` that is not reallocated here (a
reallocation under the walk is undefined behaviour, listed as a hazard).
Telegram's side is `Arrive`, `Dispatch`, `Paused`, `Forget`, with
`QArrayData::deref` as `Released`; these stand for code outside the repository,
modelled from what the hook relies on.

The rewriters are the two that extend `help.appConfig` (account freeze,
monetization), the hidden gifts, the diagnostic relocation, and one tracked
swap; every other in-place rewriter of the engine follows one of these patterns.

A grown copy is static, so every later rewriter takes it for shared, the
monetization rewriter that of a configuration account freeze has grown among them.
`PassedOverForAReason` says what is left of "A shared appConfig is just skipped"
(`engine_patches.c:796`): it is skipped if somebody holds it, or if it was grown.

### AtomicReplies

`AtomicReplies` is the rewriting a user of the engine has in mind: replies wait in the
order they came and show elements; a feature that is on turns what one reply shows
into what it shows next, at once; an answer that is due is given once; what Telegram
holds outside the queue shows what it showed when it was handed out, until it is let
go of. There are no blocks, references, capacities, reverts or walks. `ReplyEdits`
maps to it by `Waiting` (the elements of the block an entry points to) and `Held` (those
of the blocks that are kept). A published extension is `Freeze`, `BlockPurchases` or
`ShowHiddenGift`, each only on a reply the validator can read to its end, a set key
`FlipPurchases`, a swap `Answer`; a copy, a reverted edit, a move of the walk and
a pass are stutters. Which features may act is said by the switches alone: that a
reply may also be shared, or out of room without memory, only makes a feature pass, and
that a reply walked twice gets a hidden gift twice is allowed, as in the code.

### TLWalker and GiftSplice

`TLWalker` keeps the shape of TL and drops its widths: a word is a constructor, a
Vector id, a flags word with the names of the set bits, a number, or data; a
scalar or a string is one word. `Schema` is the part of the generated schema
that pages of saved gifts and replies with users consist of, less parameters no
rewriter looks at. The
recursion of `patchgram_tl_decode_ctor` is an explicit stack of objects and
vectors, which `Step` takes one parameter at a time; a parameter whose gate bit
is clear is noted in the trace at the position where it would be, which is how
the finders learn where to insert. `MaxDepth` and `MaxElements` are the bounds of the
code on nesting and on the length of a vector. `WalkOn` is a recursive function on
`Readers`, not a recursive operator, so that it can be proved about; `Text`, what a word
may say, is a constant for the same reason (TLC takes `STRING`).
`ValidateTop` is the walk to the end of the buffer, `FindGift` what the finders
read off the trace.

`GiftSplice` runs the three rewriters in the order of `pg_apply_response`. The
reader of the code holds several positions at once: the splice points of one gift,
found by one walk and used for up to six inserts, and the gift's number, which a
later walk counts again. So the model keeps them as state: `spots`, `n`, `place`,
and the half-built replacement `blob`. One insert or one replacement is one
action, with its write, validation and publication or revert: no other thread
looks at the words in between. Between two such actions the watcher may store
(`Reload`), and the engine reads some globals again: `FlagBlob` reads whether
the owner and host are configured for the flags word, `OwnBlob` and `SpliceBlob`
for the fields. `wants` is what `pg_gift_extras` copies on entry; that its six
globals are read in one step is an abstraction. A vector that grows becomes
static (`STATIC`), so the rebuild then leaves it alone.

`came` and `made` are history: the gifts as received and what has been made of
each. `PageWords` builds the words of a page from these two, record by record,
with no positions in it; it is the reference definition `RenderedWhole` compares
the edited words with. `excused` remembers a refusal the code documents (no
memory, no room to stage, a reload under the replacement); `todo` is what the
rebuild set out to replace.

Abstractions: the gift features' target mode is "all" (`ReplyTracking` has the others, and
the inserts going by none); an upgraded gift has one attribute with a copy of the document
where the code writes three, two of them with one; the spoofs of date, sender, gift id and
the refunded bit are one feature; which document a rebuilt gift gets is in `EmojiDocs`.
`Reloads` bounds the reloads under one reply.

### UsernameSplice and ReplySplices

`UsernameSplice` is `pg_custom_usernames` over the words of `TLWalker`.
`EnterUsernames` takes the note and looks for the target (`FindTarget`): the list
of the first user marked as self (`Replace`, a scan for a Vector of usernames up to
the next user), or the place behind the fields that come before it (`Insert`, by
`SkipName`, `SkipReasons`, `SkipStatus`). The other optional fields that are skipped by
hand are scalars and strings like the first name, and are left out, as are the photo
and the online status. `PutHead` reads the number of names, `PutName` reads it again
and one name. `SpliceNames` is the growth, the move of the tail, the bit, the
validator, and the publication or `Reverted`.

The watcher's stores are those of `pg_config_load` into the list: `ClearNames`,
`ResetCount`, then `FillName` for each name, so that the engine can read a length of
one list and names of another. `ReceiveUsers` lets a reply meet any list that was
loaded before; between two replies no list is kept, since nobody reads it.
`shown` is history, the list that was published last, and `ReplyWords` builds the
words of the whole reply from it, with no positions in it, as `PageWords` does for
pages.

What the module shows and no property claims otherwise. A reload between the reads can
publish an empty list, or blank names, when length and names happen to agree. And the
bare Vector that answers `users.getUsers` is never rewritten: the schema's `vector`
has no parameters, so the validator finds words behind it and refuses.

The two flags words of a user are one here, and a feature that is switched off is an
empty list. `ChangedRoom` is the room to stage.

`ReplySplices` is both modules on the thread of `pg_apply_response`: it takes one
reply at a time, and the rewriters of the two kinds of reply read different globals,
so a reload stores only what the reply at hand looks at.

### EmojiDocs

The engine thread takes requests and replies in turn. A request with an entry in
`DropFlag` is dropped or queued, one with an entry in `EditFlag` has its one bit
set if the buffer is not shared. `messages.getCustomEmojiDocuments` goes through
the autoload: `AutoloadGate`, then one action per global it reads
(`GatherPart`, `GatherSticker`, `GatherList` per hidden gift), then `AppendIds`
or, when the buffer is shared or cannot grow, `KeepIds`.

A reply runs `SpoofGate`, `SwapStickers`, `WantModel`, `WantSymbol`, `KeepDoc` for
each of the two ids, and the rebuild, from the last gift to the first, with one
action for the model's document and one for the symbol's. A document is the pair
of its id and the access hash it has; `Genuine` is the pair the server made.
`SwapStickers` changes the first and leaves the second, as
`src/dll/engine_tl.c` does. `cache` is the table of slots, `SlotToTake` its
choice of a slot, `AttrDoc` the fallback to the gift's own sticker. The words
of a page, of a document and of a request are left to `GiftSplice`; here a page is
a sequence of gifts with a sticker, a model and a symbol.

The watcher stores one global at a time, including the list of hidden gifts, which
is emptied and filled while the autoload may be going through it. The reply to a
request that carried our ids (`Answer`) is external: the server knows the documents
it is asked for. `seen` is history: the ids a reply of documents carried while they
were wanted. `quiet` and `steady` say that no reload fell in, for the two properties
that would make no sense otherwise.

### DisplayHooks

`hkUserSetFlags` is a walk through `Work`, the features in source order: `Test`
reads the switch (and the string, where there is one), `Aim` the target mode,
`AddFlag`, `ForceField`, `ForceVerify` and `ForcePhone` the value, so that the
watcher's stores fall between any two reads. `Store` is the original setFlags.
`ForcePhone` may use the string that was tested or the one there is now: the C
code reads a plain global twice, and the compiler may read it once.
The Self bit is that of the call before, as in the code: `BeginSetFlags` reads it
before the new flags are stored. The strings of the watcher are never freed by the
code, so an old one stays good; NULL is what an empty text gives. `Crashed` is
a NULL string in the hands of Telegram; the client is then started again.

`RenderPhone`, `RenderId` and `RenderCollectible` are the three hooks on the profile. A
row is cut down to whose it is and whether the client would have shown the same.
`RenderPhone` may get a number or the text "hidden", which all profiles share.
`OthersAreShownAsTheyAre` is about these three rows. `Accounts` may have several users:
the model then has one `g_selfUserId` for all, as the code has. `ServerFlags`, `Refresh`
and `SetFlagsUnhooked` are Telegram.

### ConfigReload

The text of the file is cut down to the keys it sets, in file order, so that a short read
is a prefix; an amount is the default or another one. `Open` measures the length, `Read`
reads up to it; the GUI may truncate and write in between (`BeginSave`, `EndSave`), or die
(`LoseSave`). `AfterRead` compares with the last text. `Load` sets one global per step.
Then each target in `Order` is applied: `Call` reads the switches that drive it
(`Drivers`), `Search` marks the patch as searched, `Match` scans, `Capture` remembers the
original bytes, `Write` writes. The sites of one group (`Grouped`, the 999 accounts for
one) go by one reading of the switch. The bytes of the credits (`Rendered`) come from the
amount: `Render` writes them into the static buffer the patch points to, whose older
contents may be in `.text` at that moment. For a display hook, `Compare` and `Toggle`
stand for the switch, with MinHook's own lock inside `Toggle`. Start-up then creates the
hooks in `Creation`, switching each at once. `Present` says which signatures this build of
Telegram has. Writes to `.text` are one step and do not fail here.

Nothing keeps the first reload from overtaking start-up: the watcher sleeps for a
second first, and start-up waits for nobody. `met` is history, the switches whose
features both threads were at at the same moment (`Meeting`).

Two things the module shows that no property hides. A save between the load at
start-up (`patchgram.cpp:787`) and the watcher's baseline (759) is taken for known
and never loaded: `ChangedTextTakesEffect` speaks of texts that differ from the
baseline. And where the two threads meet, the code may end up wrong: a patch that the
other thread is still searching for looks absent, and a thread that read its switch
earlier may write last. `CodeFollowsFlags` promises nothing of the features of a
switch at which they ever met, and everything of all others, however far the threads
are apart in the list.

### Persistence

`exe`, `real` and `dll` are the three files: absent, a release, a build, the
launcher, or torn. Each file call is a step; a copy is two, and the target is torn
in between. `InstallFails` and `UninstallFails` are the exceptions the two
routines catch; `Die` is the end of the GUI. `Update` is Telegram's updater,
which needs the client gone and the file not open; `Started` is what a start of
a path leaves running, the launcher included. The rules of Windows are external:
the image of a running process can be renamed but neither deleted nor
overwritten, a loaded DLL likewise, and a second instance gives way to the first.

The file calls of one routine are synchronous Dart with no `await` in between,
so no other GUI action interleaves with them (`Busy`); Telegram, the user and
death do. The two `await`s of the check for a running client are one step. A
torn DLL differs from the bundled one in size or time. `launchPatched` and
`native_inject.dart` have no caller and are left out. The folder is that of a
64-bit client. One write of the configuration is one step here; its truncation
is in `ConfigReload`.

## 3. What TLC checks

### Runs that pass

| Run | Instance | Bounds | Shows |
| --- | --- | --- | --- |
| `gift_replies` | `MCGiftReplies` | 2 ids, rings of 1 slot, 4 requests, 2 peers, 2 configurations | `TypeOK`; `OnlyEntitledRewrites`; `TransferNamesNoOther` |
| `lookup_replies` | `MCLookupReplies` | 3 ids, rings of 2 slots, 4 requests, 2 configurations | `NoDuplicateIds`; `FactCountIsOwn`; `ClosedRingHoldsAtMostOne`; `ForgottenForAReason`; `ImplementsNotedRequests` |
| `reply_edits` | `MCReplyEdits` | 3 blocks, 2 waiting replies, 6 kinds of reply, 2 configurations | `TypeOK`; `EditedWhole`; `CountCoversHolders`; `OurBlocksStay`; `PassedOverForAReason`; `ImplementsAtomicReplies` |
| `reply_splices` | `MCReplySplices` | 7 pages of up to 3 gifts, 3 configurations, limits of 2 gifts, 2 reloads a reply; 9 replies of up to 4 users, lists of 0, 1 and 3 names in 2 slots | `TypeOK`; `RenderedWhole`; `ExtrasReachAll`; `RebuildReachesAll`; `UsersTypeOK`; `UsersRenderedWhole`; `ListIsShown` |
| `emoji_docs` | `MCEmojiDocs` | 3 emoji, 1 sticker, 2 cache slots, room for 1 hidden gift, 2 configurations, 5 requests, 4 replies | `TypeOK`; `SentWhole`; `CacheGenuine`; `SeenIsEmbedded`; `EmbeddedIsGenuineOrOwn`; `AutoloadCaches` |
| `display_hooks` | `MCDisplayHooks` | the own account and another user, 1 value, 3 configurations | `TypeOK`; `ForcedAsAsked`; `OthersAreShownAsTheyAre`; `NotifiesBeforeWrites`; `NullOnlyInRace` |
| `config_reload` | `MCConfigReload` | 6 keys, 5 targets (an absent hook, a hook, the credits, a group of two), 2 texts, the first reload from the last patch of start-up on | `TypeOK`; `CodeFollowsFlags`; `ChangedTextTakesEffect` |
| `persistence` | `MCPersistence` | 3 releases, 2 builds, 2 patches | `TypeOK`; `ClientSurvives`; `RestoredWhenUninstalled`; `LiveReloadRunsBundledDll`; `NewestSurvivesInstall` |

Why the bounds are enough to mean something. A ring of one slot evicts on the second
request, and one of two slots has a first free slot and a second one, in either order once
a wipe or a take has emptied one: between them that is every case of `SlotForNew`. Two ids
over one slot and three over two give requests and one that takes the slot of another.
`lookup_replies` needs no histories (`WithoutHistory` is its view): no action reads them
and none of its properties does. Of the two peers of `gift_replies` one is a user and one
a channel with the number of a third, so that a peer read without its type is neither. Two
configurations that differ in every flag of the scope let every flag, mode and wipe change
in both directions. Three blocks let a waiting reply be grown and then swapped, or two
replies wait and one be grown. The replies include one with room, one without, one the
validator refuses, one with the key already there. The pages of `reply_splices` are:
empty; shared; one whose vector is full; three gifts with an upgraded one in the middle;
one gift more than the limits; a gift without a document and with a field to insert; and
an unknown constructor behind a gift. The gifts among them lack and have every field that
is inserted, so each of the six inserts moves what the others go by, and a gift whose
words move is followed by another. `StageRoom` and `GiftRoom` are small enough that a tail
and a gift are refused and others are not. Its replies with users have the own account
first, last, alone or not at all; with a list to replace and without; with a status that
is empty, unlimited, limited in time, or unknown to the schema, in front of a list and in
front of a place for one; shared; in a bare Vector; and with three users behind the
account, a tail longer than `ChangedRoom`. A list of three names fills both slots and is
cut, a list of one is shorter than that: the account's own list of one name grows and
shrinks. In `emoji_docs` three emoji over two slots overflow the cache, as five over four
would; the second configuration chooses other emoji and a swapping spoof, the requests
include a shared one and one with ids of its own, the replies a page of one gift, a shared
page, documents and a transfer. In `display_hooks` the three configurations have values
(the rating none: it is written anyway), lack them, and are off, so each string comes and
goes, each target mode changes, and each hook is switched both ways; one value suffices
because the properties compare a field with what was there and with what is asked.
`lookup_replies` has a ring of names that no request of the instance uses; `gift_replies`
fires the actions it would need. In `config_reload` the texts have no key in common and
different lengths, so each switch goes both ways, and a file cut short has only some of
the keys of a group of features. `FirstSecond = 5` lets the first reload begin when
start-up has come to the second site of the group, so that the two threads overtake and
meet there and at the creation of the hooks; with 0 the model has no such bound, and too
many states for this instance. The view `InUseNow` leaves out what a thread will set again
before it looks at it. In `persistence` an update can land on an installed folder and
another during the next installation.

No run turns deadlock checking off.

### Fairness

Only `ConfigReload` states fairness: weak fairness of the DLL's two threads. They
are ordinary Windows threads that wait for nothing but `Sleep`. Nothing is assumed
of the GUI, which may leave a file truncated for ever. The other modules have
safety properties only: their actors owe nobody a step.

`FirstSecond` is a bound, not an assumption the code has to meet: what is proved about
`ConfigReload` holds for every value of it, 0 included.

### Runs that end in a violation

Each checks one statement of the repository that the code does not keep.

| Run | Property | What happens |
| --- | --- | --- |
| `phone_tap` | `EveryPhoneTapAnswered` | A tap is noted, a reload switches the feature off and empties the ring, the genuine reply goes through. The comment says the row then dereferences null. |
| `other_profile` | `OnlyTheTargetedProfile` | Both gift modes are set to the own profile; the page of another one goes past both gates and is rewritten by `pg_gift_extras` all the same. |
| `swapped_doc` | `NeverSwapped` | The spoof swaps the id of a gift's sticker; the chosen emoji has not been captured, so the rebuild, which comes later for the same reply, clones that sticker into the upgraded gift. |
| `missing_launcher` | `ReportedActiveIsWrapped` | An installation fails after moving the client and before copying the launcher. The next Apply finds no `Telegram.exe`, skips the installation and reports success because `Telegram_real.exe` exists. |

`findings` in `PROJECT.json` quotes the statements.

## 4. What TLAPS proves

For every value of the constants that meets the named assumptions.

`TrackedRequestsProofs` has three parts. The first, on `RequestRing`, has lemmas on the
table, cited by the others: the slot for a new id is a slot; `Track`, `Free` and the
wipes keep rings rings; they keep ids unique; `Track` changes at most the slot it uses;
`SlotOf` finds the slot of an id that is held. Assumptions: there is a slot, and 0 is no id.

The second, on `ReplyTracking` (assumptions: every request and configuration of the
instance is of the declared type, what slots remember is in `Arg`):

- `TypeCorrect`. Types alone are not inductive: `Gate` indexes `request` by
  `current`, so `InHand` is added (while something is in hand, it is a request
  that was sent).
- `NoDuplicates_Always`: with the lemmas on the ring, inductive by itself.
- `OnlyEntitledRewrites_Always`: strengthened to `EntitledInv`. What a ring holds
  was let in by its gate, and what is about to be stored or built is entitled.
  Without these two a rewrite could come from a slot nobody vouched for. The extras
  are built on a page of saved gifts, and a request keeps its kind (`SavedGiftsKept`).
- `TransferNamesNoOther_Always` and `FactCountIsOwn_Always`: strengthened to `OwnInv`.
  The argument of each slot, of the one that has been matched and not yet read, in
  hand, and in each rewrite is that of the request the id stands for, or what a wipe
  leaves of it. It needs that a request sent again under an id is the same request,
  and that a peer that has lost its type stays the same when that happens again
  (`AsUserAssumption`).
- `ForgottenForAReason_Always`, an action property, from the type invariant and
  `Matched`: the slot that has been matched holds the id at hand, or was wiped.
- `ClosedRingHoldsAtMostOne_Always`, when every ring is in scope (the runs leave out
  rings; what a run leaves out is never wiped there). Strengthened to `ClosedInv`: a
  ring that holds its one late request has no other store on its way. A ring becomes
  quiet by its wipe only (`QuietBefore`), which needs that no later step of the
  program decides about it (`ClosedBefore`, from the positions in `Program`) and that
  no wipe is skipped (`NoWipeSkipped`); the gate of a closed ring is shut
  (`ClosedGate`).

The third (the same assumptions) is `NotedRequestsImplemented`, that every behaviour of
`ReplyTracking` is one of `NotedRequests` under the mapping. It rests on `TypeInv` and on
`NoDuplicateIds`: `NotesCount` shows that, when no id is in two slots, a ring has as many
notes as taken slots, so that "no free slot" and "`Size` notes" are the same; one lemma
per operation on a table (`TrackAdds`, `TrackDisplaces`, `TrackRenews`, `FreeUses`,
`WipesClose`) turns it into the abstract one; `StoreStep`, `TakeStep`, `WipeStep` and
`OtherStep` split the actions of the specification.

`ReplyEditsProofs` (assumptions: replies are of the declared type, the numbers of
blocks and of waiting replies are natural numbers, configurations are sets of
features), all from one inductive invariant `IInv`:

- `TypeCorrect`. A block publishes no more than it has (`Sound`): one lemma per
  operation on a block, up to `EditedType`, where published and reverted edits meet.
- `CountCoversHolders_Always`. Not inductive: that a swap may drop the reference of
  the queue needs that no two replies live in one block (`Distinct`), and that a
  fresh block is nobody's (`RefInv`). `WalkInv` keeps the walk inside the queue.
  `HoldersCount` turns the set of holders into a number.
- `OurBlocksStay_Always` and `KeptUntouched_Always`, action properties, from the same
  `RefInv`: our blocks have the static count, and a block in the queue with count 1
  is kept by nobody else. `Spared` says both of one block; there is one lemma for
  edits in place, one for swaps, one for each move of Telegram, and one for what
  leaves the memory alone.
- `EditedWhole_Always`. Strengthened to `WholeInv`: the kind of a block is that of the
  reply that came, and only a reply that was asked for is tracked (else our answer could
  end up in an appConfig). Half of the proof is about one block: `OpenedWords` and
  `UndoneWords` follow the words an edit moves, so that `EditedElements` can say that
  a refused edit leaves the elements and the count, and an accepted one has the new
  elements in their place. Half is about what counts as an edit: `FreezeEdit`,
  `BlockEdit`, `FlipEdit` and `HiddenEdit` show that the edits of a reply are closed
  under the rewriters, because a key that is not there now (`HasOccurs`) did not come
  and was not added. `EditWhole`, `SwapWhole` and `SameReplies` then carry it from one
  block to the queue, by `Distinct` and `RefInv`.
- `AtomicRepliesImplemented`: every behaviour is one of `AtomicReplies` under the
  mapping, from `IInv` and `WholeInv`. `EditedShows` says of one block that an edit either
  leaves the elements or is accepted, and then nothing in the reply was foreign to the
  schema; `EditShows` and `SwapShows` say that a change of one block shows in one
  entry of the queue, and `ExtensionStep` and `AnswerStep` turn it into a step of the
  promise. `SameHeld` gets that nothing which is kept changes from `Spared`. One
  lemma per action follows, from `InPlaceStep` to `ForgetStep`. It covers
  what `KeptUntouched` says of published elements, so that one has no run of its own.

`EmojiDocsProofs` (assumptions: there is a cache slot; 0 is no id and no sticker is an
emoji; the hidden gifts that are built in fit their arrays; requests, replies and
configurations are of the declared type):

- `TypeCorrect`, with `AtGift` (the rebuild is at a gift that is on the page),
  `ListFits` (no reload fills the list past its end) and `Counted`. The choices of a
  slot and of the last regular gift exist by `LeastExists` and `GreatestExists`.
- `SentWhole_Always`, from `SentInv`: until it is queued a request is as it was
  submitted, and ids are only gathered while none have gone out. `QueueSent` has the
  requests that leave as they came, `AppendSent` the one that is extended.
- `CacheGenuine_Always` and `EmbeddedIsGenuineOrOwn_Always`, from `GenuineInv`. That the
  cache is genuine is not inductive: the stickers of a page get ids that are not
  theirs, so it matters that only pages are swapped (`SwapsPages`) and only bare
  replies are captured from (`KeepsWanted`, `StickersOwn`). `BlobSeen` carries the model's
  document over the step that reads the symbol's.
- `SeenIsEmbedded_Always`, from two more invariants. `CachedInv`: with a slot for every
  emoji the first slot is never displaced, by counting (`Distinct` makes full slots as
  many documents, all of them wanted), so what was seen stays cached, or is awaited
  from the reply at hand. `EmbedInv`: a gift that was built without a reload has what
  it should have, and so has the one being built between its model and its symbol.
- `AutoloadCaches_Always`, from `AutoloadInv`: as long as nothing was reloaded since the
  gathering began, the chosen ids are where they should be, among the ids gathered,
  then in the request that was extended, then in its answer and wanted from it, then
  seen (`Underway`); what was seen is cached by `CachedInv`.

`DisplayHooksProofs` (assumptions: accounts are users; values, users and the marks for
"nothing" and NULL are different things; the instance's configurations are of the
declared type):

- `TypeCorrect`, with `InCall`: whoever a call is about is a user.
- `NotifiesBeforeWrites_Always`, an action property, from `OrderInv`: before the rating
  has been reached, and once the client has crashed, nothing was written behind
  Telegram's back.
- `OthersAreShownAsTheyAre_Always`, from `SelfInv`: the Self bit, in a user, in the
  flags a call computes and in `g_selfUserId`, is an account's. Without it the late
  reading of the bit could make a stranger the own account.
- `ForcedAsAsked_Always` and `NullOnlyInRace_Always`, from two more invariants.
  `BuiltInv`: wherever the watcher is past the building of a string, the string is
  that of the text (`PassedStrings`: one it skips was right already). `CallInv`: in a
  call into which no reload has come, what was tested still holds, and the user is as
  it was but for the places the call has passed. `AskedIsTested` says that the tests
  of the hook, made by reading globals one by one, come to what the configuration
  asks; `Proceeds` and `Stays` carry `CallInv` over the steps that do and do not
  reach the next place, and `CallStep` has one case per action.

`ConfigReloadProofs` (assumptions: there are keys and features; texts, drivers and
the created hooks are of them; a grouped patch follows one with the same drivers; no
hook is grouped or rendered, and one patch at most is rendered; every hook is created):

- `TypeCorrect`, with `PlaceInv`: where each thread is in its list, and that a file it
  is about to read exists (a truncated file is still a file).
- `CodeFollowsFlags_Always`, with no assumption about when the watcher wakes. `Seen` (what
  is met is noted) comes to `Separate`: at a feature whose switch is not in `met` at most
  one thread is at work. `FollowInv` speaks of such features only. `CreatedInv`, `HookInv`
  and `RenderInv`: which hooks start-up has created by now, that MinHook and the DLL agree
  on them, and that only the credits are rendered. `Ready`: a thread that applies goes by
  the flags, and by bytes rendered from them, as they are, or it is start-up with older
  ones, and then the watcher is still to come to all that is ahead of it (`Behind`).
  `Whole`: what is located can be undone, and a feature is placed as the flags want it, or
  it is still `Due` to a thread. Between reloads nothing is due. One lemma per action;
  `GoesOn` and `StaysJustified` are what those that end at a feature and those that stay
  at it have in common, `Elsewhere` in a name is for the other features.

`PersistenceProofs` (assumptions: there is a release and a build): `TypeCorrect`,
`ClientSurvives_Always`, `RestoredWhenUninstalled_Always`,
`LiveReloadRunsBundledDll_Always` and the action property
`NewestSurvivesInstall_Always`, all from one inductive invariant `IInv`:

- `StepsAreGrounded`: what the GUI found out at one step still holds when it acts
  on it. `ClientSurvives` alone is not inductive because "delete the old
  Telegram_real.exe" is safe only if `Telegram.exe` is a client at that moment,
  whatever has happened since its size was tested.
- `UpdatesAreNewer`: a client beside `Telegram_real.exe` is an update of it; needed
  where the older one is deleted.
- `LoadedIsInstalled`: a loaded DLL cannot be touched.

`TLWalkerProofs` (assumption: the names in the schema are in `Text`) has no invariant, as
the walker has no state; it is what the next module knows of the walker:

- `WalkExists`: there is a function with the equation of `WalkOn`, so that the one it
  chooses has it. Two readers of one walk have the same ends (`FinalsOfStep`), so a choice
  among the ends satisfies the equation. Without this a recursive function means nothing;
  with it a walk is one step and the walk from there.
- `Goes`, `Item` and `Row` say that the walk comes from one reader to another, reads
  one object, reads so many in a row, whatever the trace has noted meanwhile. One lemma
  per kind of parameter (`OptionalScalar`, `FlagsParam`, `EnterParam`, ...) and one per
  constructor (`UsernameItem`, `ReasonItem`, `StatusBody`, `UserItem`) are put together
  by `RowsJoin`.
- `FullWhole`: a `users.userFull` whose lists are counted right passes the validator.
  `FullMiscounted`: one in which a list says it has more or fewer usernames than it has
  does not (`TooMany`, `TooFew`), whatever users stand around it.

`ReplySplicesProofs` (assumptions, besides: there is a slot and there are no more than
`MaxElements`; no name is "genuine", which marks the list a user came with; replies are of
the declared type, have the own account at most once, and no more than `MaxElements` users):

- `UsersTyped`, `UsersWhole` and `UsersGivenList`, from one inductive invariant, `UInv`
  (`UsersInvariant`). What `UsersRenderedWhole` needs is `PlaceInv`: until the splice,
  the reply is the genuine one and `target` is what the finder says of it, since the
  note has been used up and nothing else edits; and `BuiltInv`: the words built so far
  are a list of some names with some count (`HalfBuilt`), which need not agree.
  `ListIsShown` needs four more: `NotedInv`, that a reply whose note is still there is as
  it came; `SteadyInv`, that without a reload the slots and the count are those of the
  list that was loaded; of `HalfBuilt`, that the names are then the first of that list;
  and `GivenInv`, that a reply walked again without its note has the list already.
  `GotInv`, `ShownInv` and `IdleInv` tie the history to the reply at hand.
- Half of the proof is about words. `UserParts` has a user as parts in order, each an
  operator of what the user has. `FindTargetIs` shows that `FindTarget`, which scans and
  skips, finds the place of the own account's list or where it would go, and that nothing
  in the words of the other users looks like it (`Clean`); `FindsPlace`, that it finds one
  wherever `Rewritable` says so. `TriedIs` has the words after the splice; `RevertedIs`
  says that taking it back leaves the words there were, bit included.
- `MiscountedFails` and `WellCounted` take the walker's two results to replies. The first
  is why a list whose count and names come from two sides of a reload never stays; the
  second is why a list read without one does.
- `RefusedInsertLeavesPage` and `RefusedSpliceLeavesPage`: an insert or a replacement in a
  page of gifts that the validator refuses leaves the words there were. They assume of
  the finder that the places it gave are inside the page, nothing else.

The attempt at `FindTargetIs` found that two skips had `CASE` arms that overlap; what such
a `CASE` is, is left to `CHOOSE`, and TLC takes the first. They are `IF` now, as in the code.

Only model-checked: `TypeOK`, `RenderedWhole`, `ExtrasReachAll` and `RebuildReachesAll` of
`GiftSplice`, since its places are read off what the walker noted, and `TLWalkerProofs`
hides the trace on purpose; and liveness (`ChangedTextTakesEffect`): fairness and ENABLED
are out of this prover's reach. Every other property of the passing runs is a theorem.

## 5. Not modelled, and why

- The contents of rewritten replies beyond which feature wrote them and with whose
  data; formatting of prices, dates, links.
- The words of hidden gifts and of catalogue gifts, and the walker on anything but
  pages of saved gifts and replies with users.
- `pg_strip_noforwards`: it clears one bit of objects it recognises by their
  constructors, one word at a time, and depends on nothing that changes.
- The thumbs `pg_doc_slim` strips and documents too large for a slot; saving the
  cache to disk, which the code leaves out too.
- Whether Telegram's profile survives being rendered with a forced rating or channel:
  that is Telegram's code. `NotifiesBeforeWrites` states the order the code relies on.
- A failing `VirtualProtect` in `pg_mem_write`: the code ignores it.
- The walk of the queue without its mutex, beyond replies that arrive behind it.
- Search for functions in the binary, logging, widgets, the HTTP catalogue, the
  32-bit installation, the tools: no state, or none that outlives a call.

`NewestSurvivesInstall` allows what the code does and cannot help (an update that
lands between the look at the size and the copy) and what it could (a removal
deletes an updated client that took the launcher's place). After an update with
no change of configuration, Apply stays greyed out although the launcher is gone.

## 6. Plan

Done: tracking, edits, installation and reload with its patch groups; the document
cache, the drops and the request edits; the display hooks; the abstract tracker and
the proof that the rings implement it; the atomic replies, and the proof that blocks
and rewriters implement them; the rewriter of usernames, its composition with the
pages of gifts, and the proofs about it and about the walker below it.

Left, in this order:

1. The proofs about `GiftSplice`: what `FindGift` reads off a page, with the trace. The
   steps from one reader to the next (`StepsParam`, `StepsEnd`, `StepsElement`) keep it and
   can be used as they are; `Goes`, `Item` and `Row` need a form that says what is noted.
   `RefusedInsertLeavesPage` and `RefusedSpliceLeavesPage` are the two reverts of that proof.
2. The atomic edits of `AtomicReplies` for `GiftSplice` and `UsernameSplice`.
3. The rest of the walker: the finders of documents and of catalogue gifts.
