----------------------------- MODULE DisplayHooks -----------------------------
(***************************************************************************)
(* What the display hooks do to the users of the client.  Telegram calls   *)
(* UserData::setFlags whenever it hears of a user; hkUserSetFlags adds     *)
(* flags to it, calls the real setter of the verification, and writes      *)
(* three fields of the user behind Telegram's back.  A profile that is     *)
(* opened passes hkPhoneVal, hkToString and hkIsCollectiblePhone.          *)
(*                                                                         *)
(* All of that is one thread of the client.  The watcher loads another     *)
(* configuration, builds the strings the hooks hand out and switches the   *)
(* hooks, between any two reads of the configuration by a hook.            *)
(***************************************************************************)
EXTENDS Integers, Sequences, FiniteSets

CONSTANTS
  User,       \* ids of users
  Accounts,   \* those the client is logged in as
  Value,      \* texts, ratings, ids a feature may be told to show
  Nothing,    \* no text, the id 0, a field as the server has it
  Null,       \* a NULL string
  Configs     \* the configurations the GUI may write

Moded == {"badge", "verify", "rating", "channel"}
SelfOnly == {"premium", "phone"}
Valued == {"verify", "rating", "channel", "phone", "userid"}
Flag == Moded \cup SelfOnly \cup {"hidePhone", "userid", "fragment"}
Mode == {"all", "allExceptSelf", "onlySelf"}

ValueOrNothing == Value \cup {Nothing}
Config == [on : SUBSET Flag, mode : [Moded -> Mode], value : [Valued -> ValueOrNothing]]

\* A hook is on as long as one of these is.
HookFlags ==
  [setFlags |-> Moded \cup SelfOnly \cup {"userid"}, phoneRow |-> {"hidePhone", "phone"},
   userid |-> {"userid"}, collectible |-> {"fragment"}]
Hook == DOMAIN HookFlags

ASSUME AccountsAssumption == Accounts \subseteq User
ASSUME ValuesAssumption == Value \cap User = {} /\ {Nothing, Null} \cap (Value \cup User) = {}
                             /\ Nothing # Null
ASSUME ConfigsAssumption == Configs \subseteq Config

VARIABLES
  live,       \* the configuration globals
  target,     \* the configuration being loaded
  pc,         \* the watcher's position in Program, 0 when it sleeps
  built,      \* g_customPhoneQStr and g_botVerifyDescQStr
  hooked,     \* the hooks that are on
  user,       \* UserData, as far as the hooks know it
  at,         \* where in Work hkUserSetFlags is, 0 when it is not running
  phase,      \* what it does there: "test", "aim" or "force"
  who,        \* its user
  which,      \* the flags it will store
  self,       \* did the user have the Self bit when it began?
  held,       \* the phone string it tested
  selfId,     \* g_selfUserId
  row,        \* the row of a profile rendered last: as the client itself would?
  before,     \* history: <<the user when the call began>>, <<>> once a reload came
  wrote       \* history: the fields this call has written behind Telegram's back

watcherVars == <<live, target, pc, built, hooked>>
callVars == <<at, phase, who, which, self, held>>
history == <<before, wrote>>
vars == <<watcherVars, user, callVars, selfId, row, history>>

On(f) == f \in live.on

----------------------------------------------------------------------------
(* The watcher: the stores of pg_config_load that display hooks read, and  *)
(* then the end of pg_apply_mem_patches.                                   *)

Program ==
  << <<"on", "premium">>, <<"on", "hidePhone">>, <<"on", "badge">>, <<"mode", "badge">>,
     <<"on", "rating">>, <<"mode", "rating">>, <<"value", "rating">>,
     <<"on", "channel">>, <<"value", "channel">>, <<"mode", "channel">>,
     <<"on", "phone">>, <<"value", "phone">>, <<"on", "fragment">>,
     <<"on", "userid">>, <<"value", "userid">>,
     <<"on", "verify">>, <<"mode", "verify">>, <<"value", "verify">>,
     <<"build", "phone">>, <<"build", "verify">>,
     <<"hook", "phoneRow">>, <<"hook", "setFlags">>, <<"hook", "userid">>,
     <<"hook", "collectible">> >>

Doing(kind, x) == pc # 0 /\ Program[pc] = <<kind, x>>

HookWanted(h) == live.on \cap HookFlags[h] # {}

\* Faulty: an empty text is a string as well.
BuiltAnyway(f) == live.value[f]

\* pg_build_qstring: an empty text has no string.
Built(f) == IF live.value[f] = Nothing THEN Null ELSE live.value[f]

\* Stores that change nothing are passed over.
Changes(k) ==
  LET x == Program[k][2]
  IN CASE Program[k][1] = "on" -> (x \in target.on) # On(x)
       [] Program[k][1] = "mode" -> target.mode[x] # live.mode[x]
       [] Program[k][1] = "value" -> target.value[x] # live.value[x]
       [] Program[k][1] = "build" -> built[x] # Built(x)
       [] Program[k][1] = "hook" -> HookWanted(x) # (x \in hooked)

Advance ==
  \/ /\ pc' \in {k \in DOMAIN Program : k > pc /\ Changes(k)'}
     /\ \A k \in pc + 1 .. pc' - 1 : ~Changes(k)'
  \/ pc' = 0 /\ \A k \in pc + 1 .. Len(Program) : ~Changes(k)'

Client == <<user, callVars, selfId, row>>

BeginReload(c) ==
  /\ pc = 0
  /\ target' = c /\ UNCHANGED <<live, built, hooked>>
  /\ Advance
  /\ before' = <<>>
  /\ UNCHANGED <<Client, wrote>>

LoadOn(f) ==
  /\ Doing("on", f)
  /\ live' = [live EXCEPT !.on = IF f \in target.on THEN @ \cup {f} ELSE @ \ {f}]
  /\ UNCHANGED <<target, built, hooked, Client, history>>
  /\ Advance

LoadMode(f) ==
  /\ Doing("mode", f)
  /\ live' = [live EXCEPT !.mode[f] = target.mode[f]]
  /\ UNCHANGED <<target, built, hooked, Client, history>>
  /\ Advance

LoadValue(f) ==
  /\ Doing("value", f)
  /\ live' = [live EXCEPT !.value[f] = target.value[f]]
  /\ UNCHANGED <<target, built, hooked, Client, history>>
  /\ Advance

\* pg_build_custom_phone, pg_build_bot_verify: the string before stays allocated.
BuildString(f) ==
  /\ Doing("build", f)
  /\ built' = [built EXCEPT ![f] = Built(f)]
  /\ UNCHANGED <<live, target, hooked, Client, history>>
  /\ Advance

\* Nothing a hook has done is undone when it is switched off.
SwitchHook(h) ==
  /\ Doing("hook", h)
  /\ hooked' = IF HookWanted(h) THEN hooked \cup {h} ELSE hooked \ {h}
  /\ UNCHANGED <<live, target, built, Client, history>>
  /\ Advance

Watcher ==
  \/ \E c \in Configs : BeginReload(c)
  \/ \E f \in Flag : LoadOn(f)
  \/ \E f \in Moded : LoadMode(f)
  \/ \E f \in Valued : LoadValue(f)
  \/ \E f \in {"phone", "verify"} : BuildString(f)
  \/ \E h \in Hook : SwitchHook(h)

----------------------------------------------------------------------------
(* hkUserSetFlags.                                                         *)

\* Faulty: the verification comes last.
WorkVerifyLast ==
  <<"badge", "premium", "store", "rating", "channel", "phone", "verify", "done">>

Work == <<"badge", "premium", "store", "verify", "rating", "channel", "phone", "done">>

At(f, doing) == at # 0 /\ Work[at] = f /\ phase = doing

\* A user as the server has it, and its flags.
Loaded == [flags |-> {}, verify |-> Nothing, rating |-> Nothing, channel |-> Nothing,
           phone |-> Nothing]
ServerFlags(u) == IF u \in Accounts THEN {"self"} ELSE {}

NoRow == [who |-> Nothing, plain |-> TRUE]

Nobody == /\ at' = 0 /\ phase' = "test" /\ who' = Nothing /\ which' = {} /\ self' = FALSE
          /\ held' = Null

Proceed == at' = at + 1 /\ phase' = "test"
Calling == UNCHANGED <<watcherVars, who, self, selfId, row, before>>

IsSelf(u) == "self" \in user[u].flags

\* Faulty: the last user is remembered, whoever it is.
RecordedAny(u) == u

Recorded(u) == IF IsSelf(u) THEN u ELSE selfId

\* The Self bit is the one stored by the call before.
BeginSetFlags(u) ==
  /\ at = 0 /\ "setFlags" \in hooked
  /\ at' = 1 /\ phase' = "test" /\ who' = u /\ which' = ServerFlags(u)
  /\ self' = IsSelf(u) /\ held' = Null
  /\ selfId' = Recorded(u)
  /\ row' = NoRow
  /\ before' = IF pc = 0 THEN <<user[u]>> ELSE <<>>
  /\ UNCHANGED <<watcherVars, user, wrote>>

\* The client's own setFlags.
SetFlagsUnhooked(u) ==
  /\ at = 0 /\ "setFlags" \notin hooked
  /\ user' = [user EXCEPT ![u].flags = ServerFlags(u)]
  /\ row' = NoRow
  /\ UNCHANGED <<watcherVars, callVars, selfId, history>>

\* The server sends a user anew: the client's setters write its fields.
Refresh(u) ==
  /\ at = 0
  /\ user' = [user EXCEPT ![u] = [Loaded EXCEPT !.flags = user[u].flags]]
  /\ row' = NoRow
  /\ UNCHANGED <<watcherVars, callVars, selfId, history>>

\* Faulty: a string is taken to be there when the feature is on.
TestedFlagOnly(f) ==
  On(f) /\ (f = "channel" => live.value[f] # Nothing) /\ (f \in SelfOnly => self)

\* What is looked at before the target mode.
Tested(f) ==
  /\ On(f)
  /\ f = "channel" => live.value[f] # Nothing
  /\ f \in DOMAIN built => built[f] # Null
  /\ f \in SelfOnly => self

Test(f) ==
  /\ At(f, "test")
  /\ IF Tested(f) THEN phase' = (IF f \in Moded THEN "aim" ELSE "force") /\ at' = at
                  ELSE Proceed
  /\ held' = IF f = "phone" THEN built[f] ELSE held
  /\ UNCHANGED <<user, which, wrote>> /\ Calling

\* Faulty: "except me" and "only me" are swapped.
TargetsSwapped(mode) == mode = "all" \/ (mode = "onlySelf" /\ ~self) \/ (mode = "allExceptSelf" /\ self)

\* pg_mode_target.
Targets(mode) == mode = "all" \/ (mode = "onlySelf" /\ self) \/ (mode = "allExceptSelf" /\ ~self)

Aim(f) ==
  /\ At(f, "aim")
  /\ IF Targets(live.mode[f]) THEN phase' = "force" /\ at' = at ELSE Proceed
  /\ UNCHANGED <<user, which, held, wrote>> /\ Calling

AddFlag(f) ==
  /\ At(f, "force")
  /\ which' = which \cup {f}
  /\ Proceed
  /\ UNCHANGED <<user, held, wrote>> /\ Calling

\* The original setFlags stores the flags and notifies.
Store ==
  /\ At("store", "test")
  /\ user' = [user EXCEPT ![who].flags = which]
  /\ Proceed
  /\ UNCHANGED <<which, held, wrote>> /\ Calling

\* setBotVerifyDetails with the string there is now, which the client copies: a NULL
\* one is its end.
ForceVerify ==
  /\ At("verify", "force")
  /\ user' = [user EXCEPT ![who].verify = built.verify]
  /\ Proceed
  /\ UNCHANGED <<which, held, wrote>> /\ Calling

ForceField(f) ==
  /\ At(f, "force")
  /\ user' = [user EXCEPT ![who][f] = live.value[f]]
  /\ wrote' = wrote \cup {f}
  /\ Proceed
  /\ UNCHANGED <<which, held>> /\ Calling

\* The string that was tested, or, where it is read again, the one there is now.
ForcePhone ==
  /\ At("phone", "force")
  /\ \E p \in {held, built.phone} :
       user' = IF user[who].phone = Null THEN user ELSE [user EXCEPT ![who].phone = p]
  /\ wrote' = wrote \cup {"phone"}
  /\ Proceed
  /\ UNCHANGED <<which, held>> /\ Calling

Return ==
  /\ At("done", "test")
  /\ Nobody
  /\ before' = <<>> /\ wrote' = {}
  /\ UNCHANGED <<watcherVars, user, selfId, row>>

----------------------------------------------------------------------------
(* hkPhoneVal, hkToString and hkIsCollectiblePhone.                        *)

Rendered(u, changed) ==
  /\ at = 0
  /\ row' = [who |-> u, plain |-> ~changed]
  /\ UNCHANGED <<watcherVars, user, callVars, selfId, history>>

\* The original returns the number, or the text all profiles share, which stays.
RenderPhone(u, text) ==
  Rendered(u, /\ "phoneRow" \in hooked /\ On("hidePhone")
              /\ IsSelf(u) /\ text = "number")

\* A row shows the id of its user.
RenderId(u) ==
  Rendered(u, /\ "userid" \in hooked /\ On("userid") /\ live.value["userid"] # Nothing
              /\ u = selfId)

RenderCollectible(u) == Rendered(u, "collectible" \in hooked /\ IsSelf(u))

----------------------------------------------------------------------------

Crashed == \E u \in User : user[u].verify = Null

\* The client is started again, and loads what the watcher was loading.
Restart ==
  /\ Crashed
  /\ live' = target /\ target' = target /\ pc' = 0
  /\ built' = [f \in DOMAIN built |-> Built(f)'] /\ hooked' = {h \in Hook : HookWanted(h)'}
  /\ user' = [u \in User |-> Loaded] /\ selfId' = Nothing
  /\ Nobody
  /\ row' = NoRow
  /\ before' = <<>> /\ wrote' = {}

Init ==
  /\ live \in Configs /\ target = live /\ pc = 0
  /\ built = [f \in {"phone", "verify"} |-> Built(f)]
  /\ hooked = {h \in Hook : HookWanted(h)}
  /\ user = [u \in User |-> Loaded]
  /\ at = 0 /\ phase = "test" /\ who = Nothing /\ which = {} /\ self = FALSE /\ held = Null
  /\ selfId = Nothing
  /\ row = NoRow
  /\ before = <<>> /\ wrote = {}

Interface ==
  \/ \E u \in User : BeginSetFlags(u)
  \/ \E u \in User : SetFlagsUnhooked(u)
  \/ \E u \in User : Refresh(u)
  \/ \E f \in Moded \cup SelfOnly : Test(f)
  \/ \E f \in Moded : Aim(f)
  \/ \E f \in {"badge", "premium"} : AddFlag(f)
  \/ Store
  \/ ForceVerify
  \/ \E f \in {"rating", "channel"} : ForceField(f)
  \/ ForcePhone
  \/ Return
  \/ \E u \in User, text \in {"number", "hidden"} : RenderPhone(u, text)
  \/ \E u \in User : RenderId(u)
  \/ \E u \in User : RenderCollectible(u)

Next ==
  \/ ~Crashed /\ (Watcher \/ Interface)
  \/ Restart

Spec == Init /\ [][Next]_vars

----------------------------------------------------------------------------
(* Properties.                                                             *)

Field == ValueOrNothing \cup {Null}
UserData == [flags : SUBSET {"self", "badge", "premium"}, verify : Field,
             rating : ValueOrNothing, channel : ValueOrNothing, phone : Field]

\* Every variable has its type.
TypeOK ==
  /\ live \in Config /\ target \in Configs /\ pc \in 0 .. Len(Program)
  /\ built \in [{"phone", "verify"} -> Value \cup {Null}] /\ hooked \subseteq Hook
  /\ user \in [User -> UserData]
  /\ at \in 0 .. Len(Work) /\ phase \in {"test", "aim", "force"}
  /\ who \in User \cup {Nothing} /\ which \subseteq {"self", "badge", "premium"}
  /\ self \in BOOLEAN /\ held \in Value \cup {Null} /\ selfId \in User \cup {Nothing}
  /\ row \in [who : User \cup {Nothing}, plain : BOOLEAN]
  /\ before \in Seq(UserData) /\ wrote \subseteq {"rating", "channel", "phone"}

\* The users a target mode speaks of, by their Self bit.
Reach == [all |-> BOOLEAN, allExceptSelf |-> {FALSE}, onlySelf |-> {TRUE}]

Asked(f, isSelf) ==
  /\ On(f)
  /\ f \in Valued \ {"rating"} => live.value[f] # Nothing
  /\ isSelf \in IF f \in SelfOnly THEN {TRUE} ELSE Reach[live.mode[f]]

\* A call of setFlags with no reload in it leaves the user as the configuration
\* asks: the flags of the server with the forced ones, and each field forced if its
\* feature is on for this kind of user and has something to show, and otherwise as
\* it was, even if an earlier configuration has forced it.  (A rating is written
\* whatever it is; a number that is NULL is left NULL.)
ForcedAsAsked ==
  at # 0 /\ Work[at] = "done" /\ before # <<>> =>
    LET old == before[1]
        isSelf == "self" \in old.flags
        As(f) == IF Asked(f, isSelf) THEN live.value[f] ELSE old[f]
    IN user[who] =
         [flags |-> ServerFlags(who) \cup {f \in {"badge", "premium"} : Asked(f, isSelf)},
          verify |-> As("verify"), rating |-> As("rating"), channel |-> As("channel"),
          phone |-> IF old.phone = Null THEN Null ELSE As("phone")]

\* "MUST run FIRST among the after-writes": the flags and the verification, whose
\* setters render the profile on the spot, change while this call has not written a
\* field behind Telegram's back, whatever reloads come in between.
NotifiesBeforeWrites ==
  [][at # 0 /\ (user'[who].flags # user[who].flags \/ user'[who].verify # user[who].verify)
       => wrote = {}]_vars

\* A NULL string, on which the client would fall over, gets into a user only if a
\* reload took the text away in the middle of that very call.
NullOnlyInRace ==
  [][\A u \in User : \A f \in {"phone", "verify"} :
       user'[u][f] = Null /\ user[u][f] # Null => before = <<>>]_vars

\* The three rows whose text is replaced while it is rendered (number, id, and
\* whether the number is a collectible) are never changed for somebody else, though
\* the hook of the number formatter has only a number to go by and the Self bit may
\* be late.
OthersAreShownAsTheyAre == row.who \in User \ Accounts => row.plain
=============================================================================
