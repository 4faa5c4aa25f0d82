-------------------------- MODULE DisplayHooksProofs --------------------------
(***************************************************************************)
(* DisplayHooks keeps its types and shows users as it is asked to, for any *)
(* users, accounts and values, and for all configurations.                 *)
(***************************************************************************)
EXTENDS DisplayHooks, TLAPS

USE DEF vars, watcherVars, callVars, history, Client

\* What is written where in the list of the watcher's stores.
LEMMA ProgramSize == Len(Program) = 24 /\ DOMAIN Program = 1 .. 24
BY SMT DEF Program

\* The two strings are built after all values have been loaded.
LEMMA Builds ==
  \A k \in 1 .. 24 : /\ Program[k] = <<"build", "phone">> <=> k = 19
                     /\ Program[k] = <<"build", "verify">> <=> k = 20
                     /\ Program[k][1] = "value" => k < 19
BY SMT DEF Program

\* The features in the order in which a call goes through them.
LEMMA WorkOrder ==
  /\ Len(Work) = 8
  /\ Work[1] = "badge" /\ Work[2] = "premium" /\ Work[3] = "store" /\ Work[4] = "verify"
  /\ Work[5] = "rating" /\ Work[6] = "channel" /\ Work[7] = "phone" /\ Work[8] = "done"
BY SMT DEF Work

----------------------------------------------------------------------------
(* Types.                                                                  *)

\* The watcher moves on to another store of its list, or sleeps.
LEMMA AdvanceType ==
  ASSUME pc \in 0 .. 24, Advance
  PROVE  pc' \in 0 .. 24
BY ProgramSize DEF Advance

\* A string that is built is a text or NULL.
LEMMA BuiltType ==
  ASSUME live \in Config, NEW f \in {"phone", "verify"}
  PROVE  Built(f) \in Value \cup {Null}
BY DEF Built, Config, Valued, ValueOrNothing

\* The client has just been started.
LEMMA InitType == Init => TypeOK
<1> SUFFICES ASSUME Init PROVE TypeOK
  OBVIOUS
<1>1. live \in Config /\ target \in Configs
  BY ConfigsAssumption DEF Init
<1>2. built \in [{"phone", "verify"} -> Value \cup {Null}]
  BY <1>1, BuiltType DEF Init
<1>3. user \in [User -> UserData]
  BY DEF Init, Loaded, UserData, Field, ValueOrNothing
<1>4. row \in [who : User \cup {Nothing}, plain : BOOLEAN]
  BY DEF Init, NoRow
<1>5. before \in Seq(UserData)
  BY DEF Init
<1>6. hooked \subseteq Hook
  BY DEF Init
<1>7. self \in BOOLEAN
  BY DEF Init
<1>8. /\ at \in 0 .. Len(Work) /\ pc \in 0 .. Len(Program)
      /\ phase \in {"test", "aim", "force"} /\ who \in User \cup {Nothing}
      /\ which \subseteq {"self", "badge", "premium"}
  BY ProgramSize, WorkOrder DEF Init
<1>9. held \in Value \cup {Null} /\ selfId \in User \cup {Nothing}
      /\ wrote \subseteq {"rating", "channel", "phone"}
  BY DEF Init
<1> QED
  BY <1>1, <1>2, <1>3, <1>4, <1>5, <1>6, <1>7, <1>8, <1>9, ProgramSize, WorkOrder DEF Init, TypeOK

\* A step of the watcher loads one global, builds a string or switches a hook.
LEMMA WatcherType ==
  ASSUME TypeOK, Watcher
  PROVE  TypeOK'
<1>1. pc' \in 0 .. 24
  <2>1. Advance
    BY DEF Watcher, BeginReload, LoadOn, LoadMode, LoadValue, BuildString, SwitchHook
  <2> QED
    BY <2>1, AdvanceType, ProgramSize DEF TypeOK
<1>2. ASSUME NEW c \in Configs, BeginReload(c)
      PROVE  TypeOK'
  BY <1>1, <1>2, ProgramSize DEF BeginReload, TypeOK
<1>3. ASSUME NEW f \in Flag, LoadOn(f)
      PROVE  TypeOK'
  <2>1. live' \in Config
    BY <1>3 DEF LoadOn, TypeOK, Config
  <2> QED
    BY <1>1, <1>3, <2>1, ProgramSize DEF LoadOn, TypeOK
<1>4. ASSUME NEW f \in Moded, LoadMode(f)
      PROVE  TypeOK'
  <2>1. target \in Config
    BY ConfigsAssumption DEF TypeOK
  <2>2. live' \in Config
    BY <1>4, <2>1 DEF LoadMode, TypeOK, Config
  <2> QED
    BY <1>1, <1>4, <2>2, ProgramSize DEF LoadMode, TypeOK
<1>5. ASSUME NEW f \in Valued, LoadValue(f)
      PROVE  TypeOK'
  <2>1. target \in Config
    BY ConfigsAssumption DEF TypeOK
  <2>2. live' \in Config
    BY <1>5, <2>1 DEF LoadValue, TypeOK, Config
  <2> QED
    BY <1>1, <1>5, <2>2, ProgramSize DEF LoadValue, TypeOK
<1>6. ASSUME NEW f \in {"phone", "verify"}, BuildString(f)
      PROVE  TypeOK'
  <2>1. Built(f) \in Value \cup {Null}
    BY BuiltType DEF TypeOK
  <2>2. built' \in [{"phone", "verify"} -> Value \cup {Null}]
    BY <1>6, <2>1 DEF BuildString, TypeOK
  <2> QED
    BY <1>1, <1>6, <2>2, ProgramSize DEF BuildString, TypeOK
<1>7. ASSUME NEW h \in Hook, SwitchHook(h)
      PROVE  TypeOK'
  BY <1>1, <1>7, ProgramSize DEF SwitchHook, TypeOK
<1> QED
  BY <1>2, <1>3, <1>4, <1>5, <1>6, <1>7 DEF Watcher

\* A user of which one field has been written is a user.
LEMMA UserType ==
  ASSUME TypeOK, NEW u \in User
  PROVE  /\ \A w \in SUBSET {"self", "badge", "premium"} :
               [user EXCEPT ![u].flags = w] \in [User -> UserData]
         /\ \A x \in Field : [user EXCEPT ![u].verify = x] \in [User -> UserData]
         /\ \A x \in Field : [user EXCEPT ![u].phone = x] \in [User -> UserData]
         /\ \A f \in {"rating", "channel"}, x \in ValueOrNothing :
               [user EXCEPT ![u][f] = x] \in [User -> UserData]
         /\ IsSelf(u) \in BOOLEAN /\ ServerFlags(u) \subseteq {"self", "badge", "premium"}
BY DEF TypeOK, UserData, IsSelf, ServerFlags

\* No call is running.
LEMMA NobodyType ==
  ASSUME Nobody
  PROVE  /\ at' \in 0 .. 8 /\ phase' \in {"test", "aim", "force"} /\ who' \in User \cup {Nothing}
         /\ which' \subseteq {"self", "badge", "premium"} /\ self' \in BOOLEAN
         /\ held' \in Value \cup {Null}
<1>1. at' = 0 /\ phase' = "test" /\ who' = Nothing /\ which' = {} /\ self' = FALSE /\ held' = Null
  BY DEF Nobody
<1>2. self' \in BOOLEAN
  BY <1>1
<1>3. which' \subseteq {"self", "badge", "premium"}
  BY <1>1
<1> QED
  BY <1>1, <1>2, <1>3

\* While a call runs, its user is known.
InCall == at # 0 => who \in User

\* A step of the client's thread.
LEMMA InterfaceType ==
  ASSUME TypeOK, InCall, Interface
  PROVE  TypeOK' /\ InCall'
<1> USE ProgramSize, WorkOrder DEF TypeOK, InCall
<1>1. ASSUME NEW u \in User, BeginSetFlags(u)
      PROVE  TypeOK' /\ InCall'
  <2>1. row' \in [who : User \cup {Nothing}, plain : BOOLEAN]
    BY <1>1 DEF BeginSetFlags, NoRow
  <2>2. before' \in Seq(UserData)
    BY <1>1 DEF BeginSetFlags
  <2> QED
    BY <1>1, <2>1, <2>2, UserType DEF BeginSetFlags, Recorded
<1>2. ASSUME NEW u \in User, SetFlagsUnhooked(u)
      PROVE  TypeOK' /\ InCall'
  <2>1. row' \in [who : User \cup {Nothing}, plain : BOOLEAN]
    BY <1>2 DEF SetFlagsUnhooked, NoRow
  <2>2. user' \in [User -> UserData]
    BY <1>2, UserType DEF SetFlagsUnhooked
  <2> QED
    BY <1>2, <2>1, <2>2 DEF SetFlagsUnhooked
<1>3. ASSUME NEW u \in User, Refresh(u)
      PROVE  TypeOK' /\ InCall'
  <2>1. row' \in [who : User \cup {Nothing}, plain : BOOLEAN]
    BY <1>3 DEF Refresh, NoRow
  <2>2. user' \in [User -> UserData]
    BY <1>3 DEF Refresh, Loaded, UserData, Field, ValueOrNothing
  <2> QED
    BY <1>3, <2>1, <2>2 DEF Refresh
<1>4. ASSUME NEW f \in Moded \cup SelfOnly, Test(f)
      PROVE  TypeOK' /\ InCall'
  <2>1. at \in 1 .. 7
    BY <1>4 DEF Test, At, Moded, SelfOnly
  <2>2. at' \in 1 .. 8 /\ phase' \in {"test", "aim", "force"}
    BY <1>4, <2>1 DEF Test, Proceed
  <2>3. held' \in Value \cup {Null}
    BY <1>4 DEF Test
  <2> QED
    BY <1>4, <2>1, <2>2, <2>3 DEF Test, Calling
<1>5. ASSUME NEW f \in Moded, Aim(f)
      PROVE  TypeOK' /\ InCall'
  <2>1. at \in 1 .. 7
    BY <1>5 DEF Aim, At, Moded
  <2>2. at' \in 1 .. 8 /\ phase' \in {"test", "aim", "force"}
    BY <1>5, <2>1 DEF Aim, Proceed
  <2> QED
    BY <1>5, <2>1, <2>2 DEF Aim, Calling
<1>6. ASSUME NEW f \in {"badge", "premium"}, AddFlag(f)
      PROVE  TypeOK' /\ InCall'
  <2>1. at \in 1 .. 7
    BY <1>6 DEF AddFlag, At
  <2> QED
    BY <1>6, <2>1 DEF AddFlag, Calling, Proceed
<1>7. ASSUME Store
      PROVE  TypeOK' /\ InCall'
  <2>1. at \in 1 .. 7
    BY <1>7 DEF Store, At
  <2>2. user' \in [User -> UserData]
    BY <1>7, <2>1, UserType DEF Store
  <2> QED
    BY <1>7, <2>1, <2>2 DEF Store, Calling, Proceed
<1>8. ASSUME ForceVerify
      PROVE  TypeOK' /\ InCall'
  <2>1. at \in 1 .. 7
    BY <1>8 DEF ForceVerify, At
  <2>2. user' \in [User -> UserData]
    BY <1>8, <2>1, UserType DEF ForceVerify, Field, ValueOrNothing
  <2> QED
    BY <1>8, <2>1, <2>2 DEF ForceVerify, Calling, Proceed
<1>9. ASSUME NEW f \in {"rating", "channel"}, ForceField(f)
      PROVE  TypeOK' /\ InCall'
  <2>1. at \in 1 .. 7
    BY <1>9 DEF ForceField, At
  <2>2. live.value[f] \in ValueOrNothing
    BY DEF Config, Valued
  <2>3. user' \in [User -> UserData]
    BY <1>9, <2>1, <2>2, UserType DEF ForceField
  <2> QED
    BY <1>9, <2>1, <2>3 DEF ForceField, Calling, Proceed
<1>10. ASSUME ForcePhone
       PROVE  TypeOK' /\ InCall'
  <2>1. at \in 1 .. 7
    BY <1>10 DEF ForcePhone, At
  <2>2. user' \in [User -> UserData]
    <3>1. {held, built.phone} \subseteq Field
      BY DEF Field, ValueOrNothing
    <3>2. PICK p \in {held, built.phone} :
             user' = IF user[who].phone = Null THEN user ELSE [user EXCEPT ![who].phone = p]
      BY <1>10 DEF ForcePhone
    <3> QED
      BY <2>1, <3>1, <3>2, UserType
  <2> QED
    BY <1>10, <2>1, <2>2 DEF ForcePhone, Calling, Proceed
<1>11. ASSUME Return
       PROVE  TypeOK' /\ InCall'
  <2>1. before' \in Seq(UserData) /\ wrote' \subseteq {"rating", "channel", "phone"}
    BY <1>11 DEF Return
  <2>2. at' = 0
    BY <1>11 DEF Return, Nobody
  <2>3. TypeOK'
    BY <1>11, <2>1, NobodyType DEF Return
  <2> QED
    BY <2>2, <2>3
<1>12. ASSUME NEW u \in User, NEW text \in {"number", "hidden"}, RenderPhone(u, text)
       PROVE  TypeOK' /\ InCall'
  <2>1. PICK changed \in BOOLEAN : Rendered(u, changed)
    BY <1>12 DEF RenderPhone
  <2>2. row' \in [who : User \cup {Nothing}, plain : BOOLEAN]
    BY <2>1 DEF Rendered
  <2> QED
    BY <2>1, <2>2 DEF Rendered
<1>13. ASSUME NEW u \in User, RenderId(u)
       PROVE  TypeOK' /\ InCall'
  <2>1. PICK changed \in BOOLEAN : Rendered(u, changed)
    BY <1>13 DEF RenderId
  <2>2. row' \in [who : User \cup {Nothing}, plain : BOOLEAN]
    BY <2>1 DEF Rendered
  <2> QED
    BY <1>13, <2>1, <2>2 DEF Rendered, RenderId
<1>14. ASSUME NEW u \in User, RenderCollectible(u)
       PROVE  TypeOK' /\ InCall'
  <2>1. PICK changed \in BOOLEAN : Rendered(u, changed)
    BY <1>14 DEF RenderCollectible
  <2>2. row' \in [who : User \cup {Nothing}, plain : BOOLEAN]
    BY <2>1 DEF Rendered
  <2> QED
    BY <1>14, <2>1, <2>2 DEF Rendered, RenderCollectible
<1> QED
  BY <1>1, <1>2, <1>3, <1>4, <1>5, <1>6, <1>7, <1>8, <1>9, <1>10, <1>11, <1>12, <1>13, <1>14
  DEF Interface

\* The client is started again with everything as it was loaded.
LEMMA RestartType ==
  ASSUME TypeOK, Restart
  PROVE  TypeOK' /\ InCall'
<1>1. live' \in Config /\ target' \in Configs
  BY ConfigsAssumption DEF Restart, TypeOK
<1>2. built' \in [{"phone", "verify"} -> Value \cup {Null}]
  <2>1. \A f \in {"phone", "verify"} : Built(f)' \in Value \cup {Null}
    BY <1>1 DEF Built, Config, Valued, ValueOrNothing
  <2>2. built' = [f \in {"phone", "verify"} |-> Built(f)']
    BY DEF Restart, TypeOK
  <2> QED
    BY <2>1, <2>2
<1>3. user' \in [User -> UserData]
  BY DEF Restart, Loaded, UserData, Field, ValueOrNothing
<1>4. row' \in [who : User \cup {Nothing}, plain : BOOLEAN]
  BY DEF Restart, NoRow
<1>5. before' \in Seq(UserData)
  BY DEF Restart
<1>6. hooked' \subseteq Hook
  BY DEF Restart
<1>7. wrote' \subseteq {"rating", "channel", "phone"} /\ selfId' \in User \cup {Nothing}
  BY DEF Restart
<1>8. pc' \in 0 .. Len(Program)
  BY ProgramSize DEF Restart
<1>9. Nobody
  BY DEF Restart
<1>10. TypeOK'
  BY <1>1, <1>2, <1>3, <1>4, <1>5, <1>6, <1>7, <1>8, <1>9, NobodyType, WorkOrder DEF TypeOK
<1> QED
  BY <1>9, <1>10 DEF Nobody, InCall

\* The types, made inductive.
TypeInv == TypeOK /\ InCall

\* All of Next, and stuttering.
LEMMA TypeStep == TypeInv /\ [Next]_vars => TypeInv'
<1> SUFFICES ASSUME TypeInv, [Next]_vars PROVE TypeInv'
  OBVIOUS
<1> USE DEF TypeInv
<1>1. CASE Watcher
  <2>1. InCall'
    BY <1>1 DEF InCall, Watcher, BeginReload, LoadOn, LoadMode, LoadValue, BuildString, SwitchHook
  <2> QED
    BY <1>1, <2>1, WatcherType
<1>2. CASE Interface
  BY <1>2, InterfaceType
<1>3. CASE Restart
  BY <1>3, RestartType
<1>4. CASE UNCHANGED vars
  BY <1>4 DEF TypeOK, InCall
<1> QED
  BY <1>1, <1>2, <1>3, <1>4 DEF Next

\* Every variable has its type, whatever the hooks, the watcher and the client do.
THEOREM TypeCorrect == Spec => []TypeOK
<1>1. Init => TypeInv
  BY InitType DEF TypeInv, InCall, Init
<1>2. TypeInv => TypeOK
  BY DEF TypeInv
<1> QED
  BY <1>1, <1>2, TypeStep, PTL DEF Spec

----------------------------------------------------------------------------
(* Nothing is written behind Telegram's back before the notifications.     *)

\* What a call may have written, by how far it is, and when the client has crashed.
OrderInv == (at \in 0 .. 4 \/ Crashed => wrote = {})

\* Only the two writes behind Telegram's back grow the set, and they come late.
LEMMA OrderStep == TypeInv /\ OrderInv /\ [Next]_vars => OrderInv'
<1> SUFFICES ASSUME TypeInv, OrderInv, [Next]_vars PROVE OrderInv'
  OBVIOUS
<1> USE DEF OrderInv
<1>1. CASE Watcher
  <2>1. UNCHANGED <<at, wrote, user>>
    BY <1>1 DEF Watcher, BeginReload, LoadOn, LoadMode, LoadValue, BuildString, SwitchHook
  <2> QED
    BY <2>1 DEF Crashed
<1>2. CASE ~Crashed /\ Interface
  <2>1. CASE at \in 0 .. 4
    <3>1. wrote' = {}
      <4>1. ~At("rating", "force") /\ ~At("channel", "force") /\ ~At("phone", "force")
        BY <2>1, WorkOrder DEF At
      <4>2. ASSUME NEW f \in {"rating", "channel"} PROVE ~ForceField(f)
        BY <4>1 DEF ForceField
      <4>3. ~ForcePhone
        BY <4>1 DEF ForcePhone
      <4> QED
        BY <1>2, <2>1, <4>2, <4>3
        DEF Interface, BeginSetFlags, SetFlagsUnhooked, Refresh, Test, Aim, AddFlag, Store,
            ForceVerify, Return, RenderPhone, RenderId, RenderCollectible, Rendered
    <3> QED
      BY <3>1
  <2>2. CASE at \in 5 .. 8
    <3>1. CASE Return
      BY <3>1 DEF Return
    <3>2. CASE ~Return
      <4>1. ~Store /\ ~ForceVerify
        BY <2>2, WorkOrder DEF Store, ForceVerify, At
      <4>2. at' \in {at, at + 1}
        BY <1>2, <2>2, <3>2, <4>1
        DEF Interface, BeginSetFlags, SetFlagsUnhooked, Refresh, Test, Aim, AddFlag, Proceed,
            ForceField, ForcePhone, RenderPhone, RenderId, RenderCollectible, Rendered
      <4>3. \A u \in User : user'[u].verify = user[u].verify
        <5>1. ASSUME NEW f \in {"rating", "channel"}, ForceField(f)
              PROVE  \A u \in User : user'[u].verify = user[u].verify
          BY <5>1 DEF ForceField, TypeInv, TypeOK, InCall, UserData
        <5>2. CASE ForcePhone
          BY <5>2 DEF ForcePhone, TypeInv, TypeOK, InCall, UserData
        <5> QED
          BY <1>2, <2>2, <3>2, <4>1, <5>1, <5>2
          DEF Interface, BeginSetFlags, SetFlagsUnhooked, Refresh, Test, Aim, AddFlag,
              RenderPhone, RenderId, RenderCollectible, Rendered
      <4> QED
        BY <1>2, <2>2, <4>2, <4>3 DEF Crashed
    <3> QED
      BY <3>1, <3>2
  <2> QED
    BY <2>1, <2>2, WorkOrder DEF TypeInv, TypeOK
<1>3. CASE Restart
  BY <1>3 DEF Restart
<1>4. CASE UNCHANGED vars
  BY <1>4 DEF Crashed
<1> QED
  BY <1>1, <1>2, <1>3, <1>4 DEF Next

\* A call sets the flags and the verification of its user, both of which render the
\* profile, before it writes a field behind Telegram's back.
THEOREM NotifiesBeforeWrites_Always == Spec => NotifiesBeforeWrites
<1> DEFINE Notifies == user'[who].flags # user[who].flags \/ user'[who].verify # user[who].verify
<1>1. Init => TypeInv /\ OrderInv
  BY InitType DEF TypeInv, InCall, Init, OrderInv
<1>2. TypeInv /\ OrderInv /\ [Next]_vars => [at # 0 /\ Notifies => wrote = {}]_vars
  <2> SUFFICES ASSUME TypeInv, OrderInv, Next, at # 0, Notifies PROVE wrote = {}
    BY DEF Notifies
  <2>1. who \in User
    BY DEF TypeInv, InCall
  <2>2. CASE Watcher
    BY <2>2 DEF Watcher, BeginReload, LoadOn, LoadMode, LoadValue, BuildString, SwitchHook
  <2>3. CASE Interface
    <3>1. CASE Store \/ ForceVerify
      <4>1. at \in {3, 4}
        BY <3>1, WorkOrder DEF Store, ForceVerify, At, TypeInv, TypeOK
      <4> QED
        BY <4>1 DEF OrderInv
    <3>2. ASSUME NEW f \in {"rating", "channel"}, ForceField(f) PROVE FALSE
      BY <2>1, <3>2 DEF ForceField, TypeInv, TypeOK, UserData
    <3>3. CASE ForcePhone
      BY <2>1, <3>3 DEF ForcePhone, TypeInv, TypeOK, UserData
    <3> QED
      BY <2>3, <3>1, <3>2, <3>3
      DEF Interface, BeginSetFlags, SetFlagsUnhooked, Refresh, Test, Aim, AddFlag, Return,
          RenderPhone, RenderId, RenderCollectible, Rendered
  <2>4. CASE Restart
    BY <2>4 DEF Restart, OrderInv
  <2> QED
    BY <2>2, <2>3, <2>4 DEF Next
<1> HIDE DEF Notifies
<1>3. Spec => [][at # 0 /\ Notifies => wrote = {}]_vars
  BY <1>1, <1>2, TypeStep, OrderStep, PTL DEF Spec
<1> QED
  BY <1>3 DEF NotifiesBeforeWrites, Notifies

----------------------------------------------------------------------------
(* What others show.                                                       *)

\* Who is taken for the own account is an account, however late the Self bit is.
SelfInv ==
  /\ \A u \in User : "self" \in user[u].flags => u \in Accounts
  /\ "self" \in which => who \in Accounts
  /\ selfId \in Accounts \cup {Nothing}

\* The Self bit comes from the server and goes to nobody else.
LEMMA SelfStep == TypeInv /\ SelfInv /\ [Next]_vars => SelfInv'
<1> SUFFICES ASSUME TypeInv, SelfInv, [Next]_vars PROVE SelfInv'
  OBVIOUS
<1> USE DEF SelfInv
<1>1. CASE Watcher
  BY <1>1 DEF Watcher, BeginReload, LoadOn, LoadMode, LoadValue, BuildString, SwitchHook
<1>2. CASE Interface
  <2>1. ASSUME NEW u \in User, BeginSetFlags(u) PROVE SelfInv'
    BY <2>1 DEF BeginSetFlags, ServerFlags, Recorded, IsSelf
  <2>2. ASSUME NEW u \in User, SetFlagsUnhooked(u) PROVE SelfInv'
    BY <2>2 DEF SetFlagsUnhooked, ServerFlags, TypeInv, TypeOK, UserData
  <2>3. ASSUME NEW u \in User, Refresh(u) PROVE SelfInv'
    BY <2>3 DEF Refresh, Loaded, TypeInv, TypeOK, UserData
  <2>4. ASSUME NEW f \in {"badge", "premium"}, AddFlag(f) PROVE SelfInv'
    BY <2>4 DEF AddFlag, Calling
  <2>5. ASSUME Store PROVE SelfInv'
    <3>1. who \in User
      BY <2>5 DEF Store, At, TypeInv, InCall
    <3> QED
      BY <2>5, <3>1 DEF Store, Calling, TypeInv, TypeOK, UserData
  <2>6. ASSUME ForceVerify PROVE SelfInv'
    BY <2>6 DEF ForceVerify, Calling, TypeInv, TypeOK, UserData
  <2>7. ASSUME NEW f \in {"rating", "channel"}, ForceField(f) PROVE SelfInv'
    BY <2>7 DEF ForceField, Calling, TypeInv, TypeOK, UserData
  <2>8. ASSUME ForcePhone PROVE SelfInv'
    BY <2>8 DEF ForcePhone, Calling, TypeInv, TypeOK, UserData
  <2>9. ASSUME Return PROVE SelfInv'
    BY <2>9 DEF Return, Nobody
  <2> QED
    BY <1>2, <2>1, <2>2, <2>3, <2>4, <2>5, <2>6, <2>7, <2>8, <2>9
    DEF Interface, Test, Aim, Calling, RenderPhone, RenderId, RenderCollectible, Rendered
<1>3. CASE Restart
  BY <1>3 DEF Restart, Nobody, Loaded
<1>4. CASE UNCHANGED vars
  BY <1>4
<1> QED
  BY <1>1, <1>2, <1>3, <1>4 DEF Next

\* A row that was changed is the own account's.
LEMMA RowStep ==
  TypeInv /\ SelfInv /\ OthersAreShownAsTheyAre /\ [Next]_vars => OthersAreShownAsTheyAre'
<1> SUFFICES ASSUME TypeInv, SelfInv, OthersAreShownAsTheyAre, [Next]_vars
             PROVE  OthersAreShownAsTheyAre'
  OBVIOUS
<1> USE DEF OthersAreShownAsTheyAre
<1>1. ASSUME NEW u \in User, NEW changed \in BOOLEAN, Rendered(u, changed), changed => u \in Accounts
      PROVE  OthersAreShownAsTheyAre'
  BY <1>1 DEF Rendered
<1>2. ASSUME NEW u \in User, NEW text \in {"number", "hidden"}, RenderPhone(u, text)
      PROVE  OthersAreShownAsTheyAre'
  BY <1>1, <1>2 DEF RenderPhone, IsSelf, SelfInv
<1>3. ASSUME NEW u \in User, RenderId(u)
      PROVE  OthersAreShownAsTheyAre'
  BY <1>1, <1>3, ValuesAssumption DEF RenderId, SelfInv
<1>4. ASSUME NEW u \in User, RenderCollectible(u)
      PROVE  OthersAreShownAsTheyAre'
  BY <1>1, <1>4 DEF RenderCollectible, IsSelf, SelfInv
<1>5. CASE UNCHANGED row \/ row' = NoRow
  BY <1>5 DEF NoRow
<1>6. CASE Watcher
  BY <1>5, <1>6 DEF Watcher, BeginReload, LoadOn, LoadMode, LoadValue, BuildString, SwitchHook
<1>7. CASE Restart
  BY <1>5, <1>7 DEF Restart
<1>8. CASE Interface
  BY <1>2, <1>3, <1>4, <1>5, <1>8
  DEF Interface, BeginSetFlags, SetFlagsUnhooked, Refresh, Test, Aim, AddFlag, Store, Calling,
      ForceVerify, ForceField, ForcePhone, Return
<1> QED
  BY <1>5, <1>6, <1>7, <1>8 DEF Next

\* What a profile shows of somebody else is what the client would have shown.
THEOREM OthersAreShownAsTheyAre_Always == Spec => []OthersAreShownAsTheyAre
<1>1. Init => TypeInv /\ SelfInv /\ OthersAreShownAsTheyAre
  BY InitType DEF TypeInv, InCall, Init, SelfInv, Loaded, NoRow, OthersAreShownAsTheyAre
<1> QED
  BY <1>1, TypeStep, SelfStep, RowStep, PTL DEF Spec

----------------------------------------------------------------------------
(* What a call makes of its user.                                          *)

\* Where the watcher has built a string, and while it sleeps, the string is that of
\* the text.
BuiltInv ==
  /\ pc = 0 \/ pc > 19 => built["phone"] = Built("phone")
  /\ pc = 0 \/ pc > 20 => built["verify"] = Built("verify")

\* A string that the watcher passes over is already right.
LEMMA PassedStrings ==
  ASSUME pc \in 0 .. 24, pc' \in 0 .. 24, Advance
  PROVE  /\ pc < 19 /\ (pc' = 0 \/ pc' > 19) => built'["phone"] = Built("phone")'
         /\ pc < 20 /\ (pc' = 0 \/ pc' > 20) => built'["verify"] = Built("verify")'
<1>1. /\ Program[19][1] = "build" /\ Program[19][2] = "phone"
      /\ Program[20][1] = "build" /\ Program[20][2] = "verify"
  BY Builds
<1>2. /\ ~Changes(19)' => built'["phone"] = Built("phone")'
      /\ ~Changes(20)' => built'["verify"] = Built("verify")'
  BY <1>1 DEF Changes
<1>3. \A k \in 1 .. 24 : pc < k /\ (pc' = 0 \/ pc' > k) => ~Changes(k)'
  <2> SUFFICES ASSUME NEW k \in 1 .. 24, pc < k, pc' = 0 \/ pc' > k
               PROVE  ~Changes(k)'
    OBVIOUS
  <2>1. CASE /\ pc' \in {j \in DOMAIN Program : j > pc /\ Changes(j)'}
             /\ \A j \in pc + 1 .. pc' - 1 : ~Changes(j)'
    <3>1. pc' > pc
      BY <2>1, ZenonT(20)
    <3>2. k > pc /\ pc' > k
      BY <3>1
    <3>3. \A p \in 0 .. 24 : p > k => k \in pc + 1 .. p - 1
      BY <3>2
    <3>4. k \in pc + 1 .. pc' - 1
      BY <3>2, <3>3
    <3> QED
      BY <2>1, <3>4
  <2>2. CASE \A j \in pc + 1 .. Len(Program) : ~Changes(j)'
    <3>1. k \in pc + 1 .. Len(Program)
      BY ProgramSize
    <3> QED
      BY <2>2, <3>1
  <2> QED
    BY <2>1, <2>2 DEF Advance
<1> QED
  BY <1>2, <1>3

\* No value is loaded once the strings are built.
LEMMA BuiltStep == TypeInv /\ BuiltInv /\ [Next]_vars => BuiltInv'
<1> SUFFICES ASSUME TypeInv, BuiltInv, [Next]_vars PROVE BuiltInv'
  OBVIOUS
<1> USE DEF BuiltInv
<1>1. pc \in 0 .. 24
  BY ProgramSize DEF TypeInv, TypeOK
<1>2. CASE UNCHANGED <<live, built, pc>>
  BY <1>2 DEF Built
<1>3. CASE Watcher
  <2>1. Advance
    BY <1>3 DEF Watcher, BeginReload, LoadOn, LoadMode, LoadValue, BuildString, SwitchHook
  <2>2. pc' \in 0 .. 24
    BY <1>1, <2>1, AdvanceType
  <2>3. ASSUME UNCHANGED built, Built("phone")' = Built("phone"), Built("verify")' = Built("verify"),
               pc \notin {19, 20}
        PROVE  BuiltInv'
    BY <1>1, <2>1, <2>2, <2>3, PassedStrings
  <2>4. ASSUME NEW c \in Configs, BeginReload(c) PROVE BuiltInv'
    BY <2>3, <2>4 DEF BeginReload, Built
  <2>5. ASSUME NEW kind \in {"on", "mode", "hook"}, NEW x, Doing(kind, x),
               UNCHANGED built, live'.value = live.value
        PROVE  BuiltInv'
    <3>1. pc \notin {19, 20}
      BY <1>1, <2>5, Builds DEF Doing
    <3> QED
      BY <2>3, <2>5, <3>1 DEF Built
  <2>6. ASSUME NEW f \in Flag, LoadOn(f) PROVE BuiltInv'
    BY <2>5, <2>6 DEF LoadOn, TypeInv, TypeOK, Config
  <2>7. ASSUME NEW f \in Moded, LoadMode(f) PROVE BuiltInv'
    BY <2>5, <2>7 DEF LoadMode, TypeInv, TypeOK, Config
  <2>8. ASSUME NEW h \in Hook, SwitchHook(h) PROVE BuiltInv'
    BY <2>5, <2>8 DEF SwitchHook
  <2>9. ASSUME NEW f \in Valued, LoadValue(f) PROVE BuiltInv'
    <3>1. pc < 19 /\ pc # 0
      BY <1>1, <2>9, Builds DEF LoadValue, Doing
    <3> QED
      BY <1>1, <2>1, <2>2, <3>1, PassedStrings
  <2>10. ASSUME BuildString("phone") PROVE BuiltInv'
    <3>1. pc = 19
      BY <1>1, <2>10, Builds DEF BuildString, Doing
    <3>2. built'["phone"] = Built("phone")'
      BY <2>10 DEF BuildString, Built, TypeInv, TypeOK
    <3> QED
      BY <2>1, <2>2, <1>1, <3>1, <3>2, PassedStrings
  <2>11. ASSUME BuildString("verify") PROVE BuiltInv'
    <3>1. pc = 20
      BY <1>1, <2>11, Builds DEF BuildString, Doing
    <3>2. built'["verify"] = Built("verify")'
      BY <2>11 DEF BuildString, Built, TypeInv, TypeOK
    <3>3. built'["phone"] = Built("phone")'
      BY <2>11, <3>1 DEF BuildString, Built, TypeInv, TypeOK
    <3> QED
      BY <3>2, <3>3
  <2> QED
    BY <1>3, <2>4, <2>6, <2>7, <2>8, <2>9, <2>10, <2>11 DEF Watcher
<1>4. CASE Interface
  BY <1>2, <1>4
  DEF Interface, BeginSetFlags, SetFlagsUnhooked, Refresh, Test, Aim, AddFlag, Store, Calling,
      ForceVerify, ForceField, ForcePhone, Return, RenderPhone, RenderId, RenderCollectible,
      Rendered
<1>5. CASE Restart
  BY <1>5 DEF Restart, TypeInv, TypeOK
<1>6. CASE UNCHANGED vars
  BY <1>2, <1>6
<1> QED
  BY <1>3, <1>4, <1>5, <1>6 DEF Next

\* A target mode reaches the users it speaks of.
LEMMA TargetsReach ==
  ASSUME TypeOK, NEW f \in Moded
  PROVE  Targets(live.mode[f]) <=> self \in Reach[live.mode[f]]
<1>1. live.mode[f] \in {"all", "allExceptSelf", "onlySelf"}
  BY DEF TypeOK, Config, Mode
<1>2. self = TRUE \/ self = FALSE
  BY DEF TypeOK
<1>3. /\ Reach["all"] = BOOLEAN /\ Reach["allExceptSelf"] = {FALSE}
      /\ Reach["onlySelf"] = {TRUE}
  BY DEF Reach
<1>4. /\ Targets("all")
      /\ Targets("onlySelf") <=> self
      /\ Targets("allExceptSelf") <=> ~self
  BY DEF Targets
<1>5. CASE live.mode[f] = "all"
  BY <1>2, <1>3, <1>4, <1>5
<1>6. CASE live.mode[f] = "allExceptSelf"
  BY <1>2, <1>3, <1>4, <1>6
<1>7. CASE live.mode[f] = "onlySelf"
  BY <1>2, <1>3, <1>4, <1>7
<1> QED
  BY <1>1, <1>5, <1>6, <1>7

\* With the strings built, the tests of the hook come to what is asked.
LEMMA AskedIsTested ==
  ASSUME TypeOK, BuiltInv, pc = 0, NEW f \in Moded \cup SelfOnly
  PROVE  Asked(f, self) <=> Tested(f) /\ (f \in Moded => Targets(live.mode[f]))
<1>1. /\ built["phone"] # Null <=> live.value["phone"] # Nothing
      /\ built["verify"] # Null <=> live.value["verify"] # Nothing
  BY ValuesAssumption DEF BuiltInv, Built, TypeOK, Config, Valued, ValueOrNothing
<1>2. DOMAIN built = {"phone", "verify"}
  BY DEF TypeOK
<1>3. self = TRUE \/ self = FALSE
  BY DEF TypeOK
<1>4. CASE f \in {"premium", "phone"}
  BY <1>1, <1>2, <1>3, <1>4 DEF Asked, Tested, Moded, SelfOnly, Valued
<1>5. CASE f \in Moded
  BY <1>1, <1>2, <1>5, TargetsReach DEF Asked, Tested, Moded, SelfOnly, Valued
<1> QED
  BY <1>4, <1>5 DEF SelfOnly

\* The flags of a call that is at a place, and a field of its user, when no reload
\* has come since it began.
Old == before[1]
FlagsAt(k) ==
  ServerFlags(who) \cup {f \in {"badge", "premium"} :
                           /\ Asked(f, self)
                           /\ f = "badge" => k > 1
                           /\ f = "premium" => k > 2}
ShownAt(k, f) ==
  LET place == [verify |-> 4, rating |-> 5, channel |-> 6, phone |-> 7][f]
  IN IF k > place /\ Asked(f, self) THEN live.value[f] ELSE Old[f]

\* A call with no reload in it: the watcher sleeps, what has been tested still holds,
\* and the user is as it was but for the places the call has passed.
CallInv ==
  before # <<>> =>
    /\ at # 0 /\ pc = 0
    /\ Old \in UserData
    /\ self <=> "self" \in Old.flags
    /\ phase # "test" => /\ Work[at] \in Moded \cup SelfOnly
                         /\ Tested(Work[at])
                         /\ phase = "aim" => Work[at] \in Moded
                         /\ phase = "force" => Asked(Work[at], self)
    /\ At("phone", "force") => held = built["phone"]
    /\ at <= 3 => which = FlagsAt(at)
    /\ at > 3 => user[who].flags = FlagsAt(3)
    /\ \A f \in {"verify", "rating", "channel"} : user[who][f] = ShownAt(at, f)
    /\ user[who].phone = IF Old.phone = Null THEN Null ELSE ShownAt(at, "phone")

\* What is forced at a place, and that the rest stays.
LEMMA NextPlace ==
  ASSUME TypeOK, at \in 1 .. 7
  PROVE  /\ at <= 2 => FlagsAt(at + 1) = FlagsAt(at) \cup {f \in {Work[at]} : Asked(f, self)}
         /\ \A f \in {"verify", "rating", "channel", "phone"} :
              ShownAt(at + 1, f) = IF f = Work[at] /\ Asked(f, self) THEN live.value[f]
                                                                     ELSE ShownAt(at, f)
<1>1. at <= 2 => FlagsAt(at + 1) = FlagsAt(at) \cup {f \in {Work[at]} : Asked(f, self)}
  <2>1. CASE at = 1
    BY <2>1, WorkOrder DEF FlagsAt
  <2>2. CASE at = 2
    BY <2>2, WorkOrder DEF FlagsAt
  <2> QED
    BY <2>1, <2>2
<1>2. ASSUME NEW f \in {"verify", "rating", "channel", "phone"}
      PROVE  ShownAt(at + 1, f) = IF f = Work[at] /\ Asked(f, self) THEN live.value[f]
                                                                     ELSE ShownAt(at, f)
  <2>1. at = 4 <=> Work[at] = "verify"
    BY WorkOrder
  <2>2. at = 5 <=> Work[at] = "rating"
    BY WorkOrder
  <2>3. at = 6 <=> Work[at] = "channel"
    BY WorkOrder
  <2>4. at = 7 <=> Work[at] = "phone"
    BY WorkOrder
  <2> QED
    BY <2>1, <2>2, <2>3, <2>4 DEF ShownAt
<1> QED
  BY <1>1, <1>2

\* What is asked, and what has been made of the user, depends on these only.
LEMMA SameCall ==
  ASSUME UNCHANGED <<live, built, pc, who, self, before>>
  PROVE  /\ Asked(Work[at], self)' <=> Asked(Work[at'], self)
         /\ Tested(Work[at])' <=> Tested(Work[at'])
         /\ FlagsAt(at)' = FlagsAt(at') /\ FlagsAt(3)' = FlagsAt(3)
         /\ \A f : ShownAt(at, f)' = ShownAt(at', f)
<1>1. Asked(Work[at], self)' <=> Asked(Work[at'], self)
  BY DEF Asked, On
<1>2. Tested(Work[at])' <=> Tested(Work[at'])
  BY DEF Tested, On
<1>3. \A f : Asked(f, self)' <=> Asked(f, self)
  BY DEF Asked, On
<1>4. FlagsAt(at)' = FlagsAt(at') /\ FlagsAt(3)' = FlagsAt(3)
  BY <1>3 DEF FlagsAt
<1>5. ASSUME NEW f PROVE ShownAt(at, f)' = ShownAt(at', f)
  BY <1>3 DEF ShownAt, Old
<1> QED
  BY <1>1, <1>2, <1>4, <1>5

\* A step to the next place, at which what is asked has been forced.
LEMMA Proceeds ==
  ASSUME TypeOK, CallInv, before # <<>>, UNCHANGED <<live, built, pc, who, self, before>>,
         at \in 1 .. 7, at' = at + 1, phase' = "test",
         at <= 2 => which' = which \cup {f \in {Work[at]} : Asked(f, self)},
         user'[who].flags = IF at = 3 THEN which ELSE user[who].flags,
         \A f \in {"verify", "rating", "channel"} :
            user'[who][f] = IF f = Work[at] /\ Asked(f, self) THEN live.value[f] ELSE user[who][f],
         user'[who].phone = IF /\ Work[at] = "phone" /\ Asked("phone", self)
                               /\ user[who].phone # Null
                              THEN live.value["phone"] ELSE user[who].phone
  PROVE  CallInv'
<1>1. /\ FlagsAt(at)' = FlagsAt(at + 1) /\ FlagsAt(3)' = FlagsAt(3)
      /\ \A f : ShownAt(at, f)' = ShownAt(at + 1, f)
  BY SameCall
<1>2. /\ at # 0 /\ pc = 0 /\ Old' = Old /\ Old \in UserData
      /\ self <=> "self" \in Old.flags
  BY DEF CallInv, Old
<1>3. ASSUME at' <= 3
      PROVE  which' = FlagsAt(at)'
  <2>1. at <= 2
    BY <1>3
  <2>2. which = FlagsAt(at)
    BY <2>1 DEF CallInv
  <2>3. which' = FlagsAt(at) \cup {f \in {Work[at]} : Asked(f, self)}
    BY <2>1, <2>2
  <2>4. FlagsAt(at + 1) = FlagsAt(at) \cup {f \in {Work[at]} : Asked(f, self)}
    BY <2>1, NextPlace
  <2> QED
    BY <1>1, <2>3, <2>4
<1>4. at' > 3 => user'[who].flags = FlagsAt(3)'
  <2>1. CASE at = 3
    BY <1>1, <2>1 DEF CallInv
  <2>2. CASE at > 3
    BY <1>1, <2>2 DEF CallInv
  <2> QED
    BY <2>1, <2>2
<1>5. ASSUME NEW f \in {"verify", "rating", "channel"}
      PROVE  user'[who][f] = ShownAt(at, f)'
  BY <1>1, NextPlace DEF CallInv
<1>6. user'[who].phone = IF Old.phone = Null THEN Null ELSE ShownAt(at, "phone")'
  <2>1. user[who].phone = IF Old.phone = Null THEN Null ELSE ShownAt(at, "phone")
    BY DEF CallInv
  <2>2. CASE Old.phone = Null
    BY <2>1, <2>2
  <2>3. CASE Old.phone # Null /\ Work[at] = "phone"
    <3>1. at = 7
      BY <2>3, WorkOrder
    <3>2. ShownAt(at, "phone") = Old.phone
      BY <3>1 DEF ShownAt
    <3> QED
      BY <1>1, <2>1, <2>3, <3>2, NextPlace
  <2>4. CASE Old.phone # Null /\ Work[at] # "phone"
    BY <1>1, <2>1, <2>4, NextPlace
  <2> QED
    BY <2>2, <2>3, <2>4
<1>7. ~At("phone", "force")'
  BY DEF At
<1> QED
  BY <1>1, <1>2, <1>3, <1>4, <1>5, <1>6, <1>7 DEF CallInv

\* A test that succeeds, at the same place.
LEMMA Stays ==
  ASSUME CallInv, before # <<>>, UNCHANGED <<live, built, pc, who, self, before>>,
         UNCHANGED <<at, which, user>>,
         Work[at] \in Moded \cup SelfOnly, Tested(Work[at]),
         phase' = "aim" => Work[at] \in Moded,
         phase' = "force" => Asked(Work[at], self),
         Work[at] = "phone" => held' = built["phone"]
  PROVE  CallInv'
<1>1. /\ Asked(Work[at], self)' <=> Asked(Work[at], self)
      /\ Tested(Work[at])' <=> Tested(Work[at])
      /\ FlagsAt(at)' = FlagsAt(at) /\ FlagsAt(3)' = FlagsAt(3)
      /\ \A f : ShownAt(at, f)' = ShownAt(at, f)
  BY SameCall
<1>2. Old' = Old
  BY DEF Old
<1>3. At("phone", "force")' => held' = built'["phone"]
  BY DEF At
<1> QED
  BY <1>1, <1>2, <1>3 DEF CallInv

\* Every step of a call, of the watcher, and of the client between two calls.
LEMMA CallStep == TypeInv /\ BuiltInv /\ CallInv /\ [Next]_vars => CallInv'
<1> SUFFICES ASSUME TypeInv, BuiltInv, CallInv, [Next]_vars, before' # <<>>
             PROVE  CallInv'
  BY DEF CallInv
<1>1. CASE Watcher
  <2>1. pc # 0 /\ UNCHANGED before
    BY <1>1 DEF Watcher, BeginReload, LoadOn, LoadMode, LoadValue, BuildString, SwitchHook, Doing
  <2> QED
    BY <2>1 DEF CallInv
<1>2. ASSUME NEW u \in User, BeginSetFlags(u)
      PROVE  CallInv'
  <2>1. /\ at' = 1 /\ phase' = "test" /\ pc' = 0 /\ before' = <<user[u]>> /\ who' = u
        /\ which' = ServerFlags(u) /\ user' = user /\ self' = IsSelf(u)
    BY <1>2 DEF BeginSetFlags
  <2>2. Old' = user[u] /\ user[u] \in UserData
    BY <2>1 DEF Old, TypeInv, TypeOK
  <2>3. which' = FlagsAt(at)'
    BY <2>1 DEF FlagsAt, ServerFlags
  <2>4. \A f \in {"verify", "rating", "channel", "phone"} : ShownAt(at, f)' = user[u][f]
    BY <2>1, <2>2 DEF ShownAt
  <2>5. ~At("phone", "force")'
    BY <2>1 DEF At
  <2>6. self' <=> "self" \in Old'.flags
    BY <2>1, <2>2 DEF IsSelf
  <2> QED
    BY <2>1, <2>2, <2>3, <2>4, <2>5, <2>6 DEF CallInv
<1>3. ASSUME at # 0, Interface
      PROVE  CallInv'
  <2>1. CASE Return
    BY <2>1 DEF Return
  <2>2. CASE ~Return
    <3>1. UNCHANGED <<live, built, pc, who, self, before>>
      BY <1>3, <2>2
      DEF Interface, BeginSetFlags, SetFlagsUnhooked, Refresh, Test, Aim, AddFlag, Store, Calling,
          ForceVerify, ForceField, ForcePhone, RenderPhone, RenderId, RenderCollectible, Rendered
    <3>2. before # <<>> /\ pc = 0 /\ TypeOK /\ who \in User /\ at \in 1 .. 8
      BY <1>3, <3>1, WorkOrder DEF CallInv, TypeInv, TypeOK, InCall
    <3>3. user[who] \in UserData
      BY <3>2 DEF TypeOK
    <3>4. ASSUME NEW f \in Moded \cup SelfOnly, Test(f)
          PROVE  CallInv'
      <4>1. at \in 1 .. 7 /\ Work[at] = f
        BY <3>2, <3>4, WorkOrder DEF Test, At, Moded, SelfOnly
      <4>2. CASE Tested(f)
        <5>1. at' = at /\ phase' = (IF f \in Moded THEN "aim" ELSE "force")
          BY <3>4, <4>2 DEF Test
        <5>2. phase' = "force" => Asked(f, self)
          BY <3>2, <4>2, <5>1, AskedIsTested
        <5>3. f = "phone" => held' = built["phone"]
          BY <3>4 DEF Test
        <5>4. UNCHANGED <<which, user>>
          BY <3>4 DEF Test
        <5> QED
          BY <3>1, <3>2, <4>1, <4>2, <5>1, <5>2, <5>3, <5>4, Stays
      <4>3. CASE ~Tested(f)
        <5>1. ~Asked(f, self)
          BY <3>2, <4>3, AskedIsTested
        <5>2. at' = at + 1 /\ phase' = "test" /\ UNCHANGED <<which, user>>
          BY <3>4, <4>3 DEF Test, Proceed
        <5>3. at # 3
          BY <4>1, WorkOrder DEF Moded, SelfOnly
        <5> QED
          BY <3>1, <3>2, <4>1, <5>1, <5>2, <5>3, Proceeds
      <4> QED
        BY <4>2, <4>3
    <3>5. ASSUME NEW f \in Moded, Aim(f)
          PROVE  CallInv'
      <4>1. at \in 1 .. 7 /\ Work[at] = f /\ phase = "aim"
        BY <3>2, <3>5, WorkOrder DEF Aim, At, Moded
      <4>2. Tested(f)
        BY <3>2, <4>1 DEF CallInv
      <4>3. CASE Targets(live.mode[f])
        <5>1. at' = at /\ phase' = "force" /\ UNCHANGED <<which, user>>
          BY <3>5, <4>3 DEF Aim
        <5>2. Asked(f, self)
          BY <3>2, <4>2, <4>3, AskedIsTested
        <5> QED
          BY <3>1, <3>2, <4>1, <4>2, <5>1, <5>2, Stays DEF Moded
      <4>4. CASE ~Targets(live.mode[f])
        <5>1. ~Asked(f, self)
          BY <3>2, <4>4, AskedIsTested
        <5>2. at' = at + 1 /\ phase' = "test" /\ UNCHANGED <<which, user>>
          BY <3>5, <4>4 DEF Aim, Proceed
        <5>3. at # 3
          BY <4>1, WorkOrder DEF Moded
        <5> QED
          BY <3>1, <3>2, <4>1, <5>1, <5>2, <5>3, Proceeds
      <4> QED
        BY <4>3, <4>4
    <3>6. ASSUME NEW f \in {"badge", "premium"}, AddFlag(f)
          PROVE  CallInv'
      <4>1. at \in 1 .. 2 /\ Work[at] = f /\ phase = "force"
        BY <3>2, <3>6, WorkOrder DEF AddFlag, At
      <4>2. Asked(f, self)
        BY <3>2, <4>1 DEF CallInv
      <4>3. at' = at + 1 /\ phase' = "test" /\ which' = which \cup {f} /\ UNCHANGED user
        BY <3>6 DEF AddFlag, Proceed
      <4>4. which' = which \cup {g \in {Work[at]} : Asked(g, self)}
        BY <4>1, <4>2, <4>3
      <4> QED
        BY <3>1, <3>2, <4>1, <4>3, <4>4, Proceeds
    <3>7. ASSUME Store
          PROVE  CallInv'
      <4>1. at = 3
        BY <3>2, <3>7, WorkOrder DEF Store, At
      <4>2. at' = at + 1 /\ phase' = "test" /\ user' = [user EXCEPT ![who].flags = which]
        BY <3>7 DEF Store, Proceed
      <4>3. /\ user'[who].flags = which
            /\ \A g \in {"verify", "rating", "channel", "phone"} : user'[who][g] = user[who][g]
        BY <3>2, <3>3, <4>2 DEF TypeOK, UserData
      <4> QED
        BY <3>1, <3>2, <4>1, <4>2, <4>3, WorkOrder, Proceeds
    <3>8. ASSUME ForceVerify
          PROVE  CallInv'
      <4>1. at = 4 /\ Work[at] = "verify" /\ phase = "force"
        BY <3>2, <3>8, WorkOrder DEF ForceVerify, At
      <4>2. Asked("verify", self) /\ Tested("verify")
        BY <3>2, <4>1 DEF CallInv
      <4>3. built["verify"] = live.value["verify"]
        BY <3>2, <4>2 DEF Tested, BuiltInv, Built, TypeOK
      <4>4. at' = at + 1 /\ phase' = "test" /\ user' = [user EXCEPT ![who].verify = built.verify]
        BY <3>8 DEF ForceVerify, Proceed
      <4>5. /\ user'[who].verify = live.value["verify"] /\ user'[who].flags = user[who].flags
            /\ \A g \in {"rating", "channel", "phone"} : user'[who][g] = user[who][g]
        BY <3>2, <3>3, <4>3, <4>4 DEF TypeOK, UserData
      <4> QED
        BY <3>1, <3>2, <4>1, <4>2, <4>4, <4>5, Proceeds
    <3>9. ASSUME NEW f \in {"rating", "channel"}, ForceField(f)
          PROVE  CallInv'
      <4>1. at \in 5 .. 6 /\ Work[at] = f /\ phase = "force"
        BY <3>2, <3>9, WorkOrder DEF ForceField, At
      <4>2. Asked(f, self)
        BY <3>2, <4>1 DEF CallInv
      <4>3. at' = at + 1 /\ phase' = "test" /\ user' = [user EXCEPT ![who][f] = live.value[f]]
        BY <3>9 DEF ForceField, Proceed
      <4>4. /\ user'[who][f] = live.value[f] /\ user'[who].flags = user[who].flags
            /\ \A g \in {"verify", "rating", "channel", "phone"} \ {f} : user'[who][g] = user[who][g]
        BY <3>2, <3>3, <4>3 DEF TypeOK, UserData
      <4> QED
        BY <3>1, <3>2, <4>1, <4>2, <4>3, <4>4, Proceeds
    <3>10. ASSUME ForcePhone
           PROVE  CallInv'
      <4>1. at = 7 /\ Work[at] = "phone" /\ phase = "force"
        BY <3>2, <3>10, WorkOrder DEF ForcePhone, At
      <4>2. Asked("phone", self) /\ Tested("phone") /\ held = built["phone"]
        BY <3>2, <4>1 DEF CallInv, At
      <4>3. built["phone"] = live.value["phone"]
        BY <3>2, <4>2 DEF Tested, BuiltInv, Built, TypeOK
      <4>4. PICK p \in {held, built.phone} :
               user' = IF user[who].phone = Null THEN user ELSE [user EXCEPT ![who].phone = p]
        BY <3>10 DEF ForcePhone
      <4>5. p = live.value["phone"]
        BY <4>2, <4>3
      <4>6. at' = at + 1 /\ phase' = "test"
        BY <3>10 DEF ForcePhone, Proceed
      <4>7. /\ user'[who].phone = IF user[who].phone = Null THEN user[who].phone ELSE p
            /\ user'[who].flags = user[who].flags
            /\ \A g \in {"verify", "rating", "channel"} : user'[who][g] = user[who][g]
        BY <3>2, <3>3, <4>4 DEF TypeOK, UserData
      <4> QED
        BY <3>1, <3>2, <4>1, <4>2, <4>5, <4>6, <4>7, Proceeds
    <3> QED
      BY <1>3, <2>2, <3>4, <3>5, <3>6, <3>7, <3>8, <3>9, <3>10
      DEF Interface, BeginSetFlags, SetFlagsUnhooked, Refresh, RenderPhone, RenderId,
          RenderCollectible, Rendered
  <2> QED
    BY <2>1, <2>2
<1>4. CASE at = 0 /\ Interface
  <2>1. before = <<>>
    BY <1>4 DEF CallInv
  <2> QED
    BY <1>2, <1>4, <2>1
    DEF Interface, SetFlagsUnhooked, Refresh, Test, Aim, AddFlag, Store, ForceVerify, ForceField,
        ForcePhone, Return, At, RenderPhone, RenderId, RenderCollectible, Rendered
<1>5. CASE Restart
  BY <1>5 DEF Restart
<1>6. CASE UNCHANGED vars
  <2>1. /\ Asked(Work[at], self)' <=> Asked(Work[at], self)
        /\ Tested(Work[at])' <=> Tested(Work[at])
        /\ FlagsAt(at)' = FlagsAt(at) /\ FlagsAt(3)' = FlagsAt(3)
        /\ \A f : ShownAt(at, f)' = ShownAt(at, f)
    BY <1>6, SameCall
  <2> QED
    BY <1>6, <2>1 DEF CallInv, Old, At
<1> QED
  BY <1>1, <1>3, <1>4, <1>5, <1>6 DEF Next

\* A call with no reload in it leaves the user as the configuration asks.
THEOREM ForcedAsAsked_Always == Spec => []ForcedAsAsked
<1>1. Init => TypeInv /\ BuiltInv /\ CallInv
  BY InitType DEF TypeInv, InCall, Init, BuiltInv, CallInv
<1>2. TypeInv /\ CallInv => ForcedAsAsked
  <2> SUFFICES ASSUME TypeInv, CallInv, at # 0, Work[at] = "done", before # <<>>
               PROVE  ForcedAsAsked
    BY DEF ForcedAsAsked
  <2>1. at = 8
    BY WorkOrder DEF TypeInv, TypeOK
  <2>2. user[who] \in UserData
    BY DEF TypeInv, InCall, TypeOK
  <2>3. /\ self <=> "self" \in Old.flags
        /\ user[who].flags = FlagsAt(3)
        /\ \A f \in {"verify", "rating", "channel"} : user[who][f] = ShownAt(8, f)
        /\ user[who].phone = IF Old.phone = Null THEN Null ELSE ShownAt(8, "phone")
    BY <2>1 DEF CallInv
  <2>4. self = ("self" \in Old.flags)
    BY <2>3 DEF TypeInv, TypeOK
  <2>5. FlagsAt(3) = ServerFlags(who) \cup {f \in {"badge", "premium"} : Asked(f, self)}
    BY DEF FlagsAt
  <2>6. \A f \in {"verify", "rating", "channel", "phone"} :
           ShownAt(8, f) = IF Asked(f, self) THEN live.value[f] ELSE Old[f]
    BY DEF ShownAt
  <2> QED
    BY <2>2, <2>3, <2>4, <2>5, <2>6 DEF ForcedAsAsked, UserData, Old
<1> QED
  BY <1>1, <1>2, TypeStep, BuiltStep, CallStep, PTL DEF Spec

\* A NULL string gets into a user only if a reload came in the middle of that call.
THEOREM NullOnlyInRace_Always == Spec => NullOnlyInRace
<1> DEFINE NullComes == \E u \in User : \E f \in {"phone", "verify"} :
                           user'[u][f] = Null /\ user[u][f] # Null
<1>1. Init => TypeInv /\ BuiltInv /\ CallInv
  BY InitType DEF TypeInv, InCall, Init, BuiltInv, CallInv
<1>2. TypeInv /\ BuiltInv /\ CallInv /\ [Next]_vars => [NullComes => before = <<>>]_vars
  <2> SUFFICES ASSUME TypeInv, BuiltInv, CallInv, Next, NullComes, before # <<>>
               PROVE  FALSE
    OBVIOUS
  <2>1. at # 0 /\ who \in User /\ user \in [User -> UserData]
    BY DEF CallInv, TypeInv, InCall, TypeOK
  <2>2. user' # user
    OBVIOUS
  <2>3. CASE Watcher
    BY <2>2, <2>3 DEF Watcher, BeginReload, LoadOn, LoadMode, LoadValue, BuildString, SwitchHook
  <2>4. CASE Restart
    BY <2>4, ValuesAssumption DEF Restart, Loaded
  <2>5. ASSUME Store PROVE FALSE
    BY <2>1, <2>5 DEF Store, UserData
  <2>6. ASSUME ForceVerify PROVE FALSE
    <3>1. Tested("verify")
      BY <2>6 DEF ForceVerify, At, CallInv
    <3>2. built.verify # Null
      BY <3>1 DEF Tested, TypeInv, TypeOK
    <3> QED
      BY <2>1, <2>6, <3>2 DEF ForceVerify, UserData
  <2>7. ASSUME NEW f \in {"rating", "channel"}, ForceField(f) PROVE FALSE
    BY <2>1, <2>7 DEF ForceField, UserData
  <2>8. ASSUME ForcePhone PROVE FALSE
    <3>1. Tested("phone") /\ held = built["phone"]
      BY <2>8 DEF ForcePhone, At, CallInv
    <3>2. built.phone # Null /\ held # Null
      BY <3>1 DEF Tested, TypeInv, TypeOK
    <3> QED
      BY <2>1, <2>8, <3>2 DEF ForcePhone, UserData
  <2>9. CASE Interface
    BY <2>1, <2>2, <2>5, <2>6, <2>7, <2>8, <2>9
    DEF Interface, BeginSetFlags, SetFlagsUnhooked, Refresh, Test, Aim, AddFlag, Return,
        RenderPhone, RenderId, RenderCollectible, Rendered
  <2> QED
    BY <2>3, <2>4, <2>9 DEF Next
<1>3. [NullComes => before = <<>>]_vars <=>
        [\A u \in User : \A f \in {"phone", "verify"} :
           user'[u][f] = Null /\ user[u][f] # Null => before = <<>>]_vars
  OBVIOUS
<1> HIDE DEF NullComes
<1>4. Spec => [][NullComes => before = <<>>]_vars
  BY <1>1, <1>2, TypeStep, BuiltStep, CallStep, PTL DEF Spec
<1> QED
  BY <1>3, <1>4, PTL DEF NullOnlyInRace
=============================================================================
