--------------------------- MODULE PersistenceProofs ---------------------------
(***************************************************************************)
(* Proofs about the files of the Telegram folder, for any number of        *)
(* releases and builds.  One inductive invariant serves them all: what the *)
(* GUI found out about a file at one step of an installation or removal    *)
(* still holds when it acts on it.                                         *)
(***************************************************************************)
EXTENDS Persistence, TLAPS

\* An installation that goes on to move the client has one to move, to a name
\* that is free; a removal that goes on has one to put back; a live reload was
\* decided on with the bundled DLL in place.  A file being copied is not whole, so
\* no client is lost or runs with it.
StepsAreGrounded ==
  /\ pc \in {"makeRoom", "rename"} => exe \in Client
  /\ pc = "rename" => real = None
  /\ pc \in {"wrapping", "stop", "remove", "restore"} => real \in Client
  /\ pc = "tidy" => exe \in Client /\ real = None
  /\ pc = "relaunch" /\ ok => exe \in Client /\ real = None
  /\ pc = "wrapping" => exe = Torn
  /\ pc = "deploying" => dll = Torn
  /\ pc = "live" => dll = bundled

\* No client is newer than the newest release, and a client that came to lie
\* beside Telegram_real.exe is an update of it.
UpdatesAreNewer ==
  /\ exe <= release /\ real <= release
  /\ exe \in Client /\ real \in Client => real < exe

\* A DLL that is loaded cannot be touched.
LoadedIsInstalled == running.dll # None => running.dll = dll

IInv ==
  /\ TypeOK
  /\ ClientSurvives
  /\ StepsAreGrounded
  /\ UpdatesAreNewer
  /\ LoadedIsInstalled

USE ReleasesAssumption, BuildsAssumption
USE DEF None, Torn, Launcher, Client, files, configs, results

\* A fresh Telegram folder and a GUI that was just opened satisfy the invariant.
LEMMA InitEstablishes == Init => IInv
<1> SUFFICES ASSUME Init PROVE IInv
  OBVIOUS
<1>1. /\ exe \in Client /\ release \in Client /\ bundled \in 1 .. Builds
      /\ cfg \in SUBSET Patches
  BY DEF Init
<1>2. running \in [image : {"none", "exe", "real"}, dll : {None} \cup 1 .. Builds]
  BY DEF Init, Idle
<1>3. TypeOK
  BY <1>1, <1>2 DEF Init, TypeOK
<1>4. ClientSurvives /\ StepsAreGrounded /\ UpdatesAreNewer /\ LoadedIsInstalled
  BY DEF Init, ClientSurvives, StepsAreGrounded, UpdatesAreNewer, LoadedIsInstalled, Idle
<1> QED
  BY <1>3, <1>4 DEF IInv

\* What starting the client from either name leaves running.
LEMMA StartedType ==
  ASSUME IInv, NEW p, NEW r \in Started(p)
  PROVE  /\ r \in [image : {"none", "exe", "real"}, dll : {None} \cup 1 .. Builds]
         /\ r.dll # None => r.dll = dll
<1>1. CASE running # Idle
  BY <1>1 DEF IInv, TypeOK, LoadedIsInstalled, Started
<1>2. CASE running = Idle
  <2>1. \/ r = [image |-> "none", dll |-> None]
        \/ r = [image |-> "exe", dll |-> None]
        \/ \E d \in {None, dll} \ {Torn} : r = [image |-> "real", dll |-> d]
    BY <1>2 DEF Started, Idle
  <2>2. \A d \in {None, dll} \ {Torn} : d \in {None} \cup 1 .. Builds
    BY DEF IInv, TypeOK
  <2> QED
    BY <2>1, <2>2
<1> QED
  BY <1>1, <1>2

\* The user, Telegram's updater, and the GUI's death and return.
LEMMA OutsidePreserves ==
  ASSUME IInv, Outside
  PROVE  IInv'
<1>1. CASE UserStarts
  BY <1>1, StartedType DEF IInv, TypeOK, ClientSurvives, StepsAreGrounded, UpdatesAreNewer,
     LoadedIsInstalled, UserStarts
<1>2. CASE UserQuits
  BY <1>2 DEF IInv, TypeOK, ClientSurvives, StepsAreGrounded, UpdatesAreNewer,
     LoadedIsInstalled, UserQuits, Idle
<1>3. CASE Update
  BY <1>3 DEF IInv, TypeOK, ClientSurvives, StepsAreGrounded, UpdatesAreNewer,
     LoadedIsInstalled, Update, Idle
<1>4. CASE Die
  BY <1>4 DEF IInv, TypeOK, ClientSurvives, StepsAreGrounded, UpdatesAreNewer,
     LoadedIsInstalled, Die
<1>5. CASE ComeBack
  <2>1. cfg' \in SUBSET Patches /\ saved' \in (SUBSET Patches) \cup {Unsaved}
    <3>1. saved' = saved /\ (cfg' = {} \/ (cfg' = saved /\ saved # Unsaved))
      <4>1. saved' = saved /\ (cfg' = {} \/ cfg' = Loaded({}))
        BY <1>5 DEF ComeBack
      <4>2. CASE saved = Unsaved
        BY <4>1, <4>2 DEF Loaded
      <4>3. CASE saved # Unsaved
        BY <4>1, <4>3 DEF Loaded
      <4> QED
        BY <4>2, <4>3
    <3> QED
      BY <3>1 DEF IInv, TypeOK
  <2>2. TypeOK'
    BY <1>5, <2>1 DEF IInv, TypeOK, ComeBack, Exists
  <2>3. ClientSurvives' /\ StepsAreGrounded' /\ UpdatesAreNewer' /\ LoadedIsInstalled'
    BY <1>5 DEF IInv, TypeOK, ClientSurvives, StepsAreGrounded, UpdatesAreNewer,
      LoadedIsInstalled, ComeBack, Exists
  <2> QED
    BY <2>2, <2>3 DEF IInv
<1>6. CASE \E p \in {"exe", "real"} : ChooseApp(p)
  <2>1. cfg' \in SUBSET Patches /\ saved' \in (SUBSET Patches) \cup {Unsaved}
    <3>1. saved' = saved /\ (cfg' = cfg \/ (cfg' = saved /\ saved # Unsaved))
      <4>1. saved' = saved /\ cfg' = Loaded(cfg)
        BY <1>6 DEF ChooseApp
      <4>2. CASE saved = Unsaved
        BY <4>1, <4>2 DEF Loaded
      <4>3. CASE saved # Unsaved
        BY <4>1, <4>3 DEF Loaded
      <4> QED
        BY <4>2, <4>3
    <3> QED
      BY <3>1 DEF IInv, TypeOK
  <2>2. TypeOK'
    BY <1>6, <2>1 DEF IInv, TypeOK, ChooseApp, Busy
  <2>3. ClientSurvives' /\ StepsAreGrounded' /\ UpdatesAreNewer' /\ LoadedIsInstalled'
    BY <1>6 DEF IInv, TypeOK, ClientSurvives, StepsAreGrounded, UpdatesAreNewer,
      LoadedIsInstalled, ChooseApp, Busy
  <2> QED
    BY <2>2, <2>3 DEF IInv
<1> QED
  BY <1>1, <1>2, <1>3, <1>4, <1>5, <1>6 DEF Outside

\* Apply and Restore Backup.
LEMMA InstallingPreserves ==
  ASSUME IInv, Installing
  PROVE  IInv'
<1>1. CASE \E c \in SUBSET Patches : Toggle(c)
  BY <1>1 DEF IInv, TypeOK, ClientSurvives, StepsAreGrounded, UpdatesAreNewer,
     LoadedIsInstalled, Toggle, Busy
<1>2. CASE Apply
  BY <1>2 DEF IInv, TypeOK, ClientSurvives, StepsAreGrounded, UpdatesAreNewer,
     LoadedIsInstalled, Apply
<1>3. CASE RestoreBackup
  BY <1>3 DEF IInv, TypeOK, ClientSurvives, StepsAreGrounded, UpdatesAreNewer,
     LoadedIsInstalled, RestoreBackup
<1>4. CASE ApplyWrites
  <2>1. cfg' \in SUBSET Patches /\ saved' \in (SUBSET Patches) \cup {Unsaved}
    BY <1>4 DEF IInv, TypeOK, ApplyWrites, WriteConfig
  <2>2. TypeOK'
    <3>1. /\ pc' = "check" /\ wrote' \in BOOLEAN
          /\ UNCHANGED <<exe, real, dll, release, running, bundled, path, ok>>
      BY <1>4 DEF IInv, TypeOK, ApplyWrites, WriteConfig
    <3> QED
      BY <2>1, <3>1 DEF IInv, TypeOK
  <2>3. ClientSurvives' /\ StepsAreGrounded' /\ UpdatesAreNewer' /\ LoadedIsInstalled'
    BY <1>4 DEF IInv, TypeOK, ClientSurvives, StepsAreGrounded, UpdatesAreNewer,
      LoadedIsInstalled, ApplyWrites, WriteConfig
  <2> QED
    BY <2>2, <2>3 DEF IInv
<1>5. CASE Check
  BY <1>5 DEF IInv, TypeOK, ClientSurvives, StepsAreGrounded, UpdatesAreNewer,
     LoadedIsInstalled, Check, LiveReload, InstalledDllStale, persistenceInstalled
<1>6. CASE ApplyKills
  BY <1>6 DEF IInv, TypeOK, ClientSurvives, StepsAreGrounded, UpdatesAreNewer,
     LoadedIsInstalled, ApplyKills, Kill, Idle
<1>7. CASE Promote
  BY <1>7 DEF IInv, TypeOK, ClientSurvives, StepsAreGrounded, UpdatesAreNewer,
     LoadedIsInstalled, Promote, IsClient
<1>8. CASE MakeRoom
  BY <1>8 DEF IInv, TypeOK, ClientSurvives, StepsAreGrounded, UpdatesAreNewer,
     LoadedIsInstalled, MakeRoom
<1>9. CASE Rename
  BY <1>9 DEF IInv, TypeOK, ClientSurvives, StepsAreGrounded, UpdatesAreNewer,
     LoadedIsInstalled, Rename, Renamed
<1>10. CASE Wrap
  <2>1. TypeOK'
    <3>1. /\ exe' \in {exe, Torn} /\ pc' \in {"report", "wrapping"} /\ ok' \in BOOLEAN
          /\ UNCHANGED <<real, dll, release, running, bundled, path, cfg, saved, wrote>>
      BY <1>10 DEF IInv, TypeOK, Wrap
    <3> QED
      BY <3>1 DEF IInv, TypeOK
  <2>2. ClientSurvives' /\ StepsAreGrounded' /\ UpdatesAreNewer' /\ LoadedIsInstalled'
    BY <1>10 DEF IInv, TypeOK, ClientSurvives, StepsAreGrounded, UpdatesAreNewer,
      LoadedIsInstalled, Wrap
  <2> QED
    BY <2>1, <2>2 DEF IInv
<1>11. CASE Wrapped
  BY <1>11 DEF IInv, TypeOK, ClientSurvives, StepsAreGrounded, UpdatesAreNewer,
     LoadedIsInstalled, Wrapped
<1>12. CASE Deploy
  BY <1>12 DEF IInv, TypeOK, ClientSurvives, StepsAreGrounded, UpdatesAreNewer,
     LoadedIsInstalled, Deploy, DllReplaceable
<1>13. CASE Deployed
  <2>1. TypeOK'
    BY <1>13 DEF IInv, TypeOK, Deployed
  <2>2. ClientSurvives' /\ StepsAreGrounded' /\ UpdatesAreNewer' /\ LoadedIsInstalled'
    <3>1. /\ UNCHANGED <<exe, real, release, running>> /\ pc' \in {"start", "report"}
          /\ running.dll # None => dll' = dll
      BY <1>13 DEF Deployed, IInv, TypeOK, StepsAreGrounded, LoadedIsInstalled
    <3> QED
      BY <3>1 DEF IInv, TypeOK, ClientSurvives, StepsAreGrounded, UpdatesAreNewer,
        LoadedIsInstalled
  <2> QED
    BY <2>1, <2>2 DEF IInv
<1>14. CASE InstallFails
  <2>1. TypeOK'
    BY <1>14 DEF IInv, TypeOK, InstallFails
  <2>2. ClientSurvives' /\ StepsAreGrounded' /\ UpdatesAreNewer' /\ LoadedIsInstalled'
    <3>1. /\ exe' = exe \/ (real \in Client /\ exe' = None)
          /\ UNCHANGED <<real, release, running>> /\ pc' = "report"
          /\ running.dll # None => dll' = dll
      <4>1. /\ exe' = exe \/ (pc = "wrapping" /\ exe' = None)
            /\ dll' = dll \/ (pc = "deploying" /\ dll' = None)
            /\ UNCHANGED <<real, release, running>> /\ pc' = "report"
        BY <1>14 DEF InstallFails
      <4> QED
        BY <4>1 DEF IInv, TypeOK, StepsAreGrounded, LoadedIsInstalled
    <3> QED
      BY <3>1 DEF IInv, TypeOK, ClientSurvives, StepsAreGrounded, UpdatesAreNewer,
        LoadedIsInstalled
  <2> QED
    BY <2>1, <2>2 DEF IInv
<1>15. CASE ApplyStarts
  BY <1>15, StartedType DEF IInv, TypeOK, ClientSurvives, StepsAreGrounded, UpdatesAreNewer,
     LoadedIsInstalled, ApplyStarts, Start
<1>16. CASE Report
  BY <1>16 DEF IInv, TypeOK, ClientSurvives, StepsAreGrounded, UpdatesAreNewer,
     LoadedIsInstalled, Report
<1> QED
  BY <1>1, <1>2, <1>3, <1>4, <1>5, <1>6, <1>7, <1>8, <1>9, <1>10, <1>11, <1>12, <1>13, <1>14, <1>15, <1>16 DEF Installing

\* Disable All.
LEMMA UninstallingPreserves ==
  ASSUME IInv, Uninstalling
  PROVE  IInv'
<1>1. CASE DisableAll
  BY <1>1 DEF IInv, TypeOK, ClientSurvives, StepsAreGrounded, UpdatesAreNewer,
     LoadedIsInstalled, DisableAll
<1>2. CASE DisableWrites
  <2>1. cfg' \in SUBSET Patches /\ saved' \in (SUBSET Patches) \cup {Unsaved}
    BY <1>2 DEF IInv, TypeOK, DisableWrites, WriteConfig
  <2>2. TypeOK'
    <3>1. /\ pc' \in {"stop", "relaunch"} /\ wrote' \in BOOLEAN
          /\ UNCHANGED <<exe, real, dll, release, running, bundled, path, ok>>
      BY <1>2 DEF DisableWrites, WriteConfig
    <3> QED
      BY <2>1, <3>1 DEF IInv, TypeOK
  <2>3. ClientSurvives' /\ StepsAreGrounded' /\ UpdatesAreNewer' /\ LoadedIsInstalled'
    BY <1>2 DEF IInv, TypeOK, ClientSurvives, StepsAreGrounded, UpdatesAreNewer,
      LoadedIsInstalled, DisableWrites, WriteConfig, persistenceInstalled
  <2> QED
    BY <2>2, <2>3 DEF IInv
<1>3. CASE DisableKills
  BY <1>3 DEF IInv, TypeOK, ClientSurvives, StepsAreGrounded, UpdatesAreNewer,
     LoadedIsInstalled, DisableKills, Kill, Idle
<1>4. CASE Remove
  BY <1>4 DEF IInv, TypeOK, ClientSurvives, StepsAreGrounded, UpdatesAreNewer,
     LoadedIsInstalled, Remove
<1>5. CASE RestoreClient
  BY <1>5 DEF IInv, TypeOK, ClientSurvives, StepsAreGrounded, UpdatesAreNewer,
     LoadedIsInstalled, RestoreClient, Renamed
<1>6. CASE Tidy
  BY <1>6 DEF IInv, TypeOK, ClientSurvives, StepsAreGrounded, UpdatesAreNewer,
     LoadedIsInstalled, Tidy, DllReplaceable
<1>7. CASE UninstallFails
  <2>1. TypeOK'
    <3>1. /\ ok' = FALSE /\ pc' = "relaunch"
          /\ UNCHANGED <<exe, real, dll, release, running, bundled, path, cfg, saved, wrote>>
      BY <1>7 DEF UninstallFails
    <3>2. /\ cfg' \in SUBSET Patches /\ saved' \in (SUBSET Patches) \cup {Unsaved}
          /\ wrote' \in BOOLEAN
      BY <3>1 DEF IInv, TypeOK
    <3>3. running' \in [image : {"none", "exe", "real"}, dll : {None} \cup 1 .. Builds]
      BY <3>1 DEF IInv, TypeOK
    <3> QED
      BY <3>1, <3>2, <3>3 DEF IInv, TypeOK
  <2>2. ClientSurvives' /\ StepsAreGrounded' /\ UpdatesAreNewer' /\ LoadedIsInstalled'
    <3>1. UNCHANGED <<exe, real, dll, release, running>> /\ pc' = "relaunch" /\ ~ok'
      BY <1>7 DEF UninstallFails
    <3> QED
      BY <3>1 DEF IInv, ClientSurvives, StepsAreGrounded, UpdatesAreNewer, LoadedIsInstalled
  <2> QED
    BY <2>1, <2>2 DEF IInv
<1>8. CASE DisableStarts
  BY <1>8, StartedType DEF IInv, TypeOK, ClientSurvives, StepsAreGrounded, UpdatesAreNewer,
     LoadedIsInstalled, DisableStarts, Start
<1> QED
  BY <1>1, <1>2, <1>3, <1>4, <1>5, <1>6, <1>7, <1>8 DEF Uninstalling

\* Every step of the system, and stuttering, preserves it.
LEMMA NextPreserves ==
  ASSUME IInv, [Next]_vars
  PROVE  IInv'
<1>1. CASE Next
  BY <1>1, OutsidePreserves, InstallingPreserves, UninstallingPreserves DEF Next
<1>2. CASE UNCHANGED vars
  <2>1. UNCHANGED <<exe, real, dll, release, running, bundled, path, cfg, saved, pc, wrote, ok>>
    BY <1>2 DEF vars
  <2>2. TypeOK'
    BY <2>1 DEF IInv, TypeOK
  <2>3. ClientSurvives' /\ StepsAreGrounded' /\ UpdatesAreNewer' /\ LoadedIsInstalled'
    BY <2>1 DEF IInv, ClientSurvives, StepsAreGrounded, UpdatesAreNewer, LoadedIsInstalled
  <2> QED
    BY <2>2, <2>3 DEF IInv
<1> QED
  BY <1>1, <1>2

\* So it always holds.
LEMMA Invariance == Spec => []IInv
BY InitEstablishes, NextPreserves, PTL DEF Spec

\* Every variable keeps its type; Telegram_real.exe is never the launcher.
THEOREM TypeCorrect == Spec => []TypeOK
<1>1. IInv => TypeOK
  BY DEF IInv
<1> QED
  BY <1>1, Invariance, PTL

\* A whole client is under one of the two names at every moment, whatever fails,
\* dies or updates (_installPersistence, uninstallPersistence).
THEOREM ClientSurvives_Always == Spec => []ClientSurvives
<1>1. IInv => ClientSurvives
  BY DEF IInv
<1> QED
  BY <1>1, Invariance, PTL

\* A removal that returned true left a client as Telegram.exe and no
\* Telegram_real.exe (uninstallPersistence).
THEOREM RestoredWhenUninstalled_Always == Spec => []RestoredWhenUninstalled
<1>1. IInv => RestoredWhenUninstalled
  BY DEF IInv, StepsAreGrounded, RestoredWhenUninstalled
<1> QED
  BY <1>1, Invariance, PTL

\* A live reload is never served by an older DLL than the bundled one
\* (_runApply, _installedDllStale).
THEOREM LiveReloadRunsBundledDll_Always == Spec => []LiveReloadRunsBundledDll
<1>1. IInv => LiveReloadRunsBundledDll
  BY DEF IInv, StepsAreGrounded, LoadedIsInstalled, LiveReloadRunsBundledDll
<1> QED
  BY <1>1, Invariance, PTL

\* What the newest client of the folder is before and after a step that leaves
\* both names alone.
LEMMA NewestUnchanged ==
  ASSUME UNCHANGED <<exe, real>>
  PROVE  NewestClient' = NewestClient
BY DEF NewestClient

\* No step but those of a removal, and the copy over an update that came in the
\* middle of an installation, loses the newest client (_installPersistence).
LEMMA NewestKept ==
  ASSUME IInv, Next, NewestClient' < NewestClient
  PROVE  pc \in {"remove", "restore"} \/ OverwritesLateUpdate
<1> USE DEF IInv, TypeOK, NewestClient
<1>1. CASE Update
  BY <1>1 DEF Update, UpdatesAreNewer
<1>2. CASE MakeRoom
  BY <1>2 DEF MakeRoom, StepsAreGrounded, UpdatesAreNewer
<1>3. CASE Rename
  BY <1>3 DEF Rename, StepsAreGrounded
<1>4. CASE Wrap
  BY <1>4 DEF Wrap, OverwritesLateUpdate
<1>5. CASE Wrapped \/ InstallFails
  <2>1. real' = real /\ (exe' = exe \/ pc = "wrapping")
    BY <1>5 DEF Wrapped, InstallFails
  <2>2. pc # "wrapping" \/ exe \notin Client
    BY DEF StepsAreGrounded
  <2> QED
    BY <1>5, <2>1, <2>2
<1>6. CASE Remove \/ RestoreClient
  BY <1>6 DEF Remove, RestoreClient
<1>7. CASE ~(Update \/ MakeRoom \/ Rename \/ Wrap \/ Wrapped \/ InstallFails \/ Remove \/ RestoreClient)
  <2>1. UNCHANGED <<exe, real>>
    BY <1>7 DEF Next, Outside, Installing, Uninstalling, UserStarts, UserQuits, Die, ComeBack,
      ChooseApp, Toggle, Apply, RestoreBackup, ApplyWrites, WriteConfig, Check, ApplyKills,
      Kill, Promote, Deploy, Deployed, ApplyStarts, Start, Report, DisableAll, DisableWrites,
      DisableKills, Tidy, UninstallFails, DisableStarts
  <2> QED
    BY <2>1, NewestUnchanged
<1> QED
  BY <1>1, <1>2, <1>3, <1>4, <1>5, <1>6, <1>7

\* Only a removal, or the copy of the launcher over an update that landed in the
\* middle of an installation, loses the newest client (_installPersistence).
THEOREM NewestSurvivesInstall_Always == Spec => NewestSurvivesInstall
<1>1. IInv /\ [Next]_vars =>
        [NewestClient' < NewestClient =>
           pc \in {"remove", "restore"} \/ OverwritesLateUpdate]_vars
  BY NewestKept
<1> QED
  BY <1>1, Invariance, PTL DEF Spec, NewestSurvivesInstall
=============================================================================
