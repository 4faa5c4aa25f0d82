------------------------------ MODULE Persistence ------------------------------
(***************************************************************************)
(* How the GUI puts the patcher into the Telegram folder and takes it out  *)
(* again.  Installed, the real client is Telegram_real.exe and the launcher *)
(* sits in its place as Telegram.exe; it starts the real client with        *)
(* Patchgram.dll.  Apply, Restore Backup and Disable All move these files   *)
(* one call at a time.  Any call may fail, the GUI may die between two of   *)
(* them, the user may start or leave Telegram meanwhile, and a Telegram     *)
(* update overwrites Telegram.exe with a fresh client.                      *)
(***************************************************************************)
EXTENDS Integers, FiniteSets

CONSTANTS
  Releases,   \* bound: the client's releases are 1 .. Releases
  Builds,     \* bound: the builds of Patchgram.dll are 1 .. Builds
  Patches,    \* what the user can switch on
  Binary      \* those that are byte patches

ASSUME ReleasesAssumption == Releases \in Nat \ {0}
ASSUME BuildsAssumption == Builds \in Nat \ {0}
ASSUME BinaryAssumption == Binary \subseteq Patches

\* What a file name can stand for besides a release of the client or a build
\* of the DLL; a copy that was cut short is torn.
None == 0
Torn == -1
Launcher == -2

\* Larger than 50 MB.  The launcher, whole or torn, is not.
Client == 1 .. Releases

Unsaved == {"unsaved"}   \* in place of a configuration: there is none

VARIABLES
  exe,      \* Telegram.exe
  real,     \* Telegram_real.exe
  dll,      \* Patchgram.dll beside them
  release,  \* the newest release of the client that was published
  running,  \* the running client: the file it runs from, the DLL it loaded
  bundled,  \* the build of Patchgram.dll inside the GUI
  path,     \* telegramPath: "exe", "real", or "unset"
  cfg,      \* the GUI's configuration: the patches that are on
  saved,    \* PatchgramRuntime.json, which is also what _applied holds
  pc,       \* where the GUI is
  wrote,    \* was the configuration written?
  ok        \* installOk, or what uninstallPersistence returned

files == <<exe, real, dll>>
configs == <<cfg, saved>>
results == <<wrote, ok>>
vars == <<files, release, running, bundled, path, configs, pc, results>>

Idle == [image |-> "none", dll |-> None]

persistenceInstalled == real # None

Exists(p) == \/ p = "exe" /\ exe # None
             \/ p = "real" /\ real # None

\* _installedDllStale, with size and modification time telling builds apart.
InstalledDllStale == dll # bundled

\* canApply, for a 64-bit client.
CanApply ==
  /\ path # "unset"
  /\ \/ cfg # saved
     \/ ~persistenceInstalled /\ cfg # {}
     \/ InstalledDllStale

Init ==
  /\ exe = 1 /\ real = None /\ dll = None
  /\ release = 1 /\ running = Idle /\ bundled = 1
  /\ path = "exe" /\ cfg = {} /\ saved = Unsaved
  /\ pc = "idle" /\ wrote = TRUE /\ ok = TRUE

----------------------------------------------------------------------------
(* Telegram and the user.                                                  *)

\* What a start of the path leaves running; a second instance gives way to
\* the first, and the launcher resumes the client even if the injection failed.
Started(p) ==
  IF running # Idle THEN {running}
  ELSE IF p = "real" /\ real \in Client THEN {[image |-> "real", dll |-> None]}
  ELSE IF p = "exe" /\ exe \in Client THEN {[image |-> "exe", dll |-> None]}
  ELSE IF p = "exe" /\ exe = Launcher /\ real \in Client
    THEN {[image |-> "real", dll |-> d] : d \in {None, dll} \ {Torn}}
  ELSE {Idle}

\* A shortcut, a double click, a tg:// link.
UserStarts ==
  /\ running = Idle
  /\ running' \in Started("exe") \ {Idle}
  /\ UNCHANGED <<files, release, bundled, path, configs, pc, results>>

UserQuits ==
  /\ running # Idle
  /\ running' = Idle
  /\ UNCHANGED <<files, release, bundled, path, configs, pc, results>>

\* The client has been left, and its updater puts a newer one in the place of
\* Telegram.exe, unless a copy holds that file open, and may start it.
Update ==
  /\ release < Releases /\ pc # "wrapping"
  /\ release' = release + 1
  /\ exe' = release'
  /\ running' \in {Idle, [image |-> "exe", dll |-> None]}
  /\ UNCHANGED <<real, dll, bundled, path, configs, pc, results>>

----------------------------------------------------------------------------
(* What Windows does with files.                                           *)

\* A file that a process runs from can be renamed, but not removed or
\* overwritten.
Replaceable(name) == running.image # name

\* So with a DLL that is loaded.
DllReplaceable == running.dll = None

\* A process follows the file it runs from.
Renamed(from, to) ==
  running' = IF running.image = from THEN [running EXCEPT !.image = to] ELSE running

----------------------------------------------------------------------------
(* Apply and Restore Backup: _runApply.                                    *)

\* The file calls of an installation or removal follow one another with no
\* await between them, so nothing of the GUI comes in between.
Busy == pc \in {"promote", "makeRoom", "rename", "wrap", "wrapping", "deploy",
                "deploying", "remove", "restore", "tidy"}

\* The switches stay live during an Apply.
Toggle(c) ==
  /\ pc # "down" /\ ~Busy
  /\ cfg' = c
  /\ UNCHANGED <<files, release, running, bundled, path, saved, pc, results>>

Apply ==
  /\ pc = "idle" /\ CanApply
  /\ pc' = "write"
  /\ UNCHANGED <<files, release, running, bundled, path, configs, results>>

RestoreBackup ==
  /\ pc = "idle" /\ Binary \cap cfg # {}
  /\ cfg' = cfg \ Binary
  /\ pc' = IF path = "unset" THEN "idle" ELSE "write"
  /\ UNCHANGED <<files, release, running, bundled, path, saved, results>>

\* _writeConfig, which may fail.
WriteConfig(next) ==
  /\ \/ saved' = cfg /\ wrote' = TRUE
     \/ saved' = saved /\ wrote' = FALSE
  /\ pc' = next
  /\ UNCHANGED <<files, release, running, bundled, path, cfg, ok>>

ApplyWrites == pc = "write" /\ WriteConfig("check")

\* Faulty: the bundled DLL is not compared with the installed one.
LiveUnlessUnpatched == running.dll # None /\ persistenceInstalled

\* A reload of the configuration will do.
LiveReload == running.dll # None /\ persistenceInstalled /\ ~InstalledDllStale

Check ==
  /\ pc = "check"
  /\ ok' = persistenceInstalled
  /\ pc' = IF ~Exists(path) THEN "report"
           ELSE IF LiveReload THEN "live"
           ELSE IF running # Idle THEN "kill"
           ELSE "promote"
  /\ UNCHANGED <<files, release, running, bundled, path, configs, wrote>>

\* _killTelegram, which may not get at the process, and the pause after it.
Kill(next) ==
  /\ running' \in {Idle, running}
  /\ pc' = next
  /\ UNCHANGED <<files, release, bundled, path, configs, results>>

ApplyKills == pc = "kill" /\ Kill("promote")

\* Faulty: whatever is Telegram.exe is taken for the client.
ExistsIsClient == exe # None

\* mf.lengthSync() > 50 * 1024 * 1024
IsClient == exe \in Client

\* A client that is Telegram.exe becomes Telegram_real.exe ...
Promote ==
  /\ pc = "promote"
  /\ pc' = IF ~IsClient THEN "wrap"
           ELSE IF real # None THEN "makeRoom" ELSE "rename"
  /\ UNCHANGED <<files, release, running, bundled, path, configs, results>>

\* ... in place of the one that was.
MakeRoom ==
  /\ pc = "makeRoom" /\ Replaceable("real")
  /\ real' = None
  /\ pc' = "rename"
  /\ UNCHANGED <<exe, dll, release, running, bundled, path, configs, results>>

Rename ==
  /\ pc = "rename"
  /\ real' = exe /\ exe' = None
  /\ Renamed("exe", "real")
  /\ pc' = "wrap"
  /\ UNCHANGED <<dll, release, bundled, path, configs, results>>

\* The launcher is copied to Telegram.exe, if there is a client to wrap.
Wrap ==
  /\ pc = "wrap"
  /\ IF real = None
       THEN ok' = FALSE /\ pc' = "report" /\ exe' = exe
       ELSE /\ Replaceable("exe")
            /\ exe' = Torn /\ pc' = "wrapping" /\ ok' = ok
  /\ UNCHANGED <<real, dll, release, running, bundled, path, configs, wrote>>

Wrapped ==
  /\ pc = "wrapping"
  /\ exe' = Launcher
  /\ pc' = "deploy"
  /\ UNCHANGED <<real, dll, release, running, bundled, path, configs, results>>

Deploy ==
  /\ pc = "deploy" /\ DllReplaceable
  /\ dll' = Torn
  /\ pc' = "deploying"
  /\ UNCHANGED <<exe, real, release, running, bundled, path, configs, results>>

Deployed ==
  /\ pc = "deploying"
  /\ dll' = bundled
  /\ ok' = (exe # None)
  /\ pc' = IF ok' THEN "start" ELSE "report"
  /\ UNCHANGED <<exe, real, release, running, bundled, path, configs, wrote>>

\* A call throws; an unfinished copy stays or is removed.
InstallFails ==
  /\ pc \in {"makeRoom", "rename", "wrap", "wrapping", "deploy", "deploying"}
  /\ exe' \in IF pc = "wrapping" THEN {exe, None} ELSE {exe}
  /\ dll' \in IF pc = "deploying" THEN {dll, None} ELSE {dll}
  /\ ok' = FALSE
  /\ pc' = "report"
  /\ UNCHANGED <<real, release, running, bundled, path, configs, wrote>>

\* Process.start(telegramPath)
Start(next) ==
  /\ running' \in Started(path)
  /\ pc' = next
  /\ UNCHANGED <<files, release, bundled, path, configs, results>>

ApplyStarts == pc = "start" /\ Start("report")

\* The status line, and the GUI is free again.
Report ==
  /\ pc \in {"live", "report", "relaunched"}
  /\ pc' = "idle" /\ wrote' = TRUE /\ ok' = TRUE
  /\ UNCHANGED <<files, release, running, bundled, path, configs>>

----------------------------------------------------------------------------
(* Disable All: _runDisableAllRestart and uninstallPersistence.            *)

DisableAll ==
  /\ pc = "idle" /\ cfg # {}
  /\ cfg' = {}
  /\ pc' = IF path = "unset" THEN "idle" ELSE "clear"
  /\ UNCHANGED <<files, release, running, bundled, path, saved, results>>

\* Faulty: uninstallPersistence does not look whether there is anything to undo.
DisableWritesOn == pc = "clear" /\ WriteConfig("stop")

DisableWrites ==
  pc = "clear" /\ WriteConfig(IF persistenceInstalled THEN "stop" ELSE "relaunch")

DisableKills == pc = "stop" /\ Kill("remove")

\* "delete the launcher": whatever Telegram.exe is.
Remove ==
  /\ pc = "remove" /\ (exe # None => Replaceable("exe"))
  /\ exe' = None
  /\ pc' = "restore"
  /\ UNCHANGED <<real, dll, release, running, bundled, path, configs, results>>

RestoreClient ==
  /\ pc = "restore" /\ Replaceable("exe")
  /\ exe' = real /\ real' = None
  /\ Renamed("real", "exe")
  /\ pc' = "tidy"
  /\ UNCHANGED <<dll, release, bundled, path, configs, results>>

Tidy ==
  /\ pc = "tidy" /\ (dll # None => DllReplaceable)
  /\ dll' = None
  /\ pc' = "relaunch"
  /\ UNCHANGED <<exe, real, release, running, bundled, path, configs, results>>

\* Faulty: a failed removal is not told from a finished one.
UninstallShrugs ==
  /\ pc \in {"remove", "restore", "tidy"}
  /\ pc' = "relaunch"
  /\ UNCHANGED <<files, release, running, bundled, path, configs, results>>

UninstallFails ==
  /\ pc \in {"remove", "restore", "tidy"}
  /\ ok' = FALSE
  /\ pc' = "relaunch"
  /\ UNCHANGED <<files, release, running, bundled, path, configs, wrote>>

DisableStarts == pc = "relaunch" /\ Start("relaunched")

----------------------------------------------------------------------------
(* The GUI dies, comes back, perhaps with a newer DLL, and finds its way.  *)

Die ==
  /\ pc # "down"
  /\ pc' = "down" /\ path' = "unset" /\ wrote' = TRUE /\ ok' = TRUE
  /\ UNCHANGED <<files, release, running, bundled, configs>>

\* load(): without a file, the GUI keeps what it has.
Loaded(c) == IF saved = Unsaved THEN c ELSE saved

\* _guessPaths finds Telegram.exe or nothing.
ComeBack ==
  /\ pc = "down"
  /\ pc' = "idle"
  /\ bundled' \in bundled .. Builds
  /\ path' = IF Exists("exe") THEN "exe" ELSE "unset"
  /\ cfg' = IF path' = "exe" THEN Loaded({}) ELSE {}
  /\ UNCHANGED <<files, release, running, saved, results>>

ChooseApp(p) ==
  /\ pc # "down" /\ ~Busy
  /\ Exists(p) /\ path' = p
  /\ cfg' = Loaded(cfg)
  /\ UNCHANGED <<files, release, running, bundled, saved, pc, results>>

----------------------------------------------------------------------------
Outside ==
  \/ UserStarts \/ UserQuits \/ Update
  \/ Die \/ ComeBack \/ \E p \in {"exe", "real"} : ChooseApp(p)

Installing ==
  \/ (\E c \in SUBSET Patches : Toggle(c)) \/ Apply \/ RestoreBackup
  \/ ApplyWrites \/ Check \/ ApplyKills \/ Promote \/ MakeRoom \/ Rename
  \/ Wrap \/ Wrapped \/ Deploy \/ Deployed \/ InstallFails \/ ApplyStarts \/ Report

Uninstalling ==
  \/ DisableAll \/ DisableWrites \/ DisableKills \/ Remove \/ RestoreClient
  \/ Tidy \/ UninstallFails \/ DisableStarts

Next == Outside \/ Installing \/ Uninstalling

Spec == Init /\ [][Next]_vars

----------------------------------------------------------------------------
(* Properties.                                                             *)

\* Every variable keeps its type; Telegram_real.exe is only ever a client, and
\* a configuration is a set of patches.
TypeOK ==
  /\ exe \in {None, Torn, Launcher} \cup Client
  /\ real \in {None} \cup Client
  /\ dll \in {None, Torn} \cup 1 .. Builds
  /\ release \in Client
  /\ running \in [image : {"none", "exe", "real"}, dll : {None} \cup 1 .. Builds]
  /\ bundled \in 1 .. Builds
  /\ path \in {"exe", "real", "unset"}
  /\ cfg \in SUBSET Patches
  /\ saved \in (SUBSET Patches) \cup {Unsaved}
  /\ pc \in {"down", "idle", "write", "check", "kill", "promote", "makeRoom",
             "rename", "wrap", "wrapping", "deploy", "deploying", "start", "live",
             "report", "clear", "stop", "remove", "restore", "tidy", "relaunch",
             "relaunched"}
  /\ wrote \in BOOLEAN /\ ok \in BOOLEAN

\* Whatever call fails, wherever the GUI dies and whenever Telegram updates,
\* one of the two names still holds a whole client
\* (_installPersistence, uninstallPersistence).
ClientSurvives == exe \in Client \/ real \in Client

\* The newest client of the folder.
NewestClient == IF exe \in Client /\ exe > real THEN exe ELSE real

\* The step that copies the launcher over an update which landed after the
\* installer had looked at Telegram.exe.
OverwritesLateUpdate == pc = "wrap" /\ exe \in Client

\* An installation deletes Telegram_real.exe and overwrites Telegram.exe, and
\* still loses the newest client to neither, except when an update comes in
\* the middle.  A removal does lose it: "delete the launcher" deletes what
\* Telegram.exe has become with an update (_installPersistence).
NewestSurvivesInstall ==
  [][NewestClient' < NewestClient =>
       pc \in {"remove", "restore"} \/ OverwritesLateUpdate]_vars

\* A configuration is only reloaded live, with no restart, by a client that
\* holds the bundled DLL: none goes on with the code of an older build
\* (the comment in _runApply, and _installedDllStale).
LiveReloadRunsBundledDll == pc = "live" => running.dll \in {None, bundled}

\* Once uninstallPersistence has returned true, Telegram.exe is a client and
\* there is no Telegram_real.exe, also if it returned early.
RestoredWhenUninstalled ==
  pc = "relaunch" /\ ok => exe \in Client /\ real = None

\* What the status line says: after an Apply that reports success, Telegram.exe
\* is the launcher, with a client to launch and a DLL to inject.
ReportedActiveIsWrapped ==
  pc = "report" /\ wrote /\ ok =>
    exe = Launcher /\ real \in Client /\ dll \notin {None, Torn}
=============================================================================
