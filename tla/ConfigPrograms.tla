--------------------------- MODULE ConfigPrograms ---------------------------
(***************************************************************************)
(* What each <name>_config.exe knows: the settings it offers, how it reads *)
(* them back from its INI file, and the owners it starts once the file is  *)
(* there.  The seventeen mains share one control flow, which ConfigOwner   *)
(* states once; this module holds what differs between them.               *)
(*                                                                         *)
(* A text is a member of a small set: a choice stands for itself, a path   *)
(* or a number for its compiled default or "other".  The texts a program   *)
(* refuses are not listed: it asks again and nothing changes.              *)
(***************************************************************************)
EXTENDS Sequences, StorePrograms

OnOff == {"on", "off"}

(* A key that the file lacks, one whose text no reader accepts, and the    *)
(* fallback to component_logging_default() of logging_policy.ini.          *)
Missing == "missing"
Junk == "junk"
SharedPolicy == "policy"

(* What an edit does when it cannot read the other settings back.          *)
Fail == "fail"

(* One row of a settings table with its reader.  values: what the program  *)
(* stores; first: the compiled default; missing, junk, unread: what the    *)
(* program takes when the key is absent, its text is refused, or the file  *)
(* cannot be read; used: what the process that uses the file takes for an  *)
(* absent key.                                                             *)
Setting(key, values, first) ==
  [key |-> key, values |-> values, first |-> first, missing |-> first,
   junk |-> first, unread |-> first, used |-> first]

Guarded(row) == [row EXCEPT !.unread = Fail]

Path(key, first) == Setting(key, {first, "other"}, first)
Number(key, first) == Setting(key, {first, "other"}, first)

(* A [<name>] logging key falls back to the shared policy.                 *)
LoggingKey ==
  [Setting("logging", OnOff, "on") EXCEPT
     !.missing = SharedPolicy, !.junk = SharedPolicy, !.used = SharedPolicy]

(* An owner of StorePrograms that a launch starts and waits for.  ask: the *)
(* user may decline it or end the input; once: it is skipped when its      *)
(* files are there; soft: its failure is not the launch's; needs: without  *)
(* these files the launch ends here, with 0; look: it is not started, the  *)
(* launch only reports whether its files are there.                        *)
Run(owner) ==
  [owner |-> owner, ask |-> FALSE, once |-> FALSE, soft |-> FALSE,
   needs |-> {}, look |-> FALSE]
Ask(step) == [step EXCEPT !.ask = TRUE]
Once(step) == [step EXCEPT !.once = TRUE]

(* The launches of a program that starts nothing else.  before: what a     *)
(* plain launch runs before its menu; after: what it runs after a menu     *)
(* that wrote the file; syncs: it rewrites an outdated version line        *)
(* first; offers: it asks before it opens the menu on a new file.          *)
NoOwners == [seed |-> <<>>, init |-> <<>>, both |-> <<>>, before |-> <<>>,
             after |-> <<>>, syncs |-> FALSE, offers |-> FALSE]

-----------------------------------------------------------------------------
(* Main's programs.                                                        *)

AutoCoreSettings ==
  << [LoggingKey EXCEPT !.unread = SharedPolicy],
     Setting("check_for_updates", OnOff, "on") >>
AutoCoreLaunch == [NoOwners EXCEPT !.syncs = TRUE, !.offers = TRUE]

ShutdownSettings ==
  << Setting("delayed_shutdown_prompt", {"popup", "console"}, "popup"),
     Number("shutdown_timeout_ms", "2000") >>
ShutdownLaunch == NoOwners

StartupSettings ==
  << Setting("show_day_of_week", OnOff, "on"),
     Setting("show_task_list", OnOff, "on") >>
StartupLaunch == NoOwners

WarningsSettings ==
  << Setting("missing_winkey_mapping", OnOff, "on"),
     Setting("unmapped_key", OnOff, "off") >>
WarningsLaunch == NoOwners

CrashRecoverySettings ==
  << Setting("default_response", {"yes", "no"}, "no"),
     Setting("crash_diagnostics", OnOff, "on") >>
CrashRecoveryLaunch == NoOwners

ComponentsPolicySettings ==
  << Guarded([Setting("new_components", {"prompt", "on", "off"}, "on")
                EXCEPT !.junk = "prompt"]),
     Guarded(Setting("sort_components", OnOff, "on")),
     Guarded(Setting("remove_missing_components", OnOff, "off")) >>
(* A list made stale by the new policy is offered to the editor.           *)
ComponentsPolicyLaunch ==
  [NoOwners EXCEPT !.after = << Ask(Run("components_editor")) >>]

LoggingPolicyTable ==
  << Setting("disable_all", OnOff, "off"),
     Path("directory", "data\\logs"),
     Number("max_directory_mb", "100"),
     Number("retention_days", "30"),
     Setting("level", {"debug", "info", "alert"}, "debug") >>
LoggingPolicySwitches ==
  << Setting("log_console_output", OnOff, "on"),
     Setting("write_logs_to_files", OnOff, "on"),
     Setting("write_logs_to_console", OnOff, "off"),
     Setting("write_alerts_to_console", OnOff, "on"),
     Setting("component_logging_default", OnOff, "on"),
     Setting("experimental", OnOff, "off") >>
LoggingPolicyLaunch == NoOwners

-----------------------------------------------------------------------------
(* The components' programs.                                               *)

DashSettings ==
  << [Setting("logging", OnOff, "off") EXCEPT !.unread = "off"] >>
DashLaunch == NoOwners

SlashSettings ==
  << Guarded(Setting("mode", {"verbose", "concise", "silent"}, "verbose")),
     [LoggingKey EXCEPT !.unread = SharedPolicy] >>
SlashLaunch == NoOwners

LoggerSettings ==
  << Number("merge_interval_seconds", "60"),
     Setting("merge_logs_on_shutdown", OnOff, "on"),
     LoggingKey >>
LoggerLaunch == NoOwners

WriterSettings ==
  << Path("directory", "writer"),
     Path("notes_subdirectory", "notes"),
     LoggingKey >>
(* --init passes --init on to the editor, --seed passes --seed.            *)
WriterLaunch ==
  [NoOwners EXCEPT !.seed = << Run("writer_editor_seed") >>,
                   !.both = << Run("writer_editor_seed") >>,
                   !.init = << Run("writer_editor_init") >>]

WakeSettings ==
  << Path("directory", "components\\wake"),
     [LoggingKey EXCEPT !.unread = SharedPolicy] >>
(* provision_history: wake_ac.exe --snapshot unless the history is there.  *)
WakeLaunch ==
  LET provision == << Once(Run("wake_snapshot")) >>
  IN [NoOwners EXCEPT !.seed = provision, !.both = provision,
                      !.init = provision]

ItunesSettings ==
  << Guarded(Path("directory", "components/itunes")),
     Guarded(Setting("auto_start", OnOff, "off")),
     Guarded(LoggingKey) >>
ItunesLaunch ==
  LET seed == << Run("itunes_db"), Run("itunes_formatter_seed") >>
  IN [NoOwners EXCEPT
        !.seed = seed, !.both = seed,
        !.init = << Run("itunes_db"), Run("itunes_formatter_init") >>]

(* An absent key reads as on here, not as the policy.                      *)
ServerSettings ==
  << Path("directory", "components\\server"),
     [LoggingKey EXCEPT !.missing = "on"] >>
ServerLaunch ==
  LET seed == << Run("server_editor_seed"), Run("server_builder") >>
  IN [NoOwners EXCEPT
        !.seed = seed, !.both = seed,
        !.init = << Run("server_editor_init"), Ask(Run("server_builder")) >>]

TaskbarSettings ==
  << Path("directory", "taskbar"),
     Setting("mode", {"live", "cache"}, "live"),
     LoggingKey >>
TaskbarLaunch ==
  [NoOwners EXCEPT !.seed = << Run("taskbar_builder") >>,
                   !.both = << Run("taskbar_builder") >>,
                   !.init = << Ask(Run("taskbar_builder")) >>]

JournalSettings ==
  << Path("directory", "components\\journal"),
     Setting("auto_select_new_series", OnOff, "on"),
     Setting("remote_sync", OnOff, "off"),
     LoggingKey >>
(* launch_owned_stores, the same order in every mode.                      *)
JournalStores ==
  << Run("journal_builder_seed"), Run("journal_cloud_seed"),
     Run("journal_clock_seed"), Run("journal_db_seed"),
     Run("journal_series") >>
JournalAskedStores ==
  << Run("journal_builder_init"), Run("journal_cloud_init"),
     Run("journal_clock_init"), Run("journal_db_init"),
     Run("journal_series") >>
(* The menu opens only after the builder has seeded its files.             *)
JournalLaunch ==
  [NoOwners EXCEPT !.seed = JournalStores, !.both = JournalStores,
                   !.init = JournalAskedStores,
                   !.before = << Run("journal_builder_seed") >>]

SpotifySettings ==
  << Guarded(Path("directory", "components\\spotify")),
     Guarded(Setting("auto_launch_oauth", OnOff, "off")),
     Guarded(LoggingKey) >>
SpotifySeed ==
  << Run("spotify_db"), Run("spotify_formatter_seed"),
     Run("spotify_editor_seed") >>
SpotifyMissingStores ==
  << Ask(Once(Run("spotify_db"))), Once(Run("spotify_formatter_init")) >>
(* Authorization may stay unfinished: the program reports that and         *)
(* returns 0.                                                              *)
SpotifyAuthorization ==
  << Ask(Once(Run("spotify_editor_client"))),
     [Once(Run("spotify_oauth")) EXCEPT
        !.soft = TRUE, !.needs = {"client.id"}] >>
SpotifyReport == [Run("spotify_oauth") EXCEPT !.look = TRUE]
SpotifyLaunch ==
  [NoOwners EXCEPT !.seed = Append(SpotifySeed, SpotifyReport),
                   !.both = SpotifySeed \o SpotifyAuthorization,
                   !.init = SpotifyMissingStores \o SpotifyAuthorization]

-----------------------------------------------------------------------------
Program(settings, launch) == [settings |-> settings, launch |-> launch]

Programs ==
  [auto_core         |-> Program(AutoCoreSettings, AutoCoreLaunch),
   shutdown          |-> Program(ShutdownSettings, ShutdownLaunch),
   startup           |-> Program(StartupSettings, StartupLaunch),
   warnings          |-> Program(WarningsSettings, WarningsLaunch),
   crash_recovery    |-> Program(CrashRecoverySettings, CrashRecoveryLaunch),
   components_policy |-> Program(ComponentsPolicySettings,
                                 ComponentsPolicyLaunch),
   logging_policy    |-> Program(LoggingPolicyTable \o LoggingPolicySwitches,
                                 LoggingPolicyLaunch),
   dash              |-> Program(DashSettings, DashLaunch),
   slash             |-> Program(SlashSettings, SlashLaunch),
   logger            |-> Program(LoggerSettings, LoggerLaunch),
   writer            |-> Program(WriterSettings, WriterLaunch),
   wake              |-> Program(WakeSettings, WakeLaunch),
   itunes            |-> Program(ItunesSettings, ItunesLaunch),
   server            |-> Program(ServerSettings, ServerLaunch),
   taskbar           |-> Program(TaskbarSettings, TaskbarLaunch),
   journal           |-> Program(JournalSettings, JournalLaunch),
   spotify           |-> Program(SpotifySettings, SpotifyLaunch)]
=============================================================================
