# Auto Core: a TLA+ verification project

Auto Core is a Windows automation program written in C++23. One process,
`auto_core.exe` ("Main"), installs a keyboard hook, maps keys to commands, and
hosts a set of component processes (`writer_ac.exe`, `logger_ac.exe`, ...), each
in a Win32 job of its own and connected to Main by a named control pipe. This
directory models the parts of it whose correctness depends on the order in which
several processes, threads or failures meet; its modules are translated from the
C++ under `src/app`, never from the manual.

## 1. The system

| Part | State it keeps | Operations | What makes it hard |
|---|---|---|---|
| Component host (`app/main/runtime/components`, `app/core/system/process.cxx`, `pipes.cxx`) | `started_children`: process, job, pipe, policy of each child | start, hello, invoke, shutdown, recovery, settle | every child may stop, hang or die at any point; job calls may fail; Main itself may die |
| Main loop and keyboard (`app/main/runtime/main.cxx`, `keyboard/`, `lifecycle/shutdown_events.cxx`) | message queue, primary key state, current keymap, `program_closing` | hook, dispatch, close, restart | hook callbacks, posted messages and blocking commands share one thread |
| Crash recovery (`lifecycle/crash_recovery.cxx`) | marker file, recovery claim | marker check, write marker, restart | the handler runs on the crashing thread beside the others, and starts a second Main |
| Keymaps (`keyboard/keymap_runtime.cxx`, `keymap_map_detail.hpp`) | two key-to-command tables, keymap files | parse, save, cycle | a load that fails half way must leave a usable map |
| Command registry (`command_registry.ixx`, `register_with`) | name-to-command map | register, dispatch | first registration wins |
| Logger component (`components/logger`) | merged log, `merge.state`, offsets of each source | hosted loop, merge once, rebuild | a crash between writing the log and saving the state; two mergers |
| Component base (`core/component`) | per-process logger, settings, text insertion | log, insert text | log calls of several threads |
| Taskbar snapshots (`core/taskbar`, `components/taskbar`) | latest snapshot, its generation, server, calculation and publisher threads, one pipe per client | publish, connect, refresh, disconnect, stop | condition variable, blocking calls and joins across five kinds of thread and two processes |
| Main taskbar (`main/runtime/taskbar`) | the cycle that is on, its windows, the held Windows key | activate, cycle, end | the windows change between two keys; calls are refused |
| Owned services (`process.cxx` OwnerWatch, spotify/journal/itunes cloud and db processes) | owner handle, session pipe | serve, owner exit | the owner dies while a session is served |
| Spotify (`components/spotify`) | access token, stored token, monitor state | refresh, playback, monitor | a token refreshed by two processes |
| iTunes (`components/itunes`) | COM session, play history | monitor, db | COM events and requests |
| Journal (`components/journal`) | entries, series, database | record, series, clock | database client and service in two processes |
| Server (`components/server`) | HTTP sessions, route map | listen, respond, stop | the accept loop and the stop request |
| Wake (`components/wake`) | three history files of wake events | capture at start | files rewritten one after the other |
| Writer, Slash | commands that insert text; a Recycle Bin report | run | the clipboard is shared with every program |
| Dash (`components/dash`) | a second process, its mapping and event | request, end with the parent | the parent dies between two steps |
| Init and config owners (`main/init`, `main/config`, `core/config`) | ini files | create, validate, edit | a step of several failing |
| Builders, editors, settings apps | files they edit | edit, save | - |

Main calls a component by writing `invoke` and a payload to its control pipe and
does not wait for an answer. A component tells Main only one thing, its hello.
Everything else is shared through files (ini files, logs, `merge.state`, crash
markers), the taskbar snapshot pipe, where the component pushes generations to
whoever has connected, and job objects.
Main's own work is done by one thread: the message loop, the commands it runs and
`components::shutdown` exclude each other, except in a crash handler.

What makes each part correct:

- component host: a graceful child is never ended by Main, a refused one leaves
  nothing behind, a session that ends leaves nothing unaccounted for, and it ends;
- Main loop: the function key arms one key, the Windows key is held for a reason, a
  request to close gets through whatever the keys are doing;
- crash recovery: one Auto Core at a time, one successor, no successor past a
  crash nobody has seen;
- logger: every complete record in the main log, once;
- snapshots: a connected client catches up; connect, disconnect and stop return;
- services: none outlives its owner; a request finds a live service or says so;
- tokens: a refreshed token is never overwritten by an older one;
- keymaps, registry: what is saved is what is loaded; the first binding wins;
- initialisers, config owners: run again after any failure, they end where an
  undisturbed run does.

## 2. Modules

In the order they were written, the part on which most depends first:

| Module | Part | Composes with |
|---|---|---|
| `HostSession`, `HostSessionProofs` | one session of the component host | - |
| `LogMerge`, `OnceLog`, `LogMergeProofs` | the merge of the logger component; the log it promises | `LogMerge` implements `OnceLog` |
| `KeyLoop`, `KeyLoopProofs` | hook, queue, keys, taskbar cycles, close requests | - |
| `CrashRestart`, `CrashRestartProofs` | marker, restart, several Mains on one mutex | - |
| `SnapshotAuthority`, `SnapshotAuthorityProofs` | the threads around the taskbar snapshots | - |
| `EpisodeService`, `EpisodeServiceProofs` | the journal's database service, its clients, owners and cloud copy | - |
| `ConfigPrograms`, `StorePrograms` | what the 17 configuration programs, and the programs they start, know | read by `ConfigOwner` |
| `ConfigOwner`, `OwnerContract` | the control flow these programs share; what initialisers rely on | `ConfigOwner` implements `OwnerContract` |
| `FirstRun`, `FirstRunProofs` | the initialisers of Main and Main around them | uses owners as `OwnerContract` states them; the proofs are of both sides, `ConfigOwner` too, and of `ComponentsList` |
| `ComponentsList` | `components.list` and the programs that change it | - |
| `SpotifyTokens`, `SpotifyTokensProofs` | `tokens.map`, the sign-in program, the threads that refresh | - |

Each `MC` module names the model values of one component, and its `.cfg` gives the
constants of a run.

Left for later, in this order: the contract of one child's life as an abstract
specification of `HostSession`; the second process of Dash.

## 3. HostSession

### State and actions

`pc` is the place of Main's thread in `components::initialize`, `invoke` and
`shutdown`; `cur` the child it works on; `todo` the names a loop has still to
visit. `stage[c]` follows the objects of the code: `launched` is a `Launch`,
`hosted` a `StartedChild` in `started_children`, `closed` one whose handles
`close_child_handles` has closed. `alive[c]` is the set of living processes of the
child (its root and one helper), `holders[c]` who holds a handle of its job,
`killOnClose[c]` the job's limit. `wire[c]` holds the messages in the control pipe;
a message is one write. `forced[c]` is a history variable: by which operations
living processes of the child have been ended.

One action is one call that other processes can tell apart: `StartSuspended`,
`PlaceInJob` and `PlaceInJobFails` are the three outcomes of
`start_owned_process`, `AcceptHello` and `AbandonChild` those of `accept_hello`,
`SendCommand`, `SendPayload` and `InvokeFails` are the two writes of `invoke` and
their failure, `AskChild` is one turn of shutdown's first loop, `WaitEnds`
the two bounded waits with the list of lingering children that follows, `SettleX`,
`HandOff`, `HandOffFails` and `CloseChildHandles` are the last loop. A child's own actions
follow the generic main of `writer_ac` and `CommandDispatcher::process`.
The configured order of names is arbitrary: children are launched, and hellos are
collected, in any order, taskbar first.

The environment may end any process at any time (`Crash`, `MainDies`), start a
helper in a job (`SpawnHelper`) and fail the operating system calls on the jobs of
`FaultyJobs`. A deadline may pass at any time, so `WaitEnds`, `AbandonChild` and
`LoggerWaitEnds` have no guard on time.

### What is checked

| Run | Bounds | Shows |
|---|---|---|
| `host` | the logger and one component that is started first and alone as the taskbar is; the component's job calls may fail and it may start a helper; a pipe of one message, one invoke; fairness of Main | `GracefulSpared`, `Accounted`, `RefusedLeaveNothing`, `LoggerLast`, `ForcedOnlyAfterAsked`, `EndsOrPrompts`, `RequestEndsSession` |

Two children are enough to order starts, requests and settlings against each other,
and a third would repeat them: no step of the code relates three children. A pipe
of one message is full after the first write of an invoke and after any unread
request, which is where a pipe of 4096 bytes is full. One invoke suffices because
only the pipe carries anything from one to the next.

- `GracefulSpared`, `ForcedOnlyAfterAsked`: whom Main may end, and when.
- `Accounted`, `RefusedLeaveNothing`: what may be left running.
- `LoggerLast`: the logger is asked when nothing else that Main hosts can log.
- `EndsOrPrompts`, `RequestEndsSession`: shutdown ends or asks the user whatever the
  children do; a request ends the session if the children read their pipes.

The model also has what no property is about: the recovery prompt closes itself
through `all_processes_exited`, which looks at root processes only, while a helper
of a lingering component may still be in its job (`PromptAllExited`), although by
`devs/main.md:274` a component is finished only when its job has no active processes.
Settling finds that helper afterwards.

### Fairness

`MainSpec` assumes weak fairness of Main's thread: its waits are all bounded
(`phase_deadline`, `hello_timeout`), except a blocking pipe write, which is
disabled in the model while the pipe is full, and the user at a prompt, whose
actions are not fair. Nothing else is fair, and no process ends by itself.
`RequestEndsSession` has `ChildrenCooperate` as its premise: a child keeps reading
its pipe, as `CommandDispatcher::process` does.

### What is proved

`HostSessionProofs` proves, for every set of children, every logger and taskbar,
every set of faulty jobs and every capacity, `TypeOK`, `Accounted`,
`RefusedLeaveNothing`, `ForceAllowedGone` and `GracefulSpared` to be invariants.
The assumptions are those of the module: `NoChild` is not a child, the faulty jobs
belong to children, the bounds are naturals. None of the properties is inductive.
`IInv` adds: how far each child is for each place of Main's thread (`StageInv`);
that a job handle is held by Main until the child is closed and by living members
only (`HolderInv`); that the kill-on-close limit is missing only from a job whose
handle Main keeps, and that a force_allowed job is held by Main alone
(`LimitInv`); and that the closing of a graceful child's handle is preceded by an
heir, an empty job, or the decision to keep it (`SparedInv`). `StartedInv` says
that `started_children` contains every hosted child, which the early return of
`shutdown` relies on. `ForceAllowedGone` (a component whose policy allows force is
gone when shutdown is, even if every `TerminateJobObject` failed) is a theorem only.

`LoggerLast` and `ForcedOnlyAfterAsked` need what those invariants leave out, who was
asked by when. `AskInv` adds it in three parts: behind the request loop no started child
with an open pipe is unasked, and the logger is unasked until the others are settled
(`RequestInv`); which children are started, lingering and closed at each place of the
shutdown (`KeptInv`); and that the one-shot merge begins behind the end of the logger's
root process (`MergeInv`). Only the liveness properties,
`EndsOrPrompts` and `RequestEndsSession`, are model-checked only.

## 4. LogMerge and OnceLog

`present`, `file`, `whole` and `begun` are the component logs: which exist, how many
files have come before under a name, and how many records are complete or begun.
Offsets count half records, so that a snapshot of a file's size can fall inside
one. `state` is `merge.state`, `temp` its `.tmp`, `outputs` and `merged` the main
logs. `at[m]` is the place of a merging process in `merge_once`, `job[m]` the
locals of that call. `Start`, `Run` and the steps of the hosted logger follow
`run_hosted` and its worker; the steps of a merge are those another process or a
crash can come between: load the state, check which main logs are missing, take
the sizes, read, open, write and close, write `.tmp`, move it.
Mishaps (`Killed`, failures to open, write or close, deleted logs) are bounded by
`MaxMishaps` and chosen by `Mishaps`.

`OnceLog` says what the logger promises about safety: each complete record is merged at
most once, none that was not written, and none past a record that stands in front of it
in its component log and is not merged yet, so a main log has no gaps; a deleted main log
starts again from nothing. `LogMerge` with one merger and no other mishap than a main log
deleted between merges implements it (`IsOnceLog`, an `INSTANCE` with `written` mapped to
the complete records of the current files). That every record gets there is no part of
this refinement; `EveryRecordMerged` says it, and TLC checks it.

| Run | Bounds | Shows |
|---|---|---|
| `merge_steady` | two sources of one date, two records each, hosted logger at intervals, a main log deleted twice, shutdown at any time | `IsOnceLog`, `EveryRecordMerged`, `ShutdownEndsHosted` |
| `merge_mishaps` | two sources of two dates, one record and two files each, a hosted and a one-shot merger, two mishaps: killed, cannot open, cannot write, a source or a main log deleted | `NothingLost`: while processes were only killed and files only not opened, an offset is never ahead of the main log; `OnlyComplete`: no half record is merged or skipped |

Two mergers meet at most in pairs of steps, and two mishaps let the second fall into
the recovery from the first. Fairness is weak fairness of each merging process, and
that Main starts its logger again; mishaps are not fair and run out.

What the model shows beyond these runs, by choosing other constants:
with `CloseFails` among the mishaps, `NothingLost` does not hold (the main log is
flushed when the stream closes, after the last check of it, and `merge.state`
advances); a source replaced by a longer file is read from the old offset; when two
mergers start without `merge.state`, both rebuild and one can truncate what the
other wrote; a rebuild that is killed behind its truncation leaves an empty main
log that counts as present; and when one of several dates cannot be opened, the
dates before it are appended again by the next merge, although
`docs/manual/components/logger.md:3` says that only new records are appended.
`LogMergeProofs` proves, for any number of records, sources, dates and merging
processes and any mishaps, `TypeOK`, and that a merge has only complete records in hand
and only between its read and its last flush (`JobInv`), from which `OnlyComplete`
follows. `NothingLost` is proved under `Kept \/ OneMerger`: one process merges, or
`merge.state` and the main logs are there and stay. The invariant (`NoLoss`)
speaks of every place of a merge, as long as no mishap beyond kills and failed opens has
happened (`harmed`): the offsets of `merge.state` and of `.tmp` pass only records that are
in the main log, and those of a merge in progress only such records or records still in
hand. Without the hypothesis the property is false of
the code (the two mergers above). `IsOnceLog` is proved for one merger that nothing
but a main log deleted between its merges disturbs (`Uninterrupted`). `OnceInv` is the
half about repetition: what is in the main logs stands there once and lies below the
offsets, and no record in hand is there yet. `GapInv` is the half about gaps: wherever a
merge stands, what is behind a record it has merged or has in hand is merged, in hand in
front of it, or to be read again, since the main log of its date is missing. A main log
deleted in the middle of a merge (`deleteOutputNow`, which `merge_mishaps` has and
`merge_steady` has not) does break this half in the code: the later records of the merge
go into the new main log and the earlier ones are not there. Both proofs
use the module's assumptions: there are sources, and the hosted logger is one of the
mergers. `EveryRecordMerged` and `ShutdownEndsHosted` are liveness and stay with TLC.

## 5. KeyLoop

`queue` is the message queue of Main's thread, to which the hook (`Press`), close
requests (`RequestShutdown`) and `WM_QUIT` post; `Handle` takes one message and
does all that `process_key_event`, `process_shutdown_event` or the loop does for it.
`primary` and `switchKey` are what the loop remembers of the last key; `switchSet`,
`emulated`, `cycleApp`, `cycleWindows`, `cycleIndex` the cycle that is on; `winDown`
whether the system sees the Windows key held, and `leaks` is history: what has kept it
down since it was last let go (`torn`, a Windows-key shortcut of which Windows took the
first events only; `refused`, a release Windows did not take; `late`, a native cycle begun
behind `close_program`). `Unresolved` are the programs whose path is only known at run
time, which `Activate` does not emulate. `zorder`, `front` and `iconic` are
the desktop, which `ChangeDesktop` changes at any time. `sends` and `focuses` are
what Windows answers to `SendInput` and to an attempt to focus a window; refusals
and commands that throw are bounded by `MaxFaults`.

| Run | Bounds | Shows |
|---|---|---|
| `key_safe` | four keys (lock, close, a native and an emulated program; the secondary action of one is an unresolved program), two windows of each of the two, a queue of two, one change of the desktop, one failing handler | `WinDownAccounted`, `CycleMoves`, `SecondaryOnce`, `CloseEnds` |

Two windows make a cycle, and a queue of two lets a key stand behind a close request.
`CloseEnds` assumes that the main thread takes its messages (`FairSpec`).

`core/system/keyboard.ixx:57` to `:61` asks that every press of the Windows key be paired
with a release on every path. The code does not do so on three, and each is reached in
`key_safe`: `send_key_combination` sends its four events in one `SendInput` and, when
Windows takes only the first, logs and returns (`keyboard.cxx:39`); a release that
fails in `close_program` is not tried again, and the loop ends; and a key queued behind a
close request (a queue of two shows it) begins a native cycle that nobody ends.
`WinDownAccounted` says that these are the only ones: a native cycle that is on holds the
key, a key held outside a cycle comes from a torn shortcut, and a loop that has ended with
the key down has one of the three reasons. A step that loses track of a cycle that still
holds the key, as the mutant does, violates it.

Two more things the model shows, which no property covers. An emulated cycle over
three windows alternates between two, since focusing one puts it first in the list
from which the next step counts, although `docs/manual/components/taskbar.md:3`
promises to cycle. And bound to a key other than numpad 0, the function key undoes
itself within the key event that sets it (`HandleKey`).

Proved for every keymap, program and finite set of windows: `TypeOK`, `WinDownAccounted`,
`SecondaryOnce` and `CycleMoves`. The second is inductive with two facts beside it, that a
key that is up has no reason to be down (`HeldOK`) and that the loop ends only behind
`close_program` (`EndsClosed`), since only then does a cycle that is left on have a reason.
The third is inductive step by step over the handlers. The other two rest on what filtering a sequence keeps. `Those`
is the filter as a function of the order of its members, so that its range, its order and
its freedom from duplicates follow without induction. `LoopInv` says besides the types that no
window is twice in the z-order (`DesktopOK`) and that the index of a cycle is within its
windows (`CycleOK`); a step around a ring of two or more distinct windows then moves.
Only `CloseEnds` is model-checked only.

## 6. CrashRestart

Several processes of `auto_core.exe`: `main[i]` is where the main thread of one is
between `acquire_instance_mutex` and its return, `filter[i][t]` where its thread `t`
is in `unhandled_exception_handler`. A process has its main thread and one other;
`lock` is the `pipe_mutex` of one child and `full` whether that child's pipe
is. `marker` is the crash marker file. One action is one call others can see:
claim, write the marker, spawn, close, exit; acquire, check, answer.
`ShutdownsCollide` lets a process end when the main thread and the filter run
`components::shutdown` at once: `started_children` has no lock, and a second fault
is the outcome the model gives that race.

| Run | Bounds | Shows |
|---|---|---|
| `crash_safe` | three processes, two faults on any thread at any time | `OneAtATime`, `OneSuccessor`, `CrashAcknowledged`; `SuccessorAsks`: the restarted Auto Core gets to its prompt unless the crashed one is blocked on `pipe_mutex` |

Three processes let a third wait for the mutex beside the successor; two faults let
both threads of one process fault, or the successor too. Fairness: the main thread
goes on, and a thread that waits for a lock that is free again and again gets it
(strong fairness of the filter, which `std::mutex` does not promise but Windows
provides). Neither the user's answers nor faults are fair: the property ends at the
prompt.

A divergence that `SuccessorAsks` exempts: the filter closes the program on the thread that faulted. If the main thread
holds `pipe_mutex` in an invoke, because its component does not read or because it is
that thread that faulted, the crashed process stays, keeps the instance mutex, and its
successor waits: `devs/main.md:211` says that Auto Core restarts after an unhandled
exception.

Proved for any number of processes: `TypeOK`, `OneAtATime` (the owner of the mutex is
the one process past it), `OneSuccessor`, `CrashAcknowledged`. `SuccessorAsks` is
model-checked.

## 7. SnapshotAuthority

The authority in `taskbar_ac.exe` and the clients in other processes. A snapshot is its
generation: `local` the authority's, `seen[c]` the client's, `wire[c]` the one in the pipe.
`main`, `calc`, `server`, `pub[c]`, `client[c]` and `listener[c]` are the places of the
threads. The steps are those between which another thread can come: the predicate
of a condition variable and its wait (`FindNothing`, `Wait`), the check of
`authority_running` and the blocking `ConnectNamedPipe` (`CreatePipe`, `Listen`), the
copy of a handle and the read of it (`ListenerLoops`, `ListenerReads`), and each line of
`stop_authority` and `disconnect`. `missed` and `uncanceled` are history: a notification
or cancellation that came between such a pair.
`snapshot_mutex` is not in the model: only publishers take it around what they read,
so it never keeps them from the threads that write.

| Run | Bounds | Shows |
|---|---|---|
| `snap_serve` | one connection, three generations, either process may end at any time | `WaitsInVainOnlyIfMissed`, `CatchesUp`, `DisconnectEnds`, `StopEndsUnlessMissed` |

Connections meet only in the server, which accepts one after the other, and in the
last join; the theorems hold for any number of them. Three generations let one be
published while the one before is in the pipe and another before that is installed.
Every thread goes on while it can (`FairSpec`); requests, deaths and spurious wakeups
are not fair. That a calculation ends is an assumption about Explorer.

A divergence: `stop_authority` "Stops taskbar_ac.exe's authority and all snapshot publisher
threads" (`core_taskbar.ixx:113`), but it may wait for ever: for a server it cancelled too
early, or for a publisher that its notification passed. `StopEndsUnlessMissed` shows
that there is no other way. The host then finds the component lingering, which is
where section 3 begins.

Proved for any number of connections and generations: `TypeOK`, `StopLeavesNoThread`
through `Joined` (what each join has established), and `WaitsInVainOnlyIfMissed`,
inductive by itself once `Phases` says that a calculation runs only while
`calculation_running` is set.

## 8. EpisodeService

The journal numbers the titles of a series. `journal_db.exe --serve` allocates the
numbers; `journal_ac.exe` and `journal_series.exe` each start one and talk to
whichever instance holds the serve mutex, in one short session for each call.

`place`, `child`, `owns` and `ready` are an owner's `Service` object; `srv`, `peer`,
`write`, `closing` an instance and the session it serves; `watch`, `dead`, `stop` the
thread of its `OwnerWatch`, which cancels the instance's blocking calls once the owner
has ended. `rows` and `count` are the table, `map` the active series of `series.map`.
`job`, `key`, `number`, `reply` are a title worker's call or a menu item of the tool,
`lock` the `title_action_mutex`, `remote` what was last pushed to the cloud. `given`
and `lowered` are history: the numbers handed out, and the series a user set back.
A read is one step; an allocation, and each call that writes, is a transaction, a
commit and a reply, between which either side may die or a call may fail.

| Run | Bounds | Shows |
|---|---|---|
| `episodes_safe` | the runtime with two title workers, one tool, two instances, two series, two titles, one menu item, one process that dies or call that fails | `AheadOfGiven`: no number is given twice; `RemoteFollows`: the count in the cloud does not fall |
| `episodes_live` | the same with one worker, one series, one title | `ServiceFollowsOwner`: an orphaned service ends, though it may enter a blocking call just after a cancellation; `CallsEnd`: no client and service wait for each other |

Two workers are needed to swap two pushes, two instances for an owner to meet the
service of another. Fairness: each process goes on by itself, the watch and the serve
thread included (`FairSpec`); users and mishaps are not fair. A count set back by a
user frees the numbers above it, which both properties say.

Divergence: by `journal_db_session.ixx:6` process ownership stays with the caller, but a
tool that reached the runtime's service takes it for its own while the process it created
itself has not exited yet (`journal_db_client.cxx:99`), and shuts it down when it ends. The runtime then keeps `ready` and its titles end with an
error: `CallsEnd` holds, and nothing brings the service back.

Proved for any number of owners, workers, instances, series and mishaps: `TypeOK`,
`AheadOfGiven` and `RemoteFollows`. Neither is inductive. `AheadOfGiven` needs that a
number committed and not yet reported is below the count (`Unreported`), which a second
writer could break: `OneServes` says that one instance holds the serve mutex. It also needs
that a series outside the table never had a number, or adding it would start again at one
(`Handed`). `RemoteFollows` needs what a worker carries between the reply and the push: the
number it was given is at least what was pushed and at most the count (`Pushed`), because
`title_action_mutex` lets nobody else push meanwhile. `Requests` ties a worker to the one session
that serves it, so that a reply cannot reach a later request, and `Children` says that an owner
that waits for its instance has one.

## 9. ConfigPrograms, StorePrograms, ConfigOwner and OwnerContract

Seventeen `<name>_config.exe` own one INI file each. They share one control flow:
parse the launch, look for the file, ask or take defaults, write, run the programs that
own the component's other files, open the menu. `ConfigOwner` states it once;
`Programs` of `ConfigPrograms` is a table of what differs (the settings with the way each
is read back, the owners a launch runs, what is done when one fails) and
`StorePrograms` the same for the data files of those owners: how each is written (in
place, replaced through a temporary file, under a mutex, into a database), when it is
left alone, what is asked. `prog` is the program a behaviour is about; `file` the texts
of its settings, `stores` and `temps` the data files as missing, cut, blank or whole,
`session[i]` one console. Opening with truncation and filling are two steps, and so are
the writing of a temporary file and its placing. `chosen`, `raced`, `cut`, `unread` and
`spoiled` are history.

| Run | Bounds | Shows |
|---|---|---|
| `config_owner` | each of the 17 programs, two consoles (symmetric), two launches, one edit, one failing call or closed console, `component_logging_default = off` | `StoredStays`, `ZeroIsDone`, `KeepsContract` |

- `StoredStays`: what a user stored stays through edits of other settings and later
  launches. It leaves out two consoles that edit at once, a write cut off behind its
  truncation, and an edit of a file that could not be read.
- `ZeroIsDone`: a launch that ends with 0 has every file its owners owe, none cut short.
  It leaves out a file that was cut by a closed console or a failed call, or whose
  temporary file two consoles crossed on.
- `KeepsContract`: each program implements `OwnerContract`, the promise `FirstRun`
  relies on: a run ends with a code, 0 only if the file is there, and no run takes the
  file away. The mapping reads `here` off `present` and a run's state off `session`.

Two launches let a second `--seed` meet what the first left; two consoles are all that
a race takes; one fault stands for a cut at any place. There is no liveness: every
wait of these programs is for a user.

The exemptions are what the code does, and it does not recover from them: a file cut
by a closed console is taken for finished by the next `--seed`, a cut `history.db`
included; `taskbar_builder` looks at no error of the close and can end with 0 over a cut
map (`builder/main.cxx:880`); two consoles share the fixed `.new` name
(`journal_factories.cxx:941`). `spotify_formatter --init`, cancelled, ends with 0 without
`song.format`, so `spotify_config --init` can as well: `Owed` asks of a launch only the
owners that cannot be declined. `server_config` shows and stores `logging = on` where the
shared policy says off (`server/config/main.cxx:61` beside
`logging_policy_config_detail.ixx:148`), which is what `used` in its table row says.

The proofs are in `FirstRunProofs`, since the first run relies on these programs and
the two modules have no name in common. They hold for every program of the table, and any
number of consoles, launches, edits and mishaps. First the tables: each default is a text
its key allows, and what is read from a missing or bad line is one too or the shared
policy (`RowOK`), each step of a launch runs a known owner (`PlanOK`), each file an owner
makes is left whole or blank (`StoreOK`). Each fact is shown of every entry of the tables,
and from there on the proofs use no entry. Then, each on top of the one before:

- `OwnersTyped`: `OwnerTypes` says besides the types what a text in hand may be for its
  kind of write, and that a console at a data file has an owner whose file it is.
- `OwnersKeepContract`: the refinement of `OwnerContract`. `FileThere` says that a console
  past its first look has the file, ends with 1 or is about to create it; `Course` sorts
  each action into a step or a stutter of the contract.
- `StoredAlways`: `Memory` says that, unless two overlapped, one console is at a write
  (`OneWriter`), that nothing was stored while there is no file, and that the file
  (`FileHolds`) and every text about to replace it (`TextHolds`) have what was
  stored. `StoredStays` alone is not inductive, as the text in hand may be older than the
  last edit.
- `ZeroIsAlwaysDone`: `Books` says that what a launch owes is on the disk or still on its
  list (`Paid`), and so are the files an owner has come past (`Behind`); `CutKnown` and
  `TempKnown` that a cut file, or a cut temporary file about to be placed, is a
  known one. No file of an owner ever goes away (`Lasting`).

## 10. FirstRun

`auto_core.exe` finds no `auto_core.ini` and runs `auto_core_init.exe`, which runs nine
steps in a fixed order; the first writes `auto_core.ini`, the sentinel of the sequence.
`init[p]` is one run (Main's, or one a user starts), with the place in the sequence,
whether its `SentinelGuard` is armed, and the components still to be configured;
`here`, `configured` and `listed` are the files. An owner behaves as `OwnerContract`
says. `apart` and `torn` are history: no two runs overlapped; no run ended before it
could remove the sentinel.

| Run | Bounds | Shows |
|---|---|---|
| `first_run` | two components, two starts of Main or of a run by hand, every owner free to fail, one closed console or failing file call | `UpIsComplete`, `ListCovers`, `FirstRunEnds` |

Two components order Taskbar before another; two starts let the second begin behind the
first's failure, or beside it. Fairness: programs run on, and a user who is asked
answers or ends the input.

Proved in `FirstRunProofs` for any components and any number of starts and faults:
`TypeOK`, `UpIsComplete` and `ListCovers`. The invariant says that the files are complete for good
(`Safe`: all there, and no run with an armed guard) or a run with an armed guard is going
on (`Alone`); the passage from the second to the first is `Finish`, where `Built` (the
files of the steps already made are there) covers the whole sequence. `GuardedRuns` says that a
working run is armed or found the sentinel. For the list, `Listing` says that before
step 8 a run that found no list meets none, and behind it nothing is configured any
more. Owners that fail after having written, and removals that fail, are in the model.

Divergence: a console closed during the sequence runs no destructor, so the sentinel stays
and the next start takes the installation for initialised (`init/auto_core/main.cxx:6` and
`:91`). `torn` exempts exactly that.

## 11. ComponentsList

The list is a sequence of lines (section headers, entries, comments); `Listed`, `Value`
and `Enabled` are its parser, `SetListed` the edit in place of `--on` and `--off`,
`Format` the rewriting of a synchronisation, which also asks about new names under the
policy "prompt". Steps are those between which the user answers or another editor
writes.

| Run | Bounds | Shows |
|---|---|---|
| `components_list` | every text of up to two lines of any kind and every `[components]` block of up to three, every policy, two names, two editors (symmetric), two runs, one write cut off | `SetIsLocal`, `ChoiceStays` |

`SetIsLocal` is a fact about the edit for every text: names listed twice, two blocks,
entries outside the section. `ChoiceStays` leaves out editors that overlap (the code has no
lock, and the later writer wins) and cut writes.

### Proofs

The last part of `FirstRunProofs` proves type correctness (`ListTyped`), `SetIsAlwaysLocal` and
`ChoiceAlwaysStays` for any finite set of names (`NamesAssumption`: they are those of the
executables of a directory), any number of editors and runs, and lists of any length.

Nothing in the module recurses: the section of a line is the name of the last header before
it (`SectionOf`), the value of a name that of its last line (`LinesOf`, `Value`). That a set
of line numbers has a first and a last (`FirstFacts`, `LastFacts`) follows from the order of
the naturals being well-founded; from there on each step is about single lines. `Sets(t, u,
n, v)` says what an edit of text `t` into `u` must come to: `u` has lines for `n` and all
carry `v`, and any other name is read of `u` exactly when it is of `t`, with the same value.
It is shown for the three ways of `SetListed`: lines replaced (`ReplacedFacts`), the end of
a text without the section (`AddedFacts`), and an insertion, where the lines behind it move
by one and keep their headers (`InsertedFacts`). `SettingFacts` reads `SetIsLocal` off it.
`FormatFacts` is the same for a rewritten list.

`ChoiceStays` is not inductive: the invariant (`ChoicesInv`) says as much of the text each
editor is about to write, against what will then have been asked for (`AskedThen`), and that
editors that never overlapped write one at a time (`AloneInWrite`).

## 12. SpotifyTokens

Three threads of `spotify_ac.exe` (`Main`, the command loop; `Monitor`; `Devices`) call
`refresh_tokens` under a mutex of the process (`refresh.by`); a refresh reads, presents and
stores `tokens.map` under a mutex of the machine (`lock`), which `spotify_oauth.exe`
takes to save a sign-in. A token is its sign-in, how often the refresh token was
replaced, when it was issued and when the sign-in ends. `current[g]` is the replacement
the accounts service accepts. `CheckMemory`, `TakeLock`, `Granted`, `Rejected`, `NoAnswer`,
`Rename`, `Launch` and `OauthEnded` are the outcomes of `attempt_token_refresh` and its
second pass, `Follow` the requests the command loop makes one after another. `Devices`
listens for one client after another (`Connect`), reads its hello and command
(`serving`), makes the list like any other request (`asking`) and, when the list is more
than the pipe's buffer holds, waits for the client to read it (`replying`). None of these
reads and writes has a limit, and nothing cancels them (`ListDevices`, `LeaveClient` are
the client's).

| Run | Bounds | Shows |
|---|---|---|
| `spotify_tokens` | two commands (one that follows up, down to requests nothing follows, and one that signals the monitor), device clients that may fall silent, two sign-ins, two replacements, a sign-in that lasts two periods, one mishap of any kind, sign-ins by the component and by hand | `FileAccepted`, `KeepsSignIn`, `PromptIsNeeded`, `StopEnds` |

Two sign-ins let one overtake a refresh of the other; two replacements let a refresh
present a token another has replaced. Fairness: threads run on, requests are answered,
and a thread waiting for a mutex that is freed again and again gets it (strong fairness
for the monitor, whose mutex the device thread may take in between, and for the stop,
since the monitor waits without the lock between its requests). Neither the user nor a
device client is fair.

`StopEnds` has two hypotheses about those outside. The sign-in program the component waits
for does not stay at its menu for ever (`Prompting`), and no device client holds the pipe
for ever (`Silent`). The code needs both: in `stop_spotify_device_requests` the poke finds
the pipe of a connected, silent client busy for five seconds and gives up, and the join
then waits for a `ReadFile` that nothing cancels (`spotify_devices.cxx:20`, `:47`,
`pipes.cxx:56`). Without the second hypothesis TLC shows that hang, without the first the
wait for the sign-in. There is one exemption. `Erased`: a stop made before the monitor first locks `spotify_mtx` is lost,
since the loop resets the flag and looks at `end_thread` only after a change
(`spotify_monitor.ixx:83` to `:92`). Further divergences: `reauthorization_required` in
memory is looked at before `tokens.map`, so after a rejected refresh a sign-in made by
hand is noticed only at a restart, or by the program the component itself opens
(`docs/manual/components/spotify.md:20`). `lost` exempts from `FileAccepted` an answer
that never arrived or brought no token, or a store that failed, after the service had replaced the token.

Proved in `SpotifyTokensProofs` for any number of sign-ins, replacements and mishaps:
`FileAccepted` and `KeepsSignIn`. The invariant: who holds the mutex of the machine is
inside a refresh or writing a sign-in (`Holders`); inside a refresh the tokens in memory
are those of the file, or after the grant their accepted replacement, of the same sign-in
(`UnderLock`); a sign-in not saved yet is in nobody else's hands (`Fresh`); and except while a
replacement is being stored the file is accepted (`Kept`). `Asked` says that only a thread
inside a request refreshes and that the monitor is joined before the process ends; without
it the end of the process could leave the mutex held. `PromptIsNeeded` (the sign-in
program is opened only for a client or tokens that are missing, expired, no longer
accepted or unlike those in memory) is an action property. It needs `Offers`: an
authorization known to have ended has been offered to the user already, and no refresh
that presents tokens holds them for ended. `TypeOK` is proved too;
`StopEnds` is model-checked only.

## 13. Proofs

Each proof module extends the module it is about (`FirstRunProofs` the three it is
about), and nothing is assumed beyond the
named assumptions on its constants, which the run of that module evaluates.

| Module | Theorems | Model-checked only |
|---|---|---|
| `HostSession` | type correctness, `Accounted`, `RefusedLeaveNothing`, `ForceAllowedGone`, `GracefulSpared`, `LoggerLast`, `ForcedOnlyAfterAsked` | `EndsOrPrompts`, `RequestEndsSession` |
| `LogMerge` | type correctness, `OnlyComplete`, `NothingLost`, the refinement `IsOnceLog` | `EveryRecordMerged`, `ShutdownEndsHosted` |
| `KeyLoop` | type correctness, `WinDownAccounted`, `SecondaryOnce`, `CycleMoves` | `CloseEnds` |
| `CrashRestart` | type correctness, `OneAtATime`, `CrashAcknowledged`, `OneSuccessor` | `SuccessorAsks` |
| `SnapshotAuthority` | type correctness, `StopLeavesNoThread`, `WaitsInVainOnlyIfMissed` | liveness |
| `FirstRun` | type correctness, `UpIsComplete`, `ListCovers` | `FirstRunEnds` |
| `ConfigOwner` | type correctness, the refinement `KeepsContract`, `StoredStays`, `ZeroIsDone` | - |
| `SpotifyTokens` | type correctness, `FileAccepted`, `KeepsSignIn`, `PromptIsNeeded` | `StopEnds` |
| `EpisodeService` | type correctness, `AheadOfGiven`, `RemoteFollows` | `ServiceFollowsOwner`, `CallsEnd` |
| `ComponentsList` | type correctness, `SetIsLocal`, `ChoiceStays` | - |

So every invariant and every action property the runs check is proved for all values of
the constants. The liveness properties stay with TLC: the prover has no rule for
fairness here.

Two theorems have hypotheses on the constants, `NothingIsLost` and `KeepsOnceLog` (section
4); each run of `LogMerge` that checks the property satisfies the hypothesis of the theorem.

## 14. What is not modelled

- Keymaps: parsing, conflict rules and saving are text in and text out in one thread;
  `KeyLoop` takes the keymap as a constant. The command registry is a map filled once.
- Text insertion and the clipboard: a sequence of calls into programs outside the
  repository, with no state of its own.
- COM in iTunes, the HTTP loop of the server (one connection after another, no state
  between), the browser's part of a sign-in, the database of plays.
- Dash's second process, with its mapping and request event.
- The logging cleanup helper (`LogMerge` has its effect, a deleted source), the version
  check, minidumps and the texts of reports.
- The keymap editor and builder, the console editor of taskbar maps, settings menus:
  sequential console programs over one file.
- Wording, formatting, colours and layout; clocks; the Win32 calls beyond what the code
  relies on; test programs, build files and vendored code.

Each is a component of `PROJECT.json` with its reason.

Smaller differences met on the way, in parts left out: `spotify_print_songs` can lose or
skip a track and `get_current_song` can record one twice when the monitor records beside
them; the comment at `components/spotify/shared/defaults.ixx:20` says that `true` enables the
automatic sign-in, where the code accepts only `on`.
