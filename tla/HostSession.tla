---------------------------- MODULE HostSession ----------------------------
(***************************************************************************)
(* One component session of Auto Core's Main: every enabled *_ac.exe is    *)
(* started suspended, placed in its own Win32 job, resumed, and hosted     *)
(* once its hello arrives; key bindings become invoke requests on its      *)
(* control pipe; shutdown asks every child to stop, waits, recovers, and   *)
(* settles the jobs.  The code is ac_components.cxx with process.cxx.      *)
(*                                                                         *)
(* A child's processes are its root (the *_ac.exe itself) and one helper   *)
(* the root may start inside the job.  Both may exit at any moment.  A     *)
(* deadline may pass at any moment.  Operating system calls on the jobs of *)
(* FaultyJobs may fail; the others succeed.                                *)
(***************************************************************************)
EXTENDS Naturals, Sequences, FiniteSets

CONSTANTS
  Children,     \* the enabled components Main hosts at startup
  Logger,       \* the component named "logger", in Children or not
  Taskbar,      \* the component named "taskbar", in Children or not
  FaultyJobs,   \* children whose job calls may fail
  Helpers,      \* children whose root starts a helper process in the job
  Capacity,     \* messages a control pipe buffers (4096 bytes in the code)
  MaxCalls,     \* bound: invokes Main makes in a session
  NoChild       \* "no current child"

ASSUME NoChildAssumption == NoChild \notin Children
ASSUME FaultyAssumption == FaultyJobs \subseteq Children
ASSUME BoundsAssumption == Capacity \in Nat \ {0} /\ MaxCalls \in Nat

VARIABLES
  pc,           \* where Main's thread is
  cur,          \* the child the current step is about
  todo,         \* children the current loop has still to visit
  started,      \* started_children, in the order they were kept
  lingering,    \* the lingering vector of shutdown()
  request,      \* the pending shutdown request
  settings,     \* shutdown.ini prompt and logger.ini merge_logs_on_shutdown
  calls,        \* invokes made so far
  once,         \* logger_ac.exe --once --shutdown was launched
  snapshot,     \* snapshot_attached of the taskbar child
  stage,        \* Launch / StartedChild of each child, as far as Main got
  policy,       \* termination_policy of each StartedChild
  keepOpen,     \* keep_job_open of each StartedChild
  pipe,         \* Main's end of each control pipe
  asked,        \* outcome of request_child_shutdown
  heir,         \* the process the job handle was handed to
  wire,         \* control messages written and not yet read
  hello,        \* the hello in the pipe: none yet, a policy, or unusable
  serving,      \* where each root process is in its own main()
  alive,        \* living processes of each child
  holders,      \* who holds a handle of each child's job
  killOnClose,  \* JOB_OBJECT_LIMIT_KILL_ON_JOB_CLOSE of each job
  forced        \* history: what ended living processes of each child

control == <<pc, cur, todo, lingering>>
session == <<started, request, settings, calls, once, snapshot>>
kept    == <<stage, policy, keepOpen, heir>>
channel == <<pipe, asked, wire>>
child   == <<hello, serving>>
jobs    == <<alive, holders, killOnClose, forced>>
vars == <<control, session, kept, channel, child, jobs>>

Policies == {"graceful", "force_allowed"}
Members  == {"root", "helper"}
Others   == Children \ {Logger}
StartedSet == {started[i] : i \in DOMAIN started}
Hosted(c) == stage[c] = "hosted"
InFlight == {c \in Children : stage[c] = "launched"}

Goto(label) == pc' = label /\ UNCHANGED <<cur, todo, lingering>>

-----------------------------------------------------------------------------
(***************************************************************************)
(* Win32 processes and job objects, as process.cxx uses them.              *)
(***************************************************************************)

\* p gives up its job handle: it closes it, exits, or is ended.  survivors
\* are the processes left if the job outlives that; a kill-on-close job
\* whose last handle goes takes them along.
DropHandle(c, p, survivors, cause) ==
  LET rest == holders[c] \ {p}
      dies == killOnClose[c] /\ p \in holders[c] /\ rest = {}
  IN /\ holders' = [holders EXCEPT ![c] = rest]
     /\ alive' = [alive EXCEPT ![c] = IF dies THEN {} ELSE survivors]
     /\ forced' = [forced EXCEPT ![c] =
          IF dies /\ survivors # {} THEN @ \cup {cause} ELSE @]
     /\ UNCHANGED killOnClose

\* The same for every child of cs at once: what the end of Main does.
DropMainHandles(cs, cause) ==
  LET last(c) == c \in cs /\ killOnClose[c] /\ holders[c] = {"main"}
  IN /\ holders' = [c \in Children |->
                      IF c \in cs THEN holders[c] \ {"main"} ELSE holders[c]]
     /\ alive' = [c \in Children |-> IF last(c) THEN {} ELSE alive[c]]
     /\ forced' = [c \in Children |->
                      IF last(c) /\ alive[c] # {}
                      THEN forced[c] \cup {cause} ELSE forced[c]]
     /\ UNCHANGED killOnClose

\* TerminateJobObject ends every process of the job.
TerminateJob(c) ==
  /\ alive' = [alive EXCEPT ![c] = {}]
  /\ holders' = [holders EXCEPT ![c] = @ \cap {"main"}]
  /\ forced' = [forced EXCEPT ![c] =
       IF alive[c] = {} THEN @ ELSE @ \cup {"terminate"}]
  /\ UNCHANGED killOnClose

MayFail(c) == c \in FaultyJobs

\* Whether the job of c can be queried now: always, unless it is faulty.
Readings(c) == IF MayFail(c) THEN BOOLEAN ELSE {TRUE}
JobStillActive(c, readable) == ~readable \/ alive[c] # {}
ChildTreeActive(c, readable) ==
  "root" \in alive[c] \/ JobStillActive(c, readable)
AllProcessesExited(cs) == \A c \in cs : "root" \notin alive[c]

-----------------------------------------------------------------------------
(***************************************************************************)
(* Startup: initialize, start_taskbar, start_remaining.                    *)
(***************************************************************************)

Init ==
  /\ pc = "launching" /\ cur = NoChild /\ todo = Children /\ lingering = {}
  /\ started = <<>> /\ request = "none" /\ calls = 0
  /\ settings \in [prompt : {"popup", "console"}, merge : BOOLEAN]
  /\ once = FALSE /\ snapshot = FALSE
  /\ stage = [c \in Children |-> "idle"]
  /\ policy = [c \in Children |-> "graceful"]
  /\ keepOpen = [c \in Children |-> FALSE]
  /\ heir = [c \in Children |-> "none"]
  /\ pipe = [c \in Children |-> "none"]
  /\ asked = [c \in Children |-> "no"]
  /\ wire = [c \in Children |-> <<>>]
  /\ hello = [c \in Children |-> "none"]
  /\ serving = [c \in Children |-> "unborn"]
  /\ alive = [c \in Children |-> {}]
  /\ holders = [c \in Children |-> {}]
  /\ killOnClose = [c \in Children |-> FALSE]
  /\ forced = [c \in Children |-> {}]

\* The next name: "taskbar" goes first and alone.
NextLaunch(c) == c \in todo /\ (Taskbar \in todo => c = Taskbar)

\* try_launch fails before a process exists: no pipe, no executable, or
\* CreateProcess refuses.
TryLaunchFails(c) ==
  /\ pc = "launching" /\ NextLaunch(c)
  /\ todo' = todo \ {c}
  /\ stage' = [stage EXCEPT ![c] = "unavailable"]
  /\ UNCHANGED <<pc, cur, lingering, session, policy, keepOpen, heir, channel,
                 child, jobs>>

\* try_launch, start_owned_process: the pipe exists, the process is suspended.
StartSuspended(c) ==
  /\ pc = "launching" /\ NextLaunch(c)
  /\ pc' = "placing" /\ cur' = c /\ todo' = todo \ {c}
  /\ stage' = [stage EXCEPT ![c] = "suspended"]
  /\ pipe' = [pipe EXCEPT ![c] = "open"]
  /\ alive' = [alive EXCEPT ![c] = {"root"}]
  /\ UNCHANGED <<lingering, session, policy, keepOpen, heir, asked, wire, child,
                 holders, killOnClose, forced>>

\* After taskbar Main waits for its hello; after the rest it collects them.
AfterPlacing(c) == IF c = Taskbar \/ todo = {} THEN "collecting" ELSE "launching"

\* Seeded fault: the job is created without its kill-on-close limit.
PlaceInJobUnlimited ==
  /\ pc = "placing"
  /\ pc' = AfterPlacing(cur) /\ cur' = NoChild
  /\ stage' = [stage EXCEPT ![cur] = "launched"]
  /\ serving' = [serving EXCEPT ![cur] = "booting"]
  /\ holders' = [holders EXCEPT ![cur] = {"main"}]
  /\ UNCHANGED <<todo, lingering, session, policy, keepOpen, heir, channel,
                 hello, alive, killOnClose, forced>>

\* create_component_job and resume_in_job succeed: the root runs, in its job.
PlaceInJob ==
  /\ pc = "placing"
  /\ pc' = AfterPlacing(cur) /\ cur' = NoChild
  /\ stage' = [stage EXCEPT ![cur] = "launched"]
  /\ serving' = [serving EXCEPT ![cur] = "booting"]
  /\ holders' = [holders EXCEPT ![cur] = {"main"}]
  /\ killOnClose' = [killOnClose EXCEPT ![cur] = TRUE]
  /\ UNCHANGED <<todo, lingering, session, policy, keepOpen, heir, channel,
                 hello, alive, forced>>

\* Either one fails: the suspended process is terminated, never having run.
PlaceInJobFails ==
  /\ pc = "placing" /\ MayFail(cur)
  /\ pc' = AfterPlacing(cur) /\ cur' = NoChild
  /\ stage' = [stage EXCEPT ![cur] = "unavailable"]
  /\ pipe' = [pipe EXCEPT ![cur] = "closed"]
  /\ alive' = [alive EXCEPT ![cur] = {}]
  /\ UNCHANGED <<todo, lingering, session, policy, keepOpen, heir, asked, wire,
                 child, holders, killOnClose, forced>>

\* No name left to launch and none in flight to wait for.
LaunchedAll ==
  /\ pc = "launching" /\ todo = {}
  /\ Goto("collecting")
  /\ UNCHANGED <<session, kept, channel, child, jobs>>

\* accept_hello and keep_child; taskbar's attach_taskbar_snapshot may fail.
AcceptHello(c) ==
  /\ pc = "collecting" /\ c \in InFlight /\ hello[c] \in Policies
  /\ stage' = [stage EXCEPT ![c] = "hosted"]
  /\ policy' = [policy EXCEPT ![c] = hello[c]]
  /\ started' = Append(started, c)
  /\ snapshot' \in IF c = Taskbar THEN BOOLEAN ELSE {snapshot}
  /\ UNCHANGED <<control, request, settings, calls, once, keepOpen, heir,
                 channel, child, jobs>>

\* Seeded fault: the job handle is leaked when terminate_job fails.
AbandonChildLeaksJob(c) ==
  /\ pc = "collecting" /\ c \in InFlight
  /\ stage' = [stage EXCEPT ![c] = "unavailable"]
  /\ pipe' = [pipe EXCEPT ![c] = "closed"]
  /\ \E terminated \in Readings(c) :
       IF terminated THEN DropHandle(c, "main", {}, "abandon") ELSE UNCHANGED jobs
  /\ UNCHANGED <<control, session, policy, keepOpen, heir, asked, wire, child>>

\* abandon_child: no hello in time, the process exited, or a hello Main does
\* not accept.  terminate_job may fail; closing the only job handle follows.
AbandonChild(c) ==
  /\ pc = "collecting" /\ c \in InFlight
  /\ stage' = [stage EXCEPT ![c] = "unavailable"]
  /\ pipe' = [pipe EXCEPT ![c] = "closed"]
  /\ \E terminated \in Readings(c) :
       DropHandle(c, "main", IF terminated THEN {} ELSE alive[c], "abandon")
  /\ UNCHANGED <<control, session, policy, keepOpen, heir, asked, wire, child>>

CollectedAll ==
  /\ pc = "collecting" /\ InFlight = {}
  /\ Goto(IF todo = {} THEN "running" ELSE "launching")
  /\ UNCHANGED <<session, kept, channel, child, jobs>>

-----------------------------------------------------------------------------
(***************************************************************************)
(* The message loop runs a key binding: components::invoke.                *)
(***************************************************************************)

RootGone(c) == "root" \notin alive[c]
PipeFull(c) == Len(wire[c]) >= Capacity

\* find_child and pipe.valid() both hold; otherwise Main reports the
\* component unavailable and nothing changes.
Invoke(c) ==
  /\ pc = "running" /\ calls < MaxCalls
  /\ Hosted(c) /\ pipe[c] = "open"
  /\ pc' = "sendingCommand" /\ cur' = c /\ calls' = calls + 1
  /\ UNCHANGED <<todo, lingering, started, request, settings, once, snapshot,
                 kept, channel, child, jobs>>

\* A blocking write: with the reader alive and the pipe full, Main waits here.
WriteRequest(from, message, to) ==
  /\ pc = from /\ ~RootGone(cur) /\ ~PipeFull(cur)
  /\ wire' = [wire EXCEPT ![cur] = Append(@, message)]
  /\ pc' = to
  /\ cur' = IF to = "running" THEN NoChild ELSE cur
  /\ UNCHANGED <<todo, lingering, session, kept, pipe, asked, child, jobs>>

SendCommand == WriteRequest("sendingCommand", "invoke", "sendingPayload")
SendPayload == WriteRequest("sendingPayload", "payload", "running")

\* The write fails because the reader is gone: pipe.reset(), for good.
InvokeFails ==
  /\ pc \in {"sendingCommand", "sendingPayload"} /\ RootGone(cur)
  /\ pipe' = [pipe EXCEPT ![cur] = "closed"]
  /\ pc' = "running" /\ cur' = NoChild
  /\ UNCHANGED <<todo, lingering, session, kept, asked, wire, child, jobs>>

\* A console event asks Main to close, or session end (noninteractive); the
\* posted message waits until the loop is free.
AskToClose(mode) ==
  /\ pc \notin {"stopped", "gone"} /\ request = "none"
  /\ request' = mode
  /\ UNCHANGED <<control, started, settings, calls, once, snapshot, kept, channel,
                 child, jobs>>

-----------------------------------------------------------------------------
(***************************************************************************)
(* components::shutdown                                                    *)
(***************************************************************************)

\* Seeded fault: only graceful children are asked.
BeginShutdownGracefulOnly ==
  /\ pc = "running" /\ request # "none"
  /\ IF started = <<>>
     THEN Goto("stopped")
     ELSE pc' = "asking"
          /\ todo' = {c \in StartedSet \ {Logger} : policy[c] = "graceful"}
          /\ UNCHANGED <<cur, lingering>>
  /\ UNCHANGED <<session, kept, channel, child, jobs>>

BeginShutdown ==
  /\ pc = "running" /\ request # "none"
  /\ IF started = <<>>                 \* shutdown_complete was never cleared
     THEN Goto("stopped")
     ELSE pc' = "asking" /\ todo' = StartedSet \ {Logger}
          /\ UNCHANGED <<cur, lingering>>
  /\ UNCHANGED <<session, kept, channel, child, jobs>>

\* Seeded fault: the shutdown request is a blocking write.
RequestChildShutdownBlocking(c) ==
  IF pipe[c] # "open" THEN UNCHANGED channel
  ELSE IF RootGone(c)
  THEN asked' = [asked EXCEPT ![c] = "refused"] /\ UNCHANGED <<pipe, wire>>
  ELSE /\ ~PipeFull(c)
       /\ asked' = [asked EXCEPT ![c] = "sent"]
       /\ wire' = [wire EXCEPT ![c] = Append(@, "shutdown")]
       /\ UNCHANGED pipe

\* request_child_shutdown: one nonblocking write, refused by a full pipe or
\* a departed reader; a pipe an invoke has reset is skipped.
RequestChildShutdown(c) ==
  IF pipe[c] # "open" THEN UNCHANGED channel
  ELSE IF RootGone(c) \/ PipeFull(c)
  THEN asked' = [asked EXCEPT ![c] = "refused"] /\ UNCHANGED <<pipe, wire>>
  ELSE /\ asked' = [asked EXCEPT ![c] = "sent"]
       /\ wire' = [wire EXCEPT ![c] = Append(@, "shutdown")]
       /\ UNCHANGED pipe

\* rbegin to rend: the last started of those left.
LastOf(cs, c) ==
  \E i \in DOMAIN started :
    started[i] = c /\ \A j \in DOMAIN started : started[j] \in cs => j <= i

AskChild(c) ==
  /\ pc = "asking" /\ c \in todo /\ LastOf(todo, c)
  /\ todo' = todo \ {c}
  /\ RequestChildShutdown(c)
  /\ UNCHANGED <<pc, cur, lingering, session, kept, child, jobs>>

\* disconnect_child_snapshot, then the waits under the shared deadline begin.
AskedAll ==
  /\ pc = "asking" /\ todo = {}
  /\ snapshot' = FALSE
  /\ Goto("waiting")
  /\ UNCHANGED <<started, request, settings, calls, once, kept, channel, child,
                 jobs>>

\* lingering_children over cs, each job query succeeding or not.
LingeringAmong(cs) ==
  {l \in SUBSET cs : \A c \in cs :
     \E readable \in Readings(c) : c \in l <=> ChildTreeActive(c, readable)}

\* wait_for_process_exit and drain_jobs_until end, by exits or by the deadline.
WaitEnds ==
  /\ pc = "waiting"
  /\ \E l \in LingeringAmong(StartedSet \ {Logger}) :
       lingering' = l /\ todo' = l
  /\ pc' = "resolving"
  /\ UNCHANGED <<cur, session, kept, channel, child, jobs>>

\* Seeded fault: the policy is not looked at.
ForceTerminateAnyPolicy(c, done) ==
  \/ /\ done /\ \E readable \in Readings(c) : ~ChildTreeActive(c, readable)
     /\ UNCHANGED jobs
  \/ /\ done /\ \E readable \in Readings(c) : ChildTreeActive(c, readable)
     /\ TerminateJob(c)
  \/ ~done /\ MayFail(c) /\ UNCHANGED jobs

\* force_terminate.  eligible only by policy; already finished counts as done;
\* the result is TRUE when nothing is left to do.
ForceTerminate(c, done) ==
  /\ policy[c] = "force_allowed"
  /\ \/ /\ done /\ \E readable \in Readings(c) : ~ChildTreeActive(c, readable)
        /\ UNCHANGED jobs
     \/ /\ done /\ \E readable \in Readings(c) : ChildTreeActive(c, readable)
        /\ TerminateJob(c)
     \/ ~done /\ MayFail(c) /\ UNCHANGED jobs

\* resolve_force_allowed, one lingering child at a time.
ResolveForceAllowed(c) ==
  /\ pc = "resolving" /\ c \in todo
  /\ todo' = todo \ {c}
  /\ \/ policy[c] = "graceful" /\ UNCHANGED <<lingering, jobs>>
     \/ ForceTerminate(c, TRUE) /\ lingering' = lingering \ {c}
     \/ ForceTerminate(c, FALSE) /\ UNCHANGED lingering
  /\ UNCHANGED <<pc, cur, session, kept, channel, child>>

ResolvedAll ==
  /\ pc = "resolving" /\ todo = {}
  /\ Goto(IF lingering = {} \/ request = "noninteractive"
          THEN "othersDone" ELSE "choosing")
  /\ UNCHANGED <<session, kept, channel, child, jobs>>

\* The recovery prompt closes by itself once the root processes have exited.
PromptAllExited ==
  /\ pc = "choosing" /\ AllProcessesExited(lingering)
  /\ Goto("othersDone")
  /\ UNCHANGED <<session, kept, channel, child, jobs>>

\* "Leave running", a closed dialog, or a dialog that failed to open.
PromptLeaveRunning ==
  /\ pc = "choosing" /\ settings.prompt = "popup"
  /\ Goto("othersDone")
  /\ UNCHANGED <<session, kept, channel, child, jobs>>

\* Enter or "Force terminate eligible": apply_recovery_decision(true).
PromptForce ==
  /\ pc = "choosing"
  /\ pc' = "forcing" /\ todo' = lingering
  /\ UNCHANGED <<cur, lingering, session, kept, channel, child, jobs>>

ForceEligible(c) ==
  /\ pc = "forcing" /\ c \in todo
  /\ todo' = todo \ {c}
  /\ \/ policy[c] = "graceful" /\ UNCHANGED jobs
     \/ \E done \in BOOLEAN : ForceTerminate(c, done)
  /\ UNCHANGED <<pc, cur, lingering, session, kept, channel, child>>

ForcedAll ==
  /\ pc = "forcing" /\ todo = {}
  /\ Goto("othersDone")
  /\ UNCHANGED <<session, kept, channel, child, jobs>>

\* Any other console key: wait for another timeout and look again; the loop
\* of run_console_recovery ends when nothing lingers.
PromptContinue ==
  /\ pc = "choosing" /\ settings.prompt = "console"
  /\ \E l \in LingeringAmong(StartedSet \ {Logger}) :
       /\ lingering' = l
       /\ pc' = IF l = {} THEN "othersDone" ELSE "choosing"
  /\ UNCHANGED <<cur, todo, session, kept, channel, child, jobs>>

\* Phase two: the logger is asked last and given a timeout of its own.
AskLogger ==
  /\ pc = "othersDone" /\ Logger \in StartedSet
  /\ RequestChildShutdown(Logger)
  /\ Goto("loggerWaiting")
  /\ UNCHANGED <<session, kept, child, jobs>>

\* Seeded fault: the merge does not wait for the hosted logger to be gone.
LoggerWaitEndsUnchecked ==
  /\ \/ pc = "loggerWaiting"
     \/ pc = "othersDone" /\ Logger \notin StartedSet
  /\ Goto(IF settings.merge THEN "merging" ELSE "settling")
  /\ UNCHANGED <<session, kept, channel, child, jobs>>

\* Its wait ends, by exit or deadline; logger_still_running looks at the root.
LoggerWaitEnds ==
  /\ \/ pc = "loggerWaiting"
     \/ pc = "othersDone" /\ Logger \notin StartedSet
  /\ Goto(IF settings.merge /\ (Logger \in StartedSet => RootGone(Logger))
          THEN "merging" ELSE "settling")
  /\ UNCHANGED <<session, kept, channel, child, jobs>>

\* launch_detached_logger_once, which may find no executable or fail.
LaunchMergeOnce ==
  /\ pc = "merging"
  /\ once' \in BOOLEAN
  /\ Goto("settling")
  /\ UNCHANGED <<started, request, settings, calls, snapshot, kept, channel,
                 child, jobs>>

-----------------------------------------------------------------------------
(***************************************************************************)
(* settle_job and close_child_handles, child by child.                     *)
(***************************************************************************)

Settle(c, next) ==
  /\ pc = "settling" /\ Hosted(c)
  /\ pc' = next /\ cur' = c
  /\ UNCHANGED <<todo, lingering, session, kept, channel, child>>

\* settle_job, or handoff_job asking again, finds the job empty.
SettleEmpty(c) ==
  /\ Settle(c, "closing")
  /\ \E readable \in Readings(c) : ~JobStillActive(c, readable)
  /\ UNCHANGED jobs

SettleForceAllowed(c) ==
  /\ Settle(c, "closing")
  /\ policy[c] = "force_allowed"
  /\ \E readable \in Readings(c) : JobStillActive(c, readable)
  /\ TerminateJob(c) \/ (MayFail(c) /\ UNCHANGED jobs)

\* handoff_job picks the root when it is alive, otherwise some member.
SettleGraceful(c) ==
  /\ Settle(c, IF RootGone(c) THEN "handingToMember" ELSE "handingToRoot")
  /\ policy[c] = "graceful"
  /\ \E readable \in Readings(c) : JobStillActive(c, readable)
  /\ UNCHANGED jobs

\* The processes the chosen route may give the handle to.
HandoffTargets ==
  CASE pc = "handingToRoot"   -> {"root"} \cap alive[cur]
    [] pc = "handingToMember" -> alive[cur]
    [] OTHER -> {}

\* duplicate_job_into a process that is alive and in the job.
HandOff(p) ==
  /\ p \in HandoffTargets
  /\ pc' = "closing"
  /\ holders' = [holders EXCEPT ![cur] = @ \cup {p}]
  /\ heir' = [heir EXCEPT ![cur] = p]
  /\ UNCHANGED <<cur, todo, lingering, session, stage, policy, keepOpen, channel,
                 child, alive, killOnClose, forced>>

\* The target exited first, or a call failed, perhaps after the handle was
\* duplicated: try_clear_kill_on_job_close, and Main's own handle stays open
\* until its process ends.
HandOffFails ==
  /\ pc \in {"handingToRoot", "handingToMember"}
  /\ HandoffTargets = {} \/ MayFail(cur)
  /\ \E strays \in SUBSET HandoffTargets :
       holders' = [holders EXCEPT ![cur] = @ \cup strays]
  /\ \E cleared \in Readings(cur) :
       killOnClose' = [killOnClose EXCEPT ![cur] = @ /\ ~cleared]
  /\ keepOpen' = [keepOpen EXCEPT ![cur] = TRUE]
  /\ pc' = "closing"
  /\ UNCHANGED <<cur, todo, lingering, session, stage, policy, heir, channel,
                 child, alive, forced>>

CloseChildHandles ==
  /\ pc = "closing"
  /\ pc' = "settling" /\ cur' = NoChild
  /\ stage' = [stage EXCEPT ![cur] = "closed"]
  /\ pipe' = [pipe EXCEPT ![cur] = "closed"]
  /\ IF keepOpen[cur] THEN UNCHANGED jobs
     ELSE DropHandle(cur, "main", alive[cur], "close")
  /\ UNCHANGED <<todo, lingering, session, policy, keepOpen, heir, asked, wire,
                 child>>

ShutdownComplete ==
  /\ pc = "settling" /\ \A c \in Children : ~Hosted(c)
  /\ Goto("stopped")
  /\ started' = <<>>
  /\ UNCHANGED <<request, settings, calls, once, snapshot, kept, channel, child,
                 jobs>>

\* Main's process ends, after shutdown or (MainDies) anywhere: every handle
\* it holds is closed and its memory is gone.
MainEnds(cause) ==
  /\ pc' = "gone" /\ cur' = NoChild /\ todo' = {} /\ lingering' = {}
  /\ started' = <<>> /\ snapshot' = FALSE
  /\ pipe' = [c \in Children |-> IF pipe[c] = "open" THEN "closed" ELSE pipe[c]]
  /\ DropMainHandles({c \in Children : "main" \in holders[c]}, cause)
  /\ UNCHANGED <<request, settings, calls, once, kept, asked, wire, child>>

MainExits == pc = "stopped" /\ MainEnds("exit")
MainDies == pc \notin {"stopped", "gone"} /\ MainEnds("death")

-----------------------------------------------------------------------------
(***************************************************************************)
(* The child's own main(): connect, hello, CommandDispatcher::process.     *)
(***************************************************************************)

Runs(c) == "root" \in alive[c] /\ serving[c] # "unborn"

\* The hello is one write; an old or malformed one is "unusable".
SendHello(c, h) ==
  /\ Runs(c) /\ serving[c] = "booting" /\ pipe[c] = "open"
  /\ hello' = [hello EXCEPT ![c] = h]
  /\ serving' = [serving EXCEPT ![c] = "reading"]
  /\ UNCHANGED <<control, session, kept, channel, jobs>>

\* Seeded fault: the shutdown handler does not stop the dispatcher.
ReadRequestGoesOn(c) ==
  /\ Runs(c) /\ serving[c] = "reading" /\ wire[c] # <<>>
  /\ wire' = [wire EXCEPT ![c] = Tail(@)]
  /\ serving' = [serving EXCEPT ![c] =
       IF Head(wire[c]) = "invoke" THEN "readingPayload" ELSE "reading"]
  /\ UNCHANGED <<control, session, kept, pipe, asked, hello, jobs>>

\* One turn of the dispatcher loop.  A command other than shutdown or invoke
\* ends the loop with ERROR_INVALID_DATA.
ReadRequest(c) ==
  /\ Runs(c) /\ serving[c] = "reading" /\ wire[c] # <<>>
  /\ wire' = [wire EXCEPT ![c] = Tail(@)]
  /\ serving' = [serving EXCEPT ![c] =
       IF Head(wire[c]) = "invoke" THEN "readingPayload" ELSE "leaving"]
  /\ UNCHANGED <<control, session, kept, pipe, asked, hello, jobs>>

\* read_string of the invoke handler; the command runs and the loop goes on.
ReadPayload(c) ==
  /\ Runs(c) /\ serving[c] = "readingPayload" /\ wire[c] # <<>>
  /\ wire' = [wire EXCEPT ![c] = Tail(@)]
  /\ serving' = [serving EXCEPT ![c] = "reading"]
  /\ UNCHANGED <<control, session, kept, pipe, asked, hello, jobs>>

\* Main closed its end and the buffer is drained: the read fails.
PipeBroken(c) ==
  /\ Runs(c) /\ serving[c] \in {"reading", "readingPayload"}
  /\ pipe[c] = "closed" /\ wire[c] = <<>>
  /\ serving' = [serving EXCEPT ![c] = "leaving"]
  /\ UNCHANGED <<control, session, kept, channel, hello, jobs>>

ProcessEnds(c, p) ==
  /\ p \in alive[c]
  /\ DropHandle(c, p, alive[c] \ {p}, "heir")
  /\ UNCHANGED <<control, session, kept, channel, child>>

\* The root returns from main; and any process may end at any time.
Leave(c) == Runs(c) /\ serving[c] = "leaving" /\ ProcessEnds(c, "root")
Crash(c, p) == serving[c] # "unborn" /\ ProcessEnds(c, p)

SpawnHelper(c) ==
  /\ Runs(c) /\ c \in Helpers /\ "helper" \notin alive[c]
  /\ alive' = [alive EXCEPT ![c] = @ \cup {"helper"}]
  /\ UNCHANGED <<control, session, kept, channel, child, holders, killOnClose,
                 forced>>

-----------------------------------------------------------------------------
Launch == \/ PlaceInJob \/ PlaceInJobFails \/ LaunchedAll \/ CollectedAll
          \/ \E c \in Children : \/ TryLaunchFails(c) \/ StartSuspended(c)
                                 \/ AcceptHello(c) \/ AbandonChild(c)

Call == SendCommand \/ SendPayload \/ InvokeFails

Shutdown ==
  \/ AskedAll \/ WaitEnds \/ ResolvedAll \/ ForcedAll
  \/ AskLogger \/ LoggerWaitEnds \/ LaunchMergeOnce
  \/ HandOffFails \/ CloseChildHandles \/ ShutdownComplete
  \/ \E p \in Members : HandOff(p)
  \/ \E c \in Children : \/ AskChild(c) \/ ResolveForceAllowed(c)
                         \/ ForceEligible(c) \/ SettleEmpty(c)
                         \/ SettleForceAllowed(c) \/ SettleGraceful(c)

User == \/ \E c \in Children : Invoke(c)
        \/ \E mode \in {"interactive", "noninteractive"} : AskToClose(mode)
        \/ PromptLeaveRunning \/ PromptForce \/ PromptContinue

Child(c) == \/ \E h \in Policies \cup {"unusable"} : SendHello(c, h)
            \/ ReadRequest(c) \/ ReadPayload(c) \/ PipeBroken(c) \/ Leave(c)

World(c) == SpawnHelper(c) \/ \E p \in Members : Crash(c, p)

Next ==
  \/ Launch \/ Call \/ BeginShutdown \/ Shutdown \/ PromptAllExited \/ MainExits
  \/ User \/ MainDies
  \/ \E c \in Children : Child(c) \/ World(c)

Spec == Init /\ [][Next]_vars

\* Main's thread runs on as long as a step of its own is possible: its waits
\* are bounded, except for a blocking write and for the user at a prompt.
MainFairness == /\ WF_vars(Launch) /\ WF_vars(Call) /\ WF_vars(BeginShutdown)
                /\ WF_vars(Shutdown) /\ WF_vars(PromptAllExited)
MainSpec == Spec /\ MainFairness

\* A child may also keep reading its pipe and return from main when told to.
ChildrenCooperate == \A c \in Children : WF_vars(Child(c))

-----------------------------------------------------------------------------
Labels == {"launching", "placing", "collecting", "running", "sendingCommand",
           "sendingPayload", "asking", "waiting", "resolving", "choosing",
           "forcing", "othersDone", "loggerWaiting", "merging", "settling",
           "handingToRoot", "handingToMember", "closing", "stopped", "gone"}
WithChild == {"placing", "sendingCommand", "sendingPayload", "handingToRoot",
              "handingToMember", "closing"}
Causes == {"abandon", "terminate", "close", "exit", "death", "heir"}

ControlOK == /\ pc \in Labels
             /\ cur \in IF pc \in WithChild THEN Children ELSE {NoChild}
             /\ todo \subseteq Children /\ lingering \subseteq Children

SessionOK == /\ started \in Seq(Children)
             /\ request \in {"none", "interactive", "noninteractive"}
             /\ settings \in [prompt : {"popup", "console"}, merge : BOOLEAN]
             /\ calls \in 0..MaxCalls
             /\ once \in BOOLEAN /\ snapshot \in BOOLEAN

KeptOK == /\ stage \in [Children -> {"idle", "suspended", "launched", "hosted",
                                    "closed", "unavailable"}]
          /\ policy \in [Children -> Policies]
          /\ keepOpen \in [Children -> BOOLEAN]
          /\ heir \in [Children -> Members \cup {"none"}]

ChannelOK == /\ pipe \in [Children -> {"none", "open", "closed"}]
             /\ asked \in [Children -> {"no", "sent", "refused"}]
             /\ wire \in [Children -> Seq({"invoke", "payload", "shutdown"})]

ChildOK == /\ hello \in [Children -> Policies \cup {"none", "unusable"}]
           /\ serving \in [Children -> {"unborn", "booting", "reading",
                                        "readingPayload", "leaving"}]

JobsOK == /\ alive \in [Children -> SUBSET Members]
          /\ holders \in [Children -> SUBSET (Members \cup {"main"})]
          /\ killOnClose \in [Children -> BOOLEAN]
          /\ forced \in [Children -> SUBSET Causes]

\* Every variable keeps its type, and a child is current exactly where the
\* code holds one.
TypeOK == /\ ControlOK /\ SessionOK /\ KeptOK /\ ChannelOK /\ ChildOK /\ JobsOK

\* A hosted component that declared "graceful" is never ended by Main: no
\* TerminateJobObject, no last job handle closed under it unless the process
\* it was handed to left in between, none at exit unless clearing the limit
\* failed (settle_job, handoff_job, force_terminate).
GracefulSpared ==
  \A c \in Children :
    stage[c] \in {"hosted", "closed"} /\ policy[c] = "graceful" =>
      /\ forced[c] \subseteq {"close", "exit", "death", "heir"}
      /\ "close" \in forced[c] => heir[c] \in Members \ alive[c]
      /\ "exit" \in forced[c] => MayFail(c)

\* Nothing a component started outlives the session unowned: each running
\* process tree hangs on Main, on a process of its own that was handed the job,
\* or on a job whose limit settle_job cleared.
Accounted ==
  \A c \in Children :
    alive[c] # {} /\ serving[c] # "unborn" =>
      \/ "main" \in holders[c] /\ pc # "gone"
      \/ holders[c] \cap alive[c] # {}
      \/ ~killOnClose[c] /\ keepOpen[c]

\* A component Main gave up on at startup has no process left, whether
\* terminate_job worked or not (abandon_child, start_owned_process).
RefusedLeaveNothing ==
  \A c \in Children : stage[c] = "unavailable" => alive[c] = {}

\* A force_allowed component is gone when shutdown is, even if every
\* TerminateJobObject on it failed (settle_job, close_child_handles).
ForceAllowedGone ==
  \A c \in Children :
    stage[c] = "closed" /\ policy[c] = "force_allowed" => alive[c] = {}

\* The request loop passes a child by only if an invoke has reset its pipe.
PassedBy(c) == asked[c] = "no" /\ pipe[c] = "open"

\* The logger is asked after every other child, so it outlives their last log
\* lines, and the one-shot merge never runs beside the hosted logger (phase two
\* of shutdown, logger_still_running).
LoggerLast ==
  /\ Logger \in StartedSet /\ asked[Logger] # "no" =>
       \A c \in StartedSet \ {Logger} : ~PassedBy(c)
  /\ once /\ Logger \in Children => RootGone(Logger)

\* TerminateJobObject hits a hosted child only under its own force_allowed
\* policy, and only after the child was asked to stop, or had lost its pipe.
ForcedOnlyAfterAsked ==
  [][\A c \in Children :
       "terminate" \in forced'[c] \ forced[c] =>
         /\ Hosted(c) /\ policy[c] = "force_allowed"
         /\ asked[c] # "no" \/ pipe[c] = "closed"]_vars

\* Once shutdown has begun it ends, or stands at the recovery prompt, however
\* the children behave: no child can hold Main (send_pipe_command_nowait and
\* the bounded waits).
EndsOrPrompts == pc = "asking" ~> pc \in {"choosing", "stopped", "gone"}

\* If the children keep reading their pipes, a request to close always ends
\* the session, also one that arrives while a key binding waits for a full
\* pipe, and every child the request reached leaves.
RequestEndsSession ==
  ChildrenCooperate =>
    /\ request # "none" ~> pc \in {"choosing", "stopped", "gone"}
    /\ \A c \in Children : asked[c] = "sent" ~> RootGone(c)

-----------------------------------------------------------------------------
(***************************************************************************)
(* The inductive invariant behind the safety properties above: how far     *)
(* Main's control is with each child, and who holds which job.             *)
(***************************************************************************)
Starting == {"launching", "placing", "collecting"}
Handing  == {"handingToRoot", "handingToMember"}

StageInv ==
  /\ pc \in Starting =>
       \A c \in Children : /\ c \in todo <=> stage[c] = "idle"
                           /\ stage[c] = "suspended" => pc = "placing" /\ c = cur
                           /\ stage[c] # "closed"
  /\ pc = "placing" => stage[cur] = "suspended"
  /\ pc \notin Starting \cup {"gone"} =>
       \A c \in Children : stage[c] \in {"hosted", "closed", "unavailable"}
  /\ pc \in Handing \cup {"closing"} => Hosted(cur)
  /\ pc \in Handing => policy[cur] = "graceful"
  /\ pc = "stopped" => \A c \in Children : ~Hosted(c)

HolderInv(c) ==
  /\ holders[c] \subseteq {"main"} \cup alive[c]
  /\ stage[c] = "idle" => alive[c] = {}
  /\ stage[c] \in {"idle", "suspended"} =>
       serving[c] = "unborn" /\ holders[c] = {} /\ forced[c] = {}
  /\ pc # "gone" /\ stage[c] = "launched" =>
       holders[c] = {"main"} /\ killOnClose[c] /\ forced[c] = {}
  /\ pc # "gone" /\ stage[c] = "hosted" => "main" \in holders[c]
  /\ stage[c] \in {"launched", "hosted", "closed"} => serving[c] # "unborn"
  /\ stage[c] = "closed" /\ "main" \in holders[c] => keepOpen[c]
  /\ stage[c] = "unavailable" => alive[c] = {} /\ holders[c] = {}
  /\ pc = "gone" => "main" \notin holders[c]

LimitInv(c) ==
  /\ serving[c] # "unborn" /\ alive[c] # {} /\ killOnClose[c] => holders[c] # {}
  /\ serving[c] # "unborn" /\ ~killOnClose[c] => keepOpen[c]
  /\ keepOpen[c] /\ killOnClose[c] => MayFail(c)
  /\ stage[c] \in {"idle", "suspended", "launched"} => ~keepOpen[c]
  /\ stage[c] = "hosted" /\ policy[c] = "force_allowed" =>
       ~keepOpen[c] /\ holders[c] \subseteq {"main"}
  /\ stage[c] = "closed" /\ policy[c] = "force_allowed" => alive[c] = {}

SparedInv(c) ==
  /\ pc = "closing" /\ cur = c /\ policy[c] = "graceful" /\ alive[c] # {}
       => keepOpen[c] \/ heir[c] \in Members
  /\ "close" \in forced[c] => alive[c] = {}
  /\ stage[c] \in {"hosted", "closed"} /\ policy[c] = "graceful" =>
       /\ forced[c] \subseteq {"close", "exit", "death", "heir"}
       /\ "close" \in forced[c] => heir[c] \in Members
       /\ "exit" \in forced[c] => MayFail(c)

\* Every hosted child is in started_children while Main lives.
StartedInv == pc # "gone" => \A c \in Children : Hosted(c) => c \in StartedSet

IInv == /\ StageInv
        /\ \A c \in Children : HolderInv(c) /\ LimitInv(c) /\ SparedInv(c)
\* How far the requests to stop have got: who has been asked or passed by, who
\* is in started_children, and when the one-shot merge may have been launched.
BeforeAsking == Starting \cup {"running", "sendingCommand", "sendingPayload"}
OthersAsked  == {"waiting", "resolving", "choosing", "forcing", "othersDone"}
AllAsked     == {"loggerWaiting", "merging", "settling", "closing"} \cup Handing
OtherChildren == StartedSet \ {Logger}

RequestInv ==
  /\ pc \in BeforeAsking => \A c \in Children : asked[c] = "no"
  /\ pc = "asking" =>
       todo \subseteq OtherChildren /\ \A c \in OtherChildren \ todo : ~PassedBy(c)
  /\ pc \in OthersAsked => \A c \in OtherChildren : ~PassedBy(c)
  /\ pc \in OthersAsked \cup {"asking"} /\ Logger \in Children => asked[Logger] = "no"
  /\ pc \in AllAsked => \A c \in StartedSet : ~PassedBy(c)

KeptInv ==
  /\ pc \in {"stopped", "gone"} => started = <<>>
  /\ \A c \in StartedSet : stage[c] \in {"hosted", "closed"} /\ pipe[c] # "none"
  /\ \A c \in Children : stage[c] \in {"suspended", "launched"} => pipe[c] # "none"
  /\ pc \in BeforeAsking \cup OthersAsked \cup {"asking", "loggerWaiting", "merging"} =>
       \A c \in Children : stage[c] # "closed"
  /\ pc \in BeforeAsking \cup {"asking", "waiting"} => lingering = {}
  /\ pc \in OthersAsked => lingering \subseteq OtherChildren
  /\ pc \in {"resolving", "forcing"} => todo \subseteq OtherChildren

MergeInv ==
  /\ once => pc \in (AllAsked \ {"loggerWaiting", "merging"}) \cup {"stopped", "gone"}
  /\ (once \/ pc = "merging") /\ Logger \in Children => RootGone(Logger)

AskInv == RequestInv /\ KeptInv /\ MergeInv

=============================================================================
