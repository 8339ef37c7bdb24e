--------------------------- MODULE EpisodeService ---------------------------
(***************************************************************************)
(* The journal's episode numbers (components/journal).  journal_ac.exe,    *)
(* the runtime, and journal_series.exe, a tool, each start journal_db.exe  *)
(* --serve and ask whichever instance holds the serve mutex, one short     *)
(* session for each call.  A service watches its owner (OwnerWatch of      *)
(* core/system/process.cxx) and cancels its own blocking calls when the    *)
(* owner has ended.  series.map names the active series; the cloud copy is *)
(* told the next number of a series after each title.                      *)
(*                                                                         *)
(* A call that only reads is one step; allocating and the calls that write *)
(* are steps between which either side may end.  The padding itself, the   *)
(* snapshot lines of series.map and the texts are left out.                *)
(***************************************************************************)
EXTENDS Naturals, Sequences

CONSTANTS
  Runtime,     \* the journal_ac.exe process
  Tools,       \* journal_series.exe processes
  Workers,     \* title workers of the runtime
  Services,    \* instances of journal_db.exe --serve, used again once ended
  Series,      \* names of series
  Seeded,      \* the series of a new database
  None,        \* no series, no process
  Counts,      \* counts a user enters
  MaxTitles,   \* bound: titles asked for
  MaxItems,    \* bound: menu items chosen in the tools
  MaxMishaps   \* bound: processes that die and calls that fail

Owners == {Runtime} \cup Tools
Clients == Workers \cup Tools

ASSUME NamesAssumption ==
  /\ Seeded \in Series /\ None \notin Series \cup Services \cup Owners \cup Clients
  /\ Runtime \notin Tools /\ Workers \cap Owners = {}
ASSUME BoundsAssumption ==
  /\ Counts \subseteq Nat
  /\ MaxTitles \in Nat /\ MaxItems \in Nat /\ MaxMishaps \in Nat

VARIABLES
  place,     \* where the main thread of each owner is
  child,     \* Service.process: the instance an owner created
  owns,      \* Service.owns_process
  ready,     \* Service.ready
  srv,       \* where the serve thread of each instance is
  owner,     \* the owner of each instance
  orphan,    \* whether that process has ended
  watch,     \* where the thread of its OwnerWatch is
  dead,      \* owner_dead
  stop,      \* the stop request of the session's dispatcher
  closing,   \* a shutdown request was served
  peer,      \* who is connected
  write,     \* the request being served and its open transaction
  rows,      \* the table series: names in the order of their ids
  count,     \* next_episode of each
  map,       \* the active series of series.map, None if it names none
  job,       \* where each title worker or menu item is
  key,       \* the series it is about
  number,    \* the count it asks for, or the number it was given
  reply,     \* the state of its request
  lock,      \* title_action_mutex
  cloud,     \* whether the cloud service is ready
  remote,    \* the count last pushed of each series, 0 for none
  given,     \* history: numbers handed out, and not freed by a count set back
  lowered,   \* history: series whose count was set back
  titles, items, mishaps

owning == <<place, child, owns, ready>>
watching == <<watch, dead, stop>>
serving == <<srv, owner, orphan, watching, closing, peer, write>>
stored == <<rows, count>>
asking == <<job, key, number, reply>>
titling == <<lock, cloud, remote>>
history == <<given, lowered, titles, items, mishaps>>
vars == <<owning, serving, stored, map, asking, titling, history>>

Live(s) == srv[s] # "ended"
InSession == {"attending", "reading", "working", "committed"}
Accepting(s) == srv[s] \in {"created", "listening"} /\ peer[s] = None
Exists(name) == \E i \in 1 .. Len(rows) : rows[i] = name
NoWrite == [kind |-> "none", series |-> None, to |-> 0]

Init ==
  /\ place = [o \in Owners |-> "out"] /\ child = [o \in Owners |-> None]
  /\ owns = [o \in Owners |-> FALSE] /\ ready = [o \in Owners |-> FALSE]
  /\ srv = [s \in Services |-> "ended"] /\ owner = [s \in Services |-> Runtime]
  /\ orphan = [s \in Services |-> FALSE] /\ watch = [s \in Services |-> "off"]
  /\ dead = [s \in Services |-> FALSE] /\ stop = [s \in Services |-> FALSE]
  /\ closing = [s \in Services |-> FALSE] /\ peer = [s \in Services |-> None]
  /\ write = [s \in Services |-> NoWrite]
  /\ rows = <<Seeded>> /\ count = [n \in Series |-> 1] /\ map = Seeded
  /\ job = [c \in Clients |-> "idle"] /\ key = [c \in Clients |-> None]
  /\ number = [c \in Clients |-> 0] /\ reply = [c \in Clients |-> "none"]
  /\ lock = None /\ cloud = TRUE /\ remote = [n \in Series |-> 0]
  /\ given = [n \in Series |-> {}] /\ lowered = {} /\ titles = 0 /\ items = 0 /\ mishaps = 0

Mishap == mishaps < MaxMishaps /\ mishaps' = mishaps + 1

(***************************************************************************)
(* What the end of a session or of an instance does to a client.           *)
(***************************************************************************)
Disconnected(s) ==
  /\ peer' = [peer EXCEPT ![s] = None]
  /\ write' = [write EXCEPT ![s] = NoWrite]
  /\ reply' = [c \in Clients |-> IF peer[s] = c /\ reply[c] = "sent"
                                 THEN "failed" ELSE reply[c]]

EndInstance(s) ==
  /\ srv' = [srv EXCEPT ![s] = "ended"]
  /\ watch' = [watch EXCEPT ![s] = "off"]
  /\ Disconnected(s)

EndSession(s) == srv' = [srv EXCEPT ![s] = "loop"] /\ Disconnected(s)

(***************************************************************************)
(* An owner: start_service and start_database, shutdown_service and        *)
(* stop_database.                                                          *)
(***************************************************************************)
CreateService(o) ==
  /\ place[o] = "out"
  /\ \E s \in Services :
       /\ ~Live(s) /\ \A p \in Owners : child[p] # s
       /\ child' = [child EXCEPT ![o] = s]
       /\ srv' = [srv EXCEPT ![s] = "loading"]
       /\ owner' = [owner EXCEPT ![s] = o]
       /\ orphan' = [orphan EXCEPT ![s] = FALSE]
       /\ dead' = [dead EXCEPT ![s] = FALSE]
       /\ stop' = [stop EXCEPT ![s] = FALSE]
       /\ closing' = [closing EXCEPT ![s] = FALSE]
  /\ place' = [place EXCEPT ![o] = "probing"]
  /\ UNCHANGED <<owns, ready, watch, peer, write, stored, map, asking, titling, history>>

(* What an owner does without a service: the runtime carries on, a tool    *)
(* returns from main.                                                      *)
WithoutService(o) == IF o = Runtime THEN "up" ELSE "exiting"

CreateFails(o) ==
  /\ place[o] = "out" /\ Mishap
  /\ place' = [place EXCEPT ![o] = WithoutService(o)]
  /\ UNCHANGED <<child, owns, ready, serving, stored, map, asking, titling,
                 given, lowered, titles, items>>

(* probe: any instance that accepts will do, while the one this owner      *)
(* created has not been seen to exit.                                      *)
Probe(o) ==
  /\ place[o] = "probing" /\ Live(child[o])
  /\ \E s \in Services : Accepting(s) /\ srv' = [srv EXCEPT ![s] = "loop"]
  /\ place' = [place EXCEPT ![o] = "probed"]
  /\ UNCHANGED <<child, owns, ready, owner, orphan, watching, closing, peer, write,
                 stored, map, asking, titling, history>>

(* The created instance has exited or five seconds are over.               *)
ProbeFails(o) ==
  /\ place[o] = "probing"
  /\ EndInstance(child[o])
  /\ child' = [child EXCEPT ![o] = None]
  /\ place' = [place EXCEPT ![o] = WithoutService(o)]
  /\ UNCHANGED <<owns, ready, owner, orphan, dead, stop, closing, stored, map,
                 job, key, number, titling, history>>

CheckExited(o) ==
  /\ place[o] = "probed"
  /\ owns' = [owns EXCEPT ![o] = Live(child[o])]
  /\ child' = [child EXCEPT ![o] = IF Live(child[o]) THEN @ ELSE None]
  /\ ready' = [ready EXCEPT ![o] = TRUE]
  /\ place' = [place EXCEPT ![o] = "up"]
  /\ UNCHANGED <<serving, stored, map, asking, titling, history>>

(* The client's mutex is not held by a worker in a call.                   *)
ServiceMutexFree(o) == o = Runtime => \A w \in Workers : job[w] # "asked"

BeginStop(o) ==
  /\ place[o] = "up" /\ ServiceMutexFree(o)
  /\ o \in Tools => job[o] = "idle"
  /\ place' = [place EXCEPT ![o] = IF ready[o] /\ owns[o] THEN "stopping" ELSE "exiting"]
  /\ child' = [child EXCEPT ![o] = IF ready[o] /\ owns[o] THEN @ ELSE None]
  /\ ready' = [ready EXCEPT ![o] = FALSE] /\ owns' = [owns EXCEPT ![o] = FALSE]
  /\ cloud' = (cloud /\ o # Runtime)
  /\ UNCHANGED <<serving, stored, map, asking, lock, remote, history>>

(* session::shutdown reaches whichever instance accepts.                   *)
AskShutdown(o) ==
  /\ place[o] = "stopping"
  /\ \E s \in Services : Accepting(s) /\ peer' = [peer EXCEPT ![s] = o]
  /\ place' = [place EXCEPT ![o] = "waiting"]
  /\ UNCHANGED <<child, owns, ready, srv, owner, orphan, watching, closing, write,
                 stored, map, asking, titling, history>>

ShutdownFails(o) ==
  /\ place[o] = "stopping" /\ ~\E s \in Services : Accepting(s)
  /\ place' = [place EXCEPT ![o] = "waiting"]
  /\ UNCHANGED <<child, owns, ready, serving, stored, map, asking, titling, history>>

(* Five seconds for the child to end, then TerminateProcess.               *)
WaitExit(o) ==
  /\ place[o] = "waiting"
  /\ \/ Live(child[o]) /\ EndInstance(child[o])
     \/ ~Live(child[o]) /\ UNCHANGED <<srv, watch, peer, write, reply>>
  /\ child' = [child EXCEPT ![o] = None]
  /\ place' = [place EXCEPT ![o] = "exiting"]
  /\ UNCHANGED <<owns, ready, owner, orphan, dead, stop, closing, stored, map,
                 job, key, number, titling, history>>

(* The process is gone, and what its threads held with it.                 *)
Gone(o) ==
  LET mine == {o} \cup IF o = Runtime THEN Workers ELSE {} IN
  /\ place' = [place EXCEPT ![o] = "gone"]
  /\ child' = [child EXCEPT ![o] = None]
  /\ orphan' = [s \in Services |-> orphan[s] \/ owner[s] = o]
  /\ peer' = [s \in Services |-> IF peer[s] \in mine THEN None ELSE peer[s]]
  /\ job' = [c \in Clients |-> IF c \in mine THEN "idle" ELSE job[c]]
  /\ reply' = [c \in Clients |-> IF c \in mine THEN "none" ELSE reply[c]]
  /\ lock' = IF o = Runtime THEN None ELSE lock
  /\ UNCHANGED <<owns, ready, srv, owner, watching, closing, write, stored, map,
                 key, number, cloud, remote, given, lowered, titles, items>>

Exit(o) == place[o] = "exiting" /\ Gone(o) /\ UNCHANGED mishaps
Die(o) == place[o] \notin {"out", "gone"} /\ Mishap /\ Gone(o)

(* The main thread of the owner: choices of its own, and steps it takes.   *)
OwnerSteps(o) ==
  \/ Probe(o) \/ ProbeFails(o) \/ CheckExited(o)
  \/ AskShutdown(o) \/ ShutdownFails(o) \/ WaitExit(o) \/ Exit(o)

(***************************************************************************)
(* run_serve: the serve thread of an instance.                             *)
(***************************************************************************)
HoldsMutex(s) == srv[s] \notin {"ended", "loading"}

(* The serve mutex, the store and the OwnerWatch.                          *)
Claim(s) ==
  /\ srv[s] = "loading"
  /\ \/ /\ \E r \in Services : HoldsMutex(r)
        /\ EndInstance(s)
     \/ /\ \A r \in Services : ~HoldsMutex(r)
        /\ srv' = [srv EXCEPT ![s] = "loop"]
        /\ watch' = [watch EXCEPT ![s] = "waiting"]
        /\ UNCHANGED <<peer, write, reply>>
  /\ UNCHANGED <<owning, owner, orphan, dead, stop, closing, stored, map,
                 job, key, number, titling, history>>

(* The head of the loop: end, or a new pipe for the next client.           *)
Loop(s) ==
  /\ srv[s] = "loop"
  /\ IF closing[s] \/ dead[s]
     THEN EndInstance(s)
     ELSE /\ srv' = [srv EXCEPT ![s] = "created"]
          /\ UNCHANGED <<watch, peer, write, reply>>
  /\ UNCHANGED <<owning, owner, orphan, dead, stop, closing, stored, map,
                 job, key, number, titling, history>>

Listen(s) ==
  /\ srv[s] = "created" /\ srv' = [srv EXCEPT ![s] = "listening"]
  /\ UNCHANGED <<owning, owner, orphan, watching, closing, peer, write,
                 stored, map, asking, titling, history>>

(* A client is connected and has said its protocol.  One that ends before  *)
(* is as if it had not come: the loop makes another pipe.                  *)
Greet(s) ==
  /\ srv[s] = "listening" /\ peer[s] # None
  /\ srv' = [srv EXCEPT ![s] = "attending"]
  /\ stop' = [stop EXCEPT ![s] = FALSE]
  /\ UNCHANGED <<owning, owner, orphan, watch, dead, closing, peer, write,
                 stored, map, asking, titling, history>>

(* CommandDispatcher::process between two commands.                        *)
Attend(s) ==
  /\ srv[s] = "attending"
  /\ \/ stop[s] /\ EndSession(s)
     \/ ~stop[s] /\ srv' = [srv EXCEPT ![s] = "reading"] /\ UNCHANGED <<peer, write, reply>>
  /\ UNCHANGED <<owning, owner, orphan, watching, closing, stored, map,
                 job, key, number, titling, history>>

(* A command is read: shutdown, or a request of which the key is read too. *)
Asking(c) == job[c] \in {"asked", "adding", "setting", "padding"}

Read(s) ==
  /\ srv[s] = "reading"
  /\ LET c == peer[s] IN
     \/ c = None /\ EndSession(s) /\ UNCHANGED closing
     \/ /\ c \in Owners /\ place[c] = "waiting"
        /\ closing' = [closing EXCEPT ![s] = TRUE]
        /\ EndSession(s)
     \/ /\ c \in Clients /\ reply[c] = "sent"
        /\ srv' = [srv EXCEPT ![s] = "working"]
        /\ write' = [write EXCEPT ![s] = [kind |-> job[c], series |-> key[c],
                                         to |-> number[c]]]
        /\ UNCHANGED <<closing, peer, reply>>
  /\ UNCHANGED <<owning, owner, orphan, watching, stored, map, job, key, number,
                 titling, history>>

(* resolve_series: an empty key is the row added last.                     *)
Resolve(name) == IF name = None THEN (IF rows = <<>> THEN None ELSE rows[Len(rows)])
                 ELSE IF Exists(name) THEN name ELSE None

(* The answer a request gets, and the end of the client's connection.      *)
Answer(s, what) ==
  /\ srv' = [srv EXCEPT ![s] = "attending"]
  /\ write' = [write EXCEPT ![s] = NoWrite]
  /\ peer' = [peer EXCEPT ![s] = None]
  /\ reply' = [c \in Clients |-> IF peer[s] = c /\ reply[c] = "sent" THEN what ELSE reply[c]]

(* What a request makes of the series it is about; no series: refused.     *)
AllocateEpisode(w) == LET n == Resolve(w.series) IN
  [series |-> n, to |-> IF n = None THEN 0 ELSE count[n] + 1]
AddSeries(w) == [series |-> IF Exists(w.series) THEN None ELSE w.series, to |-> 1]
SetCounter(w) == [series |-> Resolve(w.series), to |-> w.to]
SetPadding(w) == LET n == Resolve(w.series) IN
  [series |-> n, to |-> IF n = None THEN 0 ELSE count[n]]

Outcome(w) == CASE w.kind = "asked" -> AllocateEpisode(w)
                [] w.kind = "adding" -> AddSeries(w)
                [] w.kind = "setting" -> SetCounter(w)
                [] w.kind = "padding" -> SetPadding(w)


(* Mutant of Refuse: an error is logged and not reported.                  *)
RefuseSilently(s) ==
  /\ srv[s] = "working" /\ Outcome(write[s]).series = None
  /\ srv' = [srv EXCEPT ![s] = "attending"]
  /\ write' = [write EXCEPT ![s] = NoWrite]
  /\ UNCHANGED <<owning, owner, orphan, watching, closing, peer, stored, map,
                 asking, titling, history>>

(* An error that is reported, or the transaction from BEGIN IMMEDIATE to   *)
(* COMMIT: only the instance with the serve mutex writes.                  *)
Refuse(s) ==
  /\ srv[s] = "working" /\ Outcome(write[s]).series = None
  /\ Answer(s, IF write[s].kind = "adding" \/ write[s].series = None THEN "failed" ELSE "unknown")
  /\ UNCHANGED <<owning, owner, orphan, watching, closing, stored, map,
                 job, key, number, titling, history>>

Commit(s) ==
  /\ srv[s] = "working" /\ Outcome(write[s]).series # None
  /\ srv' = [srv EXCEPT ![s] = "committed"]
  /\ LET kind == write[s].kind  n == Outcome(write[s]).series  next == Outcome(write[s]).to IN
     /\ write' = [write EXCEPT ![s] = [kind |-> kind, series |-> n, to |-> next]]
     /\ rows' = IF kind = "adding" THEN Append(rows, n) ELSE rows
     /\ count' = [count EXCEPT ![n] = next]
     /\ given' = [given EXCEPT ![n] = IF kind = "setting" THEN {k \in @ : k < next} ELSE @]
     /\ lowered' = IF next < count[n] THEN lowered \cup {n} ELSE lowered
  /\ UNCHANGED <<owning, owner, orphan, watching, closing, peer, map,
                 asking, titling, titles, items, mishaps>>

CutShort(s) == Mishap \/ (watch[s] = "canceling" /\ UNCHANGED mishaps)


(* Mutant of CommitFails: the result of the COMMIT is not looked at.       *)
CommitUnchecked(s) ==
  /\ srv[s] = "working" /\ Outcome(write[s]).series # None /\ CutShort(s)
  /\ srv' = [srv EXCEPT ![s] = "committed"]
  /\ write' = [write EXCEPT ![s].series = Outcome(write[s]).series, ![s].to = Outcome(write[s]).to]
  /\ UNCHANGED <<owning, owner, orphan, watching, closing, peer, stored, map,
                 asking, titling, given, lowered, titles, items>>

(* A statement or the COMMIT fails, or is cancelled with the owner gone.   *)
CommitFails(s) ==
  /\ srv[s] = "working" /\ CutShort(s)
  /\ Answer(s, "failed")
  /\ UNCHANGED <<owning, owner, orphan, watching, closing, stored, map,
                 job, key, number, titling, given, lowered, titles, items>>

(* What was committed is reported; the number counts as handed out when    *)
(* the client has it.                                                      *)
Reply(s) ==
  /\ srv[s] = "committed"
  /\ Answer(s, "ok")
  /\ LET w == write[s]  c == peer[s] IN
     IF w.kind = "asked" /\ c # None
     THEN /\ key' = [key EXCEPT ![c] = w.series]
          /\ number' = [number EXCEPT ![c] = w.to - 1]
          /\ given' = [given EXCEPT ![w.series] = @ \cup {w.to - 1}]
     ELSE UNCHANGED <<key, number, given>>
  /\ UNCHANGED <<owning, owner, orphan, watching, closing, stored, map, job,
                 titling, lowered, titles, items, mishaps>>

(* A reply cancelled or cut ends the session: fail_pipe.                   *)
ReplyFails(s) ==
  /\ srv[s] = "committed" /\ CutShort(s)
  /\ EndSession(s)
  /\ UNCHANGED <<owning, owner, orphan, watching, closing, stored, map,
                 job, key, number, titling, given, lowered, titles, items>>

Crash(s) ==
  /\ Live(s) /\ Mishap
  /\ EndInstance(s)
  /\ UNCHANGED <<owning, owner, orphan, dead, stop, closing, stored, map,
                 job, key, number, titling, given, lowered, titles, items>>

ServeSteps(s) ==
  \/ Claim(s) \/ Loop(s) \/ Listen(s) \/ Greet(s) \/ Attend(s) \/ Read(s)
  \/ Refuse(s) \/ Commit(s) \/ Reply(s)

(***************************************************************************)
(* OwnerWatch: the thread of an instance that waits for its owner to end.  *)
(***************************************************************************)
(* on_owner_exit: owner_dead, and the dispatcher of the session, if any.   *)
Tell(s) ==
  /\ watch[s] = "waiting" /\ orphan[s]
  /\ dead' = [dead EXCEPT ![s] = TRUE]
  /\ watch' = [watch EXCEPT ![s] = IF srv[s] \in InSession THEN "stopping" ELSE "canceling"]
  /\ UNCHANGED <<owning, srv, owner, orphan, stop, closing, peer, write,
                 stored, map, asking, titling, history>>

(* request_stop on the dispatcher that was loaded: the session may be over *)
(* and the dispatcher destroyed, which is undefined: here nothing happens  *)
(* or the process ends.                                                    *)
StopDispatcher(s) ==
  /\ watch[s] = "stopping"
  /\ \/ /\ watch' = [watch EXCEPT ![s] = "canceling"]
        /\ stop' = [stop EXCEPT ![s] = (srv[s] \in InSession)]
        /\ UNCHANGED <<srv, peer, write, reply>>
     \/ srv[s] \notin InSession /\ EndInstance(s) /\ UNCHANGED stop
  /\ UNCHANGED <<owning, owner, orphan, dead, closing, stored, map,
                 job, key, number, titling, history>>


(* Mutant of Cancel: one cancellation, whether or not a call is blocked.   *)
CancelOnce(s) ==
  /\ watch[s] = "canceling"
  /\ CASE srv[s] = "listening" -> EndInstance(s)
       [] srv[s] = "reading" -> EndSession(s) /\ watch' = [watch EXCEPT ![s] = "off"]
       [] OTHER -> watch' = [watch EXCEPT ![s] = "off"] /\ UNCHANGED <<srv, peer, write, reply>>
  /\ UNCHANGED <<owning, owner, orphan, dead, stop, closing, stored, map,
                 job, key, number, titling, history>>

(* CancelSynchronousIo every 20 ms until the serve thread has ended: only  *)
(* a call that is blocked can be cancelled.                                *)
Cancel(s) ==
  /\ watch[s] = "canceling"
  /\ \/ srv[s] = "listening" /\ EndInstance(s)
     \/ srv[s] = "reading" /\ EndSession(s) /\ UNCHANGED watch
  /\ UNCHANGED <<owning, owner, orphan, dead, stop, closing, stored, map,
                 job, key, number, titling, history>>

WatchSteps(s) == Tell(s) \/ StopDispatcher(s) \/ Cancel(s)

(***************************************************************************)
(* A request of a client: connect and send, or no pipe within five seconds.*)
(***************************************************************************)
Connect(c) ==
  /\ Asking(c) /\ reply[c] = "none"
  /\ \E s \in Services : Accepting(s) /\ peer' = [peer EXCEPT ![s] = c]
  /\ reply' = [reply EXCEPT ![c] = "sent"]
  /\ UNCHANGED <<owning, srv, owner, orphan, watching, closing, write, stored, map,
                 job, key, number, titling, history>>

GiveUp(c) ==
  /\ Asking(c) /\ reply[c] = "none" /\ ~\E s \in Services : Accepting(s)
  /\ reply' = [reply EXCEPT ![c] = "failed"]
  /\ UNCHANGED <<owning, serving, stored, map, job, key, number, titling, history>>

(***************************************************************************)
(* A title worker of the runtime: start_title_action and episode_title.    *)
(***************************************************************************)
StartTitle(w) ==
  /\ place[Runtime] = "up" /\ job[w] = "idle" /\ titles < MaxTitles
  /\ titles' = titles + 1
  /\ job' = [job EXCEPT ![w] = "lock"]
  /\ UNCHANGED <<owning, serving, stored, map, key, number, reply, titling,
                 given, lowered, items, mishaps>>


(* Mutant of TakeLock: two titles at a time.                               *)
TakeNoLock(w) ==
  /\ job[w] = "lock"
  /\ job' = [job EXCEPT ![w] = "ask"] /\ key' = [key EXCEPT ![w] = map]
  /\ UNCHANGED <<owning, serving, stored, map, number, reply, titling, history>>

(* The lock, then read_active and choose_allocate: without a name, the     *)
(* empty key.                                                              *)
TakeLock(w) ==
  /\ job[w] = "lock" /\ lock = None
  /\ lock' = w /\ job' = [job EXCEPT ![w] = "ask"]
  /\ key' = [key EXCEPT ![w] = map]
  /\ UNCHANGED <<owning, serving, stored, map, number, reply, cloud, remote, history>>


EndTitle(w) ==
  /\ job' = [job EXCEPT ![w] = "idle"] /\ lock' = None
  /\ key' = [key EXCEPT ![w] = None] /\ number' = [number EXCEPT ![w] = 0]

(* The client's mutex is held by shutdown_service while it waits.          *)
Ask(w) ==
  /\ job[w] = "ask" /\ place[Runtime] \notin {"stopping", "waiting"}
  /\ IF ready[Runtime]
     THEN job' = [job EXCEPT ![w] = "asked"] /\ UNCHANGED <<lock, key, number>>
     ELSE EndTitle(w)
  /\ UNCHANGED <<owning, serving, stored, map, reply, cloud, remote, history>>

(* An unknown name is asked for again with the empty key.                  *)
Answered(w) ==
  /\ job[w] = "asked" /\ reply[w] \in {"ok", "unknown", "failed"}
  /\ reply' = [reply EXCEPT ![w] = "none"]
  /\ CASE reply[w] = "ok" -> job' = [job EXCEPT ![w] = "push"]
                              /\ UNCHANGED <<lock, key, number>>
       [] reply[w] = "unknown" -> /\ job' = [job EXCEPT ![w] = "ask"]
                                  /\ key' = [key EXCEPT ![w] = None]
                                  /\ UNCHANGED <<lock, number>>
       [] reply[w] = "failed" -> EndTitle(w)
  /\ UNCHANGED <<owning, serving, stored, map, cloud, remote, history>>

(* What journal_cloud.exe makes of a push: an HTTP error is reported, a    *)
(* broken pipe ends the use of the service.                                *)
CloudPush(name, next) ==
  \/ remote' = [remote EXCEPT ![name] = next] /\ UNCHANGED <<cloud, mishaps>>
  \/ Mishap /\ cloud' \in BOOLEAN /\ UNCHANGED remote

Push(w) ==
  /\ job[w] = "push"
  /\ IF cloud THEN CloudPush(key[w], number[w] + 1) ELSE UNCHANGED <<cloud, remote, mishaps>>
  /\ EndTitle(w)
  /\ UNCHANGED <<owning, serving, stored, map, reply, given, lowered, titles, items>>

WorkerSteps(w) == TakeLock(w) \/ Ask(w) \/ Answered(w) \/ Push(w)

(***************************************************************************)
(* The menu of a tool: select, add, count and refresh.                     *)
(***************************************************************************)
Choose(t) ==
  /\ place[t] = "up" /\ job[t] = "idle" /\ items < MaxItems
  /\ items' = items + 1
  /\ \/ \E n \in Series, what \in {"selecting", "adding", "updating"} :
          job' = [job EXCEPT ![t] = what] /\ key' = [key EXCEPT ![t] = n]
     \/ job' = [job EXCEPT ![t] = "resolve"] /\ UNCHANGED key
  /\ UNCHANGED <<owning, serving, stored, map, number, reply, titling,
                 given, lowered, titles, mishaps>>

Move(t, where, name, n) ==
  /\ job' = [job EXCEPT ![t] = where]
  /\ key' = [key EXCEPT ![t] = name] /\ number' = [number EXCEPT ![t] = n]
  /\ UNCHANGED <<owning, owner, orphan, watching, closing, peer, write, stored,
                 reply, titling, given, lowered, titles, items>>

(* Read-only requests, each a session of its own.                          *)
Requested == \E s \in Services : Accepting(s) /\ srv' = [srv EXCEPT ![s] = "loop"]
NotServed == ~(\E s \in Services : Accepting(s)) /\ UNCHANGED srv

(* The items: each finds the series it names before it goes on.  What a    *)
(* prompt returns is an input.                                             *)
SelectActive(t) ==
  /\ job[t] = "selecting" /\ UNCHANGED <<map, mishaps>>
  /\ \/ Requested /\ Exists(key[t]) /\ Move(t, "resolve", key[t], 0)
     \/ ((Requested /\ ~Exists(key[t])) \/ NotServed) /\ Move(t, "idle", None, 0)

(* A new series becomes active when auto_select_new_series says so.        *)
SelectNew(t) ==
  /\ job[t] = "created" /\ UNCHANGED <<map, mishaps>>
  /\ \/ Requested /\ \E n \in {key[t], None} : Move(t, "resolve", n, 0)
     \/ NotServed /\ Move(t, "resolve", None, 0)

UpdateSeries(t) ==
  /\ job[t] = "updating" /\ UNCHANGED <<map, mishaps>>
  /\ \/ /\ Requested /\ Exists(key[t])
        /\ \/ \E v \in Counts : Move(t, "setting", key[t], v)
           \/ Move(t, "padding", key[t], 0)
     \/ ((Requested /\ ~Exists(key[t])) \/ NotServed) /\ Move(t, "idle", None, 0)

(* The answer to add_series, set_counter or set_padding.                   *)
Written(t) ==
  /\ job[t] \in {"adding", "setting", "padding"} /\ reply[t] \in {"ok", "unknown", "failed"}
  /\ reply' = [reply EXCEPT ![t] = "none"] /\ number' = [number EXCEPT ![t] = 0]
  /\ IF reply[t] = "ok" /\ job[t] = "adding"
     THEN job' = [job EXCEPT ![t] = "created"] /\ UNCHANGED key
     ELSE /\ key' = [key EXCEPT ![t] = None]
          /\ job' = [job EXCEPT ![t] = IF reply[t] = "ok" THEN "resolve" ELSE "idle"]
  /\ UNCHANGED <<owning, serving, stored, map, titling, history>>

(* refresh_map: the name to keep, or the row added last; then the rows.    *)
Gather(t) ==
  /\ job[t] = "resolve" /\ UNCHANGED <<map, mishaps>>
  /\ LET candidate == IF key[t] = None THEN map ELSE key[t] IN
     \/ Requested /\ Move(t, "truncate", IF Exists(candidate) THEN candidate ELSE Resolve(None), 0)
     \/ NotServed /\ Move(t, "idle", None, 0)

(* write_map: the file is truncated when it is opened, then written.       *)
Truncate(t) ==
  /\ job[t] = "truncate" /\ UNCHANGED srv
  /\ \/ map' = None /\ Move(t, "write", key[t], 0) /\ UNCHANGED mishaps
     \/ Mishap /\ Move(t, "idle", None, 0) /\ UNCHANGED map

WriteMap(t) ==
  /\ job[t] = "write" /\ UNCHANGED <<srv, mishaps>>
  /\ map' = key[t] /\ Move(t, "idle", None, 0)

ToolSteps(t) ==
  SelectActive(t) \/ SelectNew(t) \/ UpdateSeries(t) \/ Written(t) \/ Gather(t) \/ Truncate(t) \/ WriteMap(t)

(* The user edits the active field of series.map.                          *)
EditActive ==
  /\ items < MaxItems /\ items' = items + 1
  /\ map' \in Series \cup {None}
  /\ UNCHANGED <<owning, serving, stored, asking, titling, given, lowered, titles, mishaps>>

Next ==
  \/ \E o \in Owners : CreateService(o) \/ CreateFails(o) \/ BeginStop(o)
                        \/ OwnerSteps(o) \/ Die(o)
  \/ \E s \in Services : ServeSteps(s) \/ WatchSteps(s)
                          \/ CommitFails(s) \/ ReplyFails(s) \/ Crash(s)
  \/ \E c \in Clients : Connect(c) \/ GiveUp(c)
  \/ \E w \in Workers : StartTitle(w) \/ WorkerSteps(w)
  \/ \E t \in Tools : Choose(t) \/ ToolSteps(t)
  \/ EditActive

Spec == Init /\ [][Next]_vars

(* What the processes do of themselves; what users and mishaps do is left  *)
(* open.                                                                   *)
Fairness ==
  /\ \A o \in Owners : WF_vars(OwnerSteps(o))
  /\ \A s \in Services : WF_vars(ServeSteps(s)) /\ WF_vars(WatchSteps(s))
  /\ \A c \in Clients : WF_vars(Connect(c) \/ GiveUp(c))
  /\ \A w \in Workers : WF_vars(WorkerSteps(w))
  /\ \A t \in Tools : WF_vars(ToolSteps(t))

FairSpec == Spec /\ Fairness

(***************************************************************************)
(* Properties.                                                             *)
(***************************************************************************)
TypeOK ==
  /\ place \in [Owners -> {"out", "probing", "probed", "up", "stopping", "waiting",
                           "exiting", "gone"}]
  /\ child \in [Owners -> Services \cup {None}]
  /\ owns \in [Owners -> BOOLEAN] /\ ready \in [Owners -> BOOLEAN]
  /\ srv \in [Services -> {"ended", "loading", "loop", "created", "listening"} \cup InSession]
  /\ owner \in [Services -> Owners] /\ orphan \in [Services -> BOOLEAN]
  /\ watch \in [Services -> {"off", "waiting", "stopping", "canceling"}]
  /\ dead \in [Services -> BOOLEAN] /\ stop \in [Services -> BOOLEAN]
  /\ closing \in [Services -> BOOLEAN]
  /\ peer \in [Services -> Clients \cup Owners \cup {None}]
  /\ rows \in Seq(Series) /\ count \in [Series -> Nat]
  /\ map \in Series \cup {None} /\ key \in [Clients -> Series \cup {None}]
  /\ number \in [Clients -> Nat] /\ lock \in Workers \cup {None}
  /\ \A w \in Workers : lock = w <=> job[w] \in {"ask", "asked", "push"}
  /\ cloud \in BOOLEAN /\ remote \in [Series -> Nat]
  /\ given \in [Series -> SUBSET Nat] /\ lowered \subseteq Series

(* The next number of a series is above every number a client was given,   *)
(* so none is given twice unless a user sets the count back: through lost  *)
(* replies, failed commits, crashes and several services.                  *)
AheadOfGiven == \A n \in Series : \A k \in given[n] : k < count[n]

(* The count in the cloud never falls, unless a user set the count back:   *)
(* the pushes of two title workers are not swapped.                        *)
RemoteFollows ==
  [][\A n \in Series \ lowered : remote'[n] >= remote[n]]_vars

(* An instance whose owner has ended ends: a blocking call it enters after *)
(* the first cancellation is cancelled as well.                            *)
ServiceFollowsOwner == \A s \in Services : (Live(s) /\ orphan[s]) ~> ~(Live(s) /\ orphan[s])

(* Every title and every item of a menu comes to its end: no client and    *)
(* service wait for each other.                                            *)
CallsEnd == \A c \in Clients : job[c] # "idle" ~> job[c] = "idle"

=============================================================================
