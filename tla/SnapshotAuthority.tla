-------------------------- MODULE SnapshotAuthority --------------------------
(***************************************************************************)
(* The snapshots of native taskbar positions (core/taskbar/taskbar.cxx):   *)
(* taskbar_ac.exe calculates them and publishes each, a generation, to     *)
(* every process that has connected to its snapshot pipe.  In that process *)
(* run the main thread, the server thread, at most one calculation and one *)
(* publisher for each connection; in a client, the thread that connects    *)
(* and disconnects and its listener.                                       *)
(*                                                                         *)
(* A snapshot is its generation.  Generations are taken only by whoever    *)
(* publishes next, so that next_generation is local + 1.  snapshot_mutex   *)
(* keeps only publishers from each other, which write nothing it guards,   *)
(* and authority_threads_mutex is free whenever the model's steps take it. *)
(***************************************************************************)
EXTENDS Naturals

CONSTANTS
  Clients,        \* connections, each made at most once
  MaxGeneration   \* bound: generations that are published

ASSUME BoundsAssumption == MaxGeneration \in Nat \ {0}

VARIABLES
  alive,        \* taskbar_ac.exe
  main,         \* where its main thread is
  running,      \* authority_running
  local,        \* generation of local_snapshot, 0 for none
  calc,         \* where the calculation thread is
  calculating,  \* calculation_running
  server,       \* where run_server is
  pub,          \* where each connection and its publisher are
  last,         \* last_generation of each publisher, set as it takes a snapshot
  wire,         \* the snapshot in each pipe, 0 for none
  client,       \* where the thread that connects and disconnects is
  listener,     \* where each client's listener is
  seen,         \* generation of each client's own local_snapshot
  missed,       \* history: publishers a notification went past as they entered the wait
  uncanceled    \* history: the cancellation came before the server's blocking call

calculation == <<calc, calculating>>
authority == <<alive, main, running, calculation, server>>
publishing == <<pub, last>>
clients == <<client, listener, seen>>
history == <<missed, uncanceled>>
data == <<local, publishing, wire, clients, history>>
vars == <<authority, data>>

Starting == {"start", "cached"}
Stopping == {"notify", "cancel", "joinServer", "joinCalc", "joinPublishers"}
MainPlaces == Starting \cup {"waits", "serving"} \cup Stopping \cup {"stopped"}
CalcPlaces == {"none", "measures", "notifies", "clears"}
ServerPlaces == {"none", "loop", "created", "connecting", "accepted", "ended"}
PublisherPlaces ==
  {"none", "accepted", "top", "entering", "waiting", "writing", "ended"}
ClientPlaces ==
  {"off", "opened", "up", "closing", "canceling", "joining", "down", "failed"}
ListenerPlaces == {"none", "top", "holds", "reading", "ended"}

Init ==
  /\ alive = TRUE /\ main = "start" /\ running = FALSE /\ local = 0
  /\ calc = "none" /\ calculating = FALSE /\ server = "none"
  /\ pub = [c \in Clients |-> "none"] /\ last = [c \in Clients |-> 0]
  /\ wire = [c \in Clients |-> 0]
  /\ client = [c \in Clients |-> "off"] /\ listener = [c \in Clients |-> "none"]
  /\ seen = [c \in Clients |-> 0] /\ missed = {} /\ uncanceled = FALSE

\* snapshot_changed.notify_all: who waits gets to look again.
NotifyAll ==
  /\ pub' = [c \in Clients |-> IF pub[c] = "waiting" THEN "top" ELSE pub[c]]
  /\ missed' = {c \in Clients : pub[c] = "entering"
                              \/ (c \in missed /\ pub[c] # "waiting")}

\* The client's end of the pipe is open.
Held(c) == client[c] \in {"opened", "up", "closing"}

-----------------------------------------------------------------------------
(***************************************************************************)
(* taskbar_ac.exe: its main thread.                                        *)
(***************************************************************************)

\* start_authority: the server begins.  With mode = cache and positions on disk
\* they are published, otherwise a calculation begins.
StartCached ==
  /\ alive /\ main = "start"
  /\ running' = TRUE /\ server' = "loop" /\ local' = 1
  /\ main' = "cached"
  /\ UNCHANGED <<alive, calculation, publishing, wire, clients, history>>

NotifyCached ==
  /\ alive /\ main = "cached"
  /\ NotifyAll /\ main' = "waits"
  /\ UNCHANGED <<alive, running, calculation, server, local, last, wire, clients, uncanceled>>

StartCalculated ==
  /\ alive /\ main = "start"
  /\ running' = TRUE /\ server' = "loop"
  /\ calculating' = TRUE /\ calc' = "measures"
  /\ main' = "waits"
  /\ UNCHANGED <<alive, data>>

\* wait_for_initial_snapshot, whose wait ends by its timeout if not before, and
\* returns whether there is a snapshot; then the hello to Main.
Ready ==
  /\ alive /\ main = "waits" /\ local # 0
  /\ main' = "serving"
  /\ UNCHANGED <<alive, running, calculation, server, data>>

\* refresh_taskbar_positions: request_refresh, then start_calculation, which
\* joins the thread that has left calculation_running FALSE.  A request during
\* a calculation returns without effect.
Refresh ==
  /\ alive /\ main = "serving" /\ running
  /\ ~calculating /\ local < MaxGeneration
  /\ calculating' = TRUE /\ calc' = "measures"
  /\ UNCHANGED <<alive, main, running, server, data>>

\* main returns, as it is asked to or because its control pipe, its first
\* snapshot or its hello fails: AuthorityGuard runs stop_authority.
StopBegins ==
  /\ alive /\ main \in {"waits", "serving"}
  /\ running' = FALSE /\ main' = "notify"
  /\ UNCHANGED <<alive, calculation, server, data>>

\* A bug for StopEndsUnlessMissed: nobody is told of the stop.
StopNotifiesNobody ==
  /\ alive /\ main = "notify"
  /\ main' = "cancel"
  /\ UNCHANGED <<alive, running, calculation, server, data>>

StopNotifies ==
  /\ alive /\ main = "notify"
  /\ NotifyAll /\ main' = "cancel"
  /\ UNCHANGED <<alive, running, calculation, server, local, last, wire, clients, uncanceled>>

\* CancelSynchronousIo finds the server in ConnectNamedPipe, or finds nothing.
StopCancels ==
  /\ alive /\ main = "cancel"
  /\ server' = (IF server = "connecting" THEN "loop" ELSE server)
  /\ uncanceled' = (server = "created")
  /\ main' = "joinServer"
  /\ UNCHANGED <<alive, running, calculation, local, publishing, wire, clients, missed>>

JoinServer ==
  /\ alive /\ main = "joinServer" /\ server = "ended"
  /\ main' = "joinCalc"
  /\ UNCHANGED <<alive, running, calculation, server, data>>

JoinCalculation ==
  /\ alive /\ main = "joinCalc" /\ calc = "none"
  /\ main' = "joinPublishers"
  /\ UNCHANGED <<alive, running, calculation, server, data>>

JoinPublishers ==
  /\ alive /\ main = "joinPublishers"
  /\ \A c \in Clients : pub[c] \in {"none", "ended"}
  /\ main' = "stopped"
  /\ UNCHANGED <<alive, running, calculation, server, data>>

\* Main's recovery, or anything else, ends the process.
Killed ==
  /\ alive /\ alive' = FALSE
  /\ UNCHANGED <<main, running, calculation, server, data>>

-----------------------------------------------------------------------------
(***************************************************************************)
(* taskbar_ac.exe: calculation, server and publishers.                     *)
(***************************************************************************)

\* calculate_and_publish.  One that fails publishes the configured positions.
Calculate ==
  /\ alive /\ calc = "measures"
  /\ local' = local + 1 /\ calc' = "notifies"
  /\ UNCHANGED <<alive, main, running, calculating, server, publishing, wire, clients, history>>

NotifyCalculated ==
  /\ alive /\ calc = "notifies"
  /\ NotifyAll /\ calc' = "clears"
  /\ UNCHANGED <<alive, main, running, calculating, server, local, last, wire, clients, uncanceled>>

EndCalculation ==
  /\ alive /\ calc = "clears"
  /\ calculating' = FALSE /\ calc' = "none"
  /\ UNCHANGED <<alive, main, running, server, data>>

\* run_server: an instance of the pipe, if the authority still runs.
CreatePipe ==
  /\ alive /\ server = "loop"
  /\ server' = (IF running THEN "created" ELSE "ended")
  /\ UNCHANGED <<alive, main, running, calculation, data>>

CreatePipeFails ==
  /\ alive /\ server = "loop" /\ running
  /\ server' = "ended"
  /\ UNCHANGED <<alive, main, running, calculation, data>>

\* The call to ConnectNamedPipe, which blocks.
Listen ==
  /\ alive /\ server = "created"
  /\ server' = "connecting"
  /\ UNCHANGED <<alive, main, running, calculation, data>>

StartPublisher(c) ==
  /\ alive /\ server = "accepted" /\ pub[c] = "accepted"
  /\ server' = "loop" /\ pub' = [pub EXCEPT ![c] = "top"]
  /\ UNCHANGED <<alive, main, running, calculation, local, last, wire, clients, history>>

\* ConnectNamedPipe finds that the client has gone since it opened the pipe.
DropClient(c) ==
  /\ alive /\ server = "accepted" /\ pub[c] = "accepted" /\ ~Held(c)
  /\ server' = "loop" /\ pub' = [pub EXCEPT ![c] = "ended"]
  /\ UNCHANGED <<alive, main, running, calculation, local, last, wire, clients, history>>

\* publish_to_client: the predicate of its wait.  Between the predicate and the
\* wait, "entering", a notification has no effect on it.
TakeSnapshot(c) ==
  /\ alive /\ pub[c] = "top" /\ running /\ local > last[c]
  /\ last' = [last EXCEPT ![c] = local]
  /\ pub' = [pub EXCEPT ![c] = "writing"]
  /\ UNCHANGED <<authority, local, wire, clients, history>>

FindNothing(c) ==
  /\ alive /\ pub[c] = "top" /\ running /\ local <= last[c]
  /\ pub' = [pub EXCEPT ![c] = "entering"]
  /\ UNCHANGED <<authority, local, last, wire, clients, history>>

Wait(c) ==
  /\ alive /\ pub[c] = "entering"
  /\ pub' = [pub EXCEPT ![c] = "waiting"]
  /\ UNCHANGED <<authority, local, last, wire, clients, history>>

\* A condition variable may wake without a notification.
WakeSpuriously(c) ==
  /\ alive /\ pub[c] = "waiting"
  /\ pub' = [pub EXCEPT ![c] = "top"]
  /\ missed' = missed \ {c}
  /\ UNCHANGED <<authority, local, last, wire, clients, uncanceled>>

\* write_snapshot: blocks while the pipe is full.
WriteSnapshot(c) ==
  /\ alive /\ pub[c] = "writing" /\ Held(c) /\ wire[c] = 0
  /\ wire' = [wire EXCEPT ![c] = last[c]]
  /\ pub' = [pub EXCEPT ![c] = "top"]
  /\ UNCHANGED <<authority, local, last, clients, history>>

\* The end of publish_to_client.  DisconnectNamedPipe drops what is not read.
EndPublisher(c) ==
  /\ alive
  /\ \/ pub[c] = "top" /\ ~running
     \/ pub[c] = "writing" /\ ~Held(c)
  /\ pub' = [pub EXCEPT ![c] = "ended"]
  /\ wire' = [wire EXCEPT ![c] = 0]
  /\ UNCHANGED <<authority, local, last, clients, history>>

-----------------------------------------------------------------------------
(***************************************************************************)
(* A client.                                                               *)
(***************************************************************************)

\* connect: connect_pipe opens a free instance, before or in ConnectNamedPipe.
Connect(c) ==
  /\ alive /\ client[c] = "off" /\ server \in {"created", "connecting"}
  /\ client' = [client EXCEPT ![c] = "opened"]
  /\ pub' = [pub EXCEPT ![c] = "accepted"]
  /\ server' = "accepted"
  /\ UNCHANGED <<alive, main, running, calculation, local, last, wire, listener, seen, history>>

\* Nothing more comes through the pipe.
Broken(c) == wire[c] = 0 /\ (pub[c] = "ended" \/ ~alive)

\* connect: its read of the first snapshot has no timeout.
ReadFirst(c) ==
  /\ client[c] = "opened" /\ wire[c] # 0
  /\ seen' = [seen EXCEPT ![c] = wire[c]]
  /\ wire' = [wire EXCEPT ![c] = 0]
  /\ client' = [client EXCEPT ![c] = "up"]
  /\ listener' = [listener EXCEPT ![c] = "top"]
  /\ UNCHANGED <<authority, local, publishing, history>>

ReadFirstFails(c) ==
  /\ client[c] = "opened" /\ Broken(c)
  /\ client' = [client EXCEPT ![c] = "failed"]
  /\ UNCHANGED <<authority, local, publishing, wire, listener, seen, history>>

\* The process with the client ends.
ClientDies(c) ==
  /\ client[c] \notin {"off", "down", "failed"}
  /\ client' = [client EXCEPT ![c] = "failed"]
  /\ listener' = [listener EXCEPT ![c] = "ended"]
  /\ UNCHANGED <<authority, local, publishing, wire, seen, history>>

\* listen_for_snapshots: client_running is still set, and the handle is read
\* under client_mutex; then ReadFile on it.
ListenerLoops(c) ==
  /\ listener[c] = "top"
  /\ listener' = [listener EXCEPT ![c] = IF client[c] = "up" THEN "holds" ELSE "ended"]
  /\ UNCHANGED <<authority, local, publishing, wire, client, seen, history>>

ListenerReads(c) ==
  /\ listener[c] = "holds"
  /\ listener' = [listener EXCEPT ![c] = IF Held(c) THEN "reading" ELSE "ended"]
  /\ UNCHANGED <<authority, local, publishing, wire, client, seen, history>>

\* A bug for CatchesUp: only a first snapshot is installed.
ListenerInstallsFirst(c) ==
  /\ listener[c] = "reading" /\ wire[c] # 0
  /\ seen' = [seen EXCEPT ![c] = IF @ = 0 THEN wire[c] ELSE @]
  /\ wire' = [wire EXCEPT ![c] = 0]
  /\ listener' = [listener EXCEPT ![c] = "top"]
  /\ UNCHANGED <<authority, local, publishing, client, history>>

ListenerInstalls(c) ==
  /\ listener[c] = "reading" /\ wire[c] # 0
  /\ seen' = [seen EXCEPT ![c] = IF wire[c] > @ THEN wire[c] ELSE @]
  /\ wire' = [wire EXCEPT ![c] = 0]
  /\ listener' = [listener EXCEPT ![c] = "top"]
  /\ UNCHANGED <<authority, local, publishing, client, history>>

ListenerEnds(c) ==
  /\ listener[c] = "reading" /\ Broken(c)
  /\ listener' = [listener EXCEPT ![c] = "ended"]
  /\ UNCHANGED <<authority, local, publishing, wire, client, seen, history>>

Canceled(c) == IF listener[c] = "reading" THEN "ended" ELSE listener[c]

\* disconnect: client_running is cleared and CancelIoEx called, the handle is
\* closed, CancelSynchronousIo called, the listener joined.
Disconnect(c) ==
  /\ client[c] = "up"
  /\ client' = [client EXCEPT ![c] = "closing"]
  /\ listener' = [listener EXCEPT ![c] = Canceled(c)]
  /\ UNCHANGED <<authority, local, publishing, wire, seen, history>>

CloseClientPipe(c) ==
  /\ client[c] = "closing"
  /\ client' = [client EXCEPT ![c] = "canceling"]
  /\ UNCHANGED <<authority, local, publishing, wire, listener, seen, history>>

\* A bug for DisconnectEnds: no CancelSynchronousIo before the join.
CancelListenerNot(c) ==
  /\ client[c] = "canceling"
  /\ client' = [client EXCEPT ![c] = "joining"]
  /\ UNCHANGED <<authority, local, publishing, wire, listener, seen, history>>

CancelListener(c) ==
  /\ client[c] = "canceling"
  /\ client' = [client EXCEPT ![c] = "joining"]
  /\ listener' = [listener EXCEPT ![c] = Canceled(c)]
  /\ UNCHANGED <<authority, local, publishing, wire, seen, history>>

JoinListener(c) ==
  /\ client[c] = "joining" /\ listener[c] = "ended"
  /\ client' = [client EXCEPT ![c] = "down"]
  /\ UNCHANGED <<authority, local, publishing, wire, listener, seen, history>>

-----------------------------------------------------------------------------
MainStep ==
  \/ StartCached \/ NotifyCached \/ StartCalculated \/ Ready
  \/ StopNotifies \/ StopCancels \/ JoinServer \/ JoinCalculation \/ JoinPublishers
CalculationStep == Calculate \/ NotifyCalculated \/ EndCalculation
ServerStep == CreatePipe \/ Listen \/ \E c \in Clients : StartPublisher(c)
PublisherStep(c) ==
  TakeSnapshot(c) \/ FindNothing(c) \/ Wait(c) \/ WriteSnapshot(c) \/ EndPublisher(c)
ConnectingStep(c) ==
  ReadFirst(c) \/ ReadFirstFails(c) \/ CloseClientPipe(c) \/ CancelListener(c) \/ JoinListener(c)
ListenerStep(c) ==
  ListenerLoops(c) \/ ListenerReads(c) \/ ListenerInstalls(c) \/ ListenerEnds(c)

\* What happens when someone else wants it, or by chance.
Occurs ==
  \/ Refresh \/ StopBegins \/ Killed \/ CreatePipeFails
  \/ \E c \in Clients : \/ DropClient(c) \/ WakeSpuriously(c)
                        \/ Connect(c) \/ Disconnect(c) \/ ClientDies(c)

Next ==
  \/ MainStep \/ CalculationStep \/ ServerStep \/ Occurs
  \/ \E c \in Clients : PublisherStep(c) \/ ConnectingStep(c) \/ ListenerStep(c)

Spec == Init /\ [][Next]_vars

\* Every thread goes on while it can.  A calculation is assumed to end, which is
\* up to Explorer.
FairSpec ==
  /\ Spec
  /\ WF_vars(MainStep) /\ WF_vars(CalculationStep) /\ WF_vars(ServerStep)
  /\ \A c \in Clients : /\ WF_vars(PublisherStep(c))
                        /\ WF_vars(ConnectingStep(c)) /\ WF_vars(ListenerStep(c))

-----------------------------------------------------------------------------
(***************************************************************************)
(* Properties.                                                             *)
(***************************************************************************)

\* The values of the variables.
TypeOK ==
  /\ alive \in BOOLEAN /\ main \in MainPlaces
  /\ running \in BOOLEAN /\ local \in 0..MaxGeneration
  /\ calc \in CalcPlaces /\ calculating \in BOOLEAN /\ server \in ServerPlaces
  /\ pub \in [Clients -> PublisherPlaces] /\ last \in [Clients -> 0..MaxGeneration]
  /\ wire \in [Clients -> 0..MaxGeneration]
  /\ client \in [Clients -> ClientPlaces] /\ listener \in [Clients -> ListenerPlaces]
  /\ seen \in [Clients -> 0..MaxGeneration]
  /\ missed \subseteq Clients /\ uncanceled \in BOOLEAN

\* When stop_authority returns, no thread of the authority is left: a client
\* that comes in during the stop gets no publisher behind the last join.
StopLeavesNoThread ==
  main = "stopped" =>
    /\ server = "ended" /\ calc = "none"
    /\ \A c \in Clients : pub[c] \in {"none", "ended"}

\* A publisher that is about to wait, or waits, although there is a snapshot to
\* send or the authority has stopped, will be notified, or a notification went
\* past it just before its wait.
WaitsInVainOnlyIfMissed ==
  \A c \in Clients :
    /\ pub[c] \in {"entering", "waiting"}
    /\ last[c] < local \/ ~running
    => \/ main \in {"cached", "notify"} \/ calc = "notifies"
       \/ c \in missed

\* A publisher that went to wait as the notification went past.
Missed(c) == pub[c] = "waiting" /\ c \in missed

\* A client that stays connected catches up with the authority again and again,
\* unless its publisher has missed a notification.
CatchesUp ==
  \A c \in Clients :
    <>[](alive /\ running /\ client[c] = "up") =>
      []<>(seen[c] = local) \/ <>[]Missed(c)

\* disconnect returns, wherever the listener is and whatever becomes of the
\* authority.
DisconnectEnds ==
  \A c \in Clients : client[c] = "closing" ~> client[c] \in {"down", "failed"}

\* stop_authority returns, unless a publisher has missed its notification or the
\* server began to listen behind the cancellation.
StopEndsUnlessMissed ==
  \/ main \in Stopping ~> (main = "stopped" \/ ~alive)
  \/ <>[](uncanceled /\ server = "connecting")
  \/ \E c \in Clients : <>[]Missed(c)

=============================================================================
