---------------------------- MODULE CrashRestart ----------------------------
(***************************************************************************)
(* Several auto_core.exe processes: the instance mutex and the crash       *)
(* prompt of main (main.cxx, check_for_previous_crash), and the exception  *)
(* filter that writes the crash marker, starts the next Auto Core and      *)
(* closes its own (crash_recovery.cxx).                                    *)
(*                                                                         *)
(* The filter runs on the thread that faulted, with the locks that thread  *)
(* holds, while the other threads of the process go on.  A process is      *)
(* modelled by its main thread, one other thread, and the pipe_mutex of    *)
(* one child (HostSession has the rest of the children).                   *)
(***************************************************************************)
EXTENDS Naturals

CONSTANTS
  Instances,  \* processes that may be started
  Nobody,     \* not one of them
  MaxFaults   \* bound: faults

ASSUME InstancesAssumption == Nobody \notin Instances
ASSUME BoundsAssumption == MaxFaults \in Nat

Threads == {"main", "other"}

VARIABLES
  main,      \* where the main thread of each process is
  filter,    \* where its threads are in unhandled_exception_handler
  claimed,   \* crash_recovery_claimed
  lock,      \* who holds pipe_mutex
  full,      \* the pipe is full and its component does not read
  quit,      \* WM_QUIT has been posted
  mutex,     \* owner of Local\AutoCore.main
  marker,    \* data/crash_reports/.crash exists
  unseen,    \* history: a crash was recorded that no user has acknowledged
  restarts,  \* history: the processes each filter started
  ended,     \* history: how a process came to an end
  faults

vars == <<main, filter, claimed, lock, full, quit, mutex, marker, unseen, restarts,
          ended, faults>>

Waiting == {"acquiring", "checking", "prompted", "passed"}
Working == {"starting", "looping", "invoking", "closing", "leaving"}
Places  == {"none", "gone"} \cup Waiting \cup Working
Steps   == {"none", "claimed", "marked", "spawned", "closing", "closed"}
Fates   == {"no", "returned", "declined", "failed", "fault", "restarted"}

Living(i) == main[i] \notin {"none", "gone"}
\* A thread in the filter does nothing else.
Runs(i) == filter[i]["main"] = "none"
At(i, place) == main[i] = place /\ Runs(i)

Init ==
  /\ main = [i \in Instances |-> "none"]
  /\ filter = [i \in Instances |-> [t \in Threads |-> "none"]]
  /\ claimed = [i \in Instances |-> FALSE]
  /\ lock = [i \in Instances |-> "free"]
  /\ full = [i \in Instances |-> FALSE]
  /\ quit = [i \in Instances |-> FALSE]
  /\ mutex = Nobody
  /\ marker \in BOOLEAN /\ unseen = marker
  /\ restarts = [i \in Instances |-> {}]
  /\ ended = [i \in Instances |-> "no"]
  /\ faults = 0

Move(i, place) == main' = [main EXCEPT ![i] = place]
Step(i, t, step) == filter' = [filter EXCEPT ![i][t] = step]

\* The end of a process ends its threads and abandons its mutex.
End(i, how) ==
  /\ main' = [main EXCEPT ![i] = "gone"]
  /\ filter' = [filter EXCEPT ![i] = [t \in Threads |-> "none"]]
  /\ ended' = [ended EXCEPT ![i] = how]
  /\ mutex' = IF mutex = i THEN Nobody ELSE mutex

-----------------------------------------------------------------------------
(***************************************************************************)
(* main().                                                                 *)
(***************************************************************************)
UserStarts(i) ==
  /\ main[i] = "none" /\ Move(i, "acquiring")
  /\ UNCHANGED <<filter, claimed, lock, full, quit, mutex, marker, unseen, restarts,
                 ended, faults>>

\* Seeded fault: a second process goes on after its wait.
AcquireAnyway(i) ==
  /\ At(i, "acquiring")
  /\ mutex' = i /\ Move(i, "checking")
  /\ UNCHANGED <<filter, claimed, lock, full, quit, marker, unseen, restarts, ended,
                 faults>>

\* acquire_instance_mutex waits without a limit, and takes an abandoned mutex.
Acquire(i) ==
  /\ At(i, "acquiring") /\ mutex = Nobody
  /\ mutex' = i /\ Move(i, "checking")
  /\ UNCHANGED <<filter, claimed, lock, full, quit, marker, unseen, restarts, ended,
                 faults>>

\* No mutex, no auto_core.ini, no logging: main returns 1.
StartFails(i) ==
  /\ At(i, "acquiring") \/ At(i, "checking")
  /\ faults < MaxFaults /\ faults' = faults + 1
  /\ End(i, "failed")
  /\ UNCHANGED <<claimed, lock, full, quit, marker, unseen, restarts>>

\* Seeded fault: the marker is removed before the user has been asked.
CheckMarkerRemoves(i) ==
  /\ At(i, "checking")
  /\ Move(i, IF marker THEN "prompted" ELSE "passed") /\ marker' = FALSE
  /\ UNCHANGED <<filter, claimed, lock, full, quit, mutex, unseen, restarts, ended,
                 faults>>

\* check_for_previous_crash: is there a marker?
CheckMarker(i) ==
  /\ At(i, "checking")
  /\ Move(i, IF marker THEN "prompted" ELSE "passed")
  /\ UNCHANGED <<filter, claimed, lock, full, quit, mutex, marker, unseen, restarts,
                 ended, faults>>

\* Yes; the marker may resist its removal.
AnswerYes(i) ==
  /\ At(i, "prompted") /\ Move(i, "passed")
  /\ \/ marker' = FALSE /\ UNCHANGED faults
     \/ faults < MaxFaults /\ faults' = faults + 1 /\ UNCHANGED marker
  /\ unseen' = FALSE
  /\ UNCHANGED <<filter, claimed, lock, full, quit, mutex, restarts, ended>>

AnswerNo(i) ==
  /\ At(i, "prompted") /\ End(i, "declined")
  /\ UNCHANGED <<claimed, lock, full, quit, marker, unseen, restarts, faults>>

\* enable_automatic_crash_recovery.
Enable(i) ==
  /\ At(i, "passed") /\ Move(i, "starting")
  /\ UNCHANGED <<filter, claimed, lock, full, quit, mutex, marker, unseen, restarts,
                 ended, faults>>

\* The hook, the children, the keymap.
Started(i) ==
  /\ At(i, "starting") /\ Move(i, "looping")
  /\ UNCHANGED <<filter, claimed, lock, full, quit, mutex, marker, unseen, restarts,
                 ended, faults>>

\* A key whose command goes to a component.
BeginInvoke(i) ==
  /\ At(i, "looping") /\ lock[i] = "free"
  /\ Move(i, "invoking") /\ lock' = [lock EXCEPT ![i] = "main"]
  /\ UNCHANGED <<filter, claimed, full, quit, mutex, marker, unseen, restarts, ended,
                 faults>>

\* The write waits as long as the pipe is full.
EndInvoke(i) ==
  /\ At(i, "invoking") /\ ~full[i]
  /\ Move(i, "looping") /\ lock' = [lock EXCEPT ![i] = "free"]
  /\ UNCHANGED <<filter, claimed, full, quit, mutex, marker, unseen, restarts, ended,
                 faults>>

ComponentStalls(i) ==
  /\ main[i] \in {"looping", "invoking"} /\ ~full[i]
  /\ full' = [full EXCEPT ![i] = TRUE]
  /\ UNCHANGED <<main, filter, claimed, lock, quit, mutex, marker, unseen, restarts,
                 ended, faults>>

\* A request to close, or a key bound to close_program.
CloseAsked(i) ==
  /\ At(i, "looping") /\ Move(i, "closing")
  /\ UNCHANGED <<filter, claimed, lock, full, quit, mutex, marker, unseen, restarts,
                 ended, faults>>

\* components::shutdown does not wait for a full pipe, but for pipe_mutex.
MainCloses(i) ==
  /\ At(i, "closing") /\ lock[i] = "free"
  /\ Move(i, "looping") /\ quit' = [quit EXCEPT ![i] = TRUE]
  /\ UNCHANGED <<filter, claimed, lock, full, mutex, marker, unseen, restarts, ended,
                 faults>>

\* The main thread uses started_children while the filter's thread shuts them
\* down; nothing guards the vector, and the outcome may be a second fault.
ShutdownsCollide(i) ==
  /\ At(i, "closing") \/ At(i, "invoking")
  /\ filter[i]["other"] = "closing"
  /\ End(i, "fault")
  /\ UNCHANGED <<claimed, lock, full, quit, marker, unseen, restarts, faults>>

QuitTaken(i) ==
  /\ At(i, "looping") /\ quit[i] /\ Move(i, "leaving")
  /\ UNCHANGED <<filter, claimed, lock, full, quit, mutex, marker, unseen, restarts,
                 ended, faults>>

\* After the joins of the helper threads.
MainReturns(i) ==
  /\ At(i, "leaving") /\ End(i, "returned")
  /\ UNCHANGED <<claimed, lock, full, quit, marker, unseen, restarts, faults>>

-----------------------------------------------------------------------------
(***************************************************************************)
(* unhandled_exception_handler.                                            *)
(***************************************************************************)

\* Seeded fault: every thread that faults restarts Auto Core.
FaultUnclaimed(i, t) ==
  /\ faults < MaxFaults /\ faults' = faults + 1
  /\ Living(i)
  /\ \/ /\ main[i] \in Working /\ filter[i][t] = "none"
        /\ claimed' = [claimed EXCEPT ![i] = TRUE] /\ Step(i, t, "claimed")
        /\ UNCHANGED <<main, mutex, ended>>
     \/ /\ main[i] \notin Working \/ filter[i][t] # "none"
        /\ End(i, "fault") /\ UNCHANGED claimed
  /\ UNCHANGED <<lock, full, quit, marker, unseen, restarts>>

\* A thread faults.  Before enable_automatic_crash_recovery that is the end of
\* the process, and so is a second fault.
Fault(i, t) ==
  /\ faults < MaxFaults /\ faults' = faults + 1
  /\ Living(i)
  /\ \/ /\ main[i] \in Working /\ ~claimed[i]
        /\ claimed' = [claimed EXCEPT ![i] = TRUE] /\ Step(i, t, "claimed")
        /\ UNCHANGED <<main, mutex, ended>>
     \/ /\ main[i] \notin Working \/ claimed[i]
        /\ End(i, "fault") /\ UNCHANGED claimed
  /\ UNCHANGED <<lock, full, quit, marker, unseen, restarts>>

WriteMarker(i, t) ==
  /\ filter[i][t] = "claimed" /\ Step(i, t, "marked")
  /\ marker' = TRUE /\ unseen' = TRUE
  /\ UNCHANGED <<main, claimed, lock, full, quit, mutex, restarts, ended, faults>>

\* The file may be there all the same; there is no restart.
MarkerFails(i, t) ==
  /\ filter[i][t] = "claimed" /\ faults < MaxFaults /\ faults' = faults + 1
  /\ marker' \in {marker, TRUE}
  /\ End(i, "fault")
  /\ UNCHANGED <<claimed, lock, full, quit, unseen, restarts>>

\* restart_program: CreateProcess.
Spawn(i, t, j) ==
  /\ filter[i][t] = "marked" /\ main[j] = "none"
  /\ Move(j, "acquiring") /\ Step(i, t, "spawned")
  /\ restarts' = [restarts EXCEPT ![i] = @ \cup {j}]
  /\ UNCHANGED <<claimed, lock, full, quit, mutex, marker, unseen, ended, faults>>

SpawnFails(i, t) ==
  /\ filter[i][t] = "marked" /\ faults < MaxFaults /\ faults' = faults + 1
  /\ End(i, "fault")
  /\ UNCHANGED <<claimed, lock, full, quit, marker, unseen, restarts>>

\* close_program_noninteractive waits for pipe_mutex in request_child_shutdown,
\* also for one that its own thread took before the fault.
FilterCloses(i, t) ==
  /\ filter[i][t] = "spawned" /\ lock[i] = "free"
  /\ Step(i, t, "closing")
  /\ UNCHANGED <<main, claimed, lock, full, quit, mutex, marker, unseen, restarts,
                 ended, faults>>

FilterClosed(i, t) ==
  /\ filter[i][t] = "closing" /\ Step(i, t, "closed")
  /\ quit' = [quit EXCEPT ![i] = TRUE]
  /\ UNCHANGED <<main, claimed, lock, full, mutex, marker, unseen, restarts, ended,
                 faults>>

\* Seeded fault: it waits for the main thread to leave its loop.
FilterExitsAfterMain(i, t) ==
  /\ filter[i][t] = "closed" /\ main[i] = "leaving" /\ End(i, "restarted")
  /\ UNCHANGED <<claimed, lock, full, quit, marker, unseen, restarts, faults>>

\* shutdown_logging; ExitProcess(1).
FilterExits(i, t) ==
  /\ filter[i][t] = "closed" /\ End(i, "restarted")
  /\ UNCHANGED <<claimed, lock, full, quit, marker, unseen, restarts, faults>>

-----------------------------------------------------------------------------
MainStep(i) ==
  \/ Acquire(i) \/ CheckMarker(i) \/ Enable(i) \/ Started(i)
  \/ EndInvoke(i) \/ MainCloses(i) \/ QuitTaken(i) \/ MainReturns(i)

ThreadFilters(i, t) ==
  \/ WriteMarker(i, t) \/ MarkerFails(i, t)
  \/ (\E j \in Instances : Spawn(i, t, j)) \/ SpawnFails(i, t)
  \/ FilterCloses(i, t) \/ FilterClosed(i, t) \/ FilterExits(i, t)

FilterStep(i) == \E t \in Threads : ThreadFilters(i, t)

Surroundings(i) ==
  \/ UserStarts(i) \/ StartFails(i) \/ AnswerYes(i) \/ AnswerNo(i)
  \/ BeginInvoke(i) \/ ComponentStalls(i) \/ CloseAsked(i) \/ ShutdownsCollide(i)
  \/ \E t \in Threads : Fault(i, t)

Next == \E i \in Instances : MainStep(i) \/ FilterStep(i) \/ Surroundings(i)

Spec == Init /\ [][Next]_vars

\* Windows runs every thread that can run, and a thread that waits for a
\* std::mutex gets it if it is let go again and again: keys come far apart.
\* Nothing makes a user answer, a key come, or a component read its pipe.
FairSpec ==
  /\ Spec
  /\ \A i \in Instances : WF_vars(MainStep(i)) /\ SF_vars(FilterStep(i))

-----------------------------------------------------------------------------
\* Who holds pipe_mutex is in invoke, or ended there.
TypeOK ==
  /\ main \in [Instances -> Places]
  /\ filter \in [Instances -> [Threads -> Steps]]
  /\ claimed \in [Instances -> BOOLEAN]
  /\ lock \in [Instances -> {"free", "main"}]
  /\ \A i \in Instances : lock[i] = "main" => main[i] \in {"invoking", "gone"}
  /\ full \in [Instances -> BOOLEAN] /\ quit \in [Instances -> BOOLEAN]
  /\ mutex \in Instances \cup {Nobody}
  /\ marker \in BOOLEAN /\ unseen \in BOOLEAN
  /\ restarts \in [Instances -> SUBSET Instances]
  /\ ended \in [Instances -> Fates]
  /\ faults \in 0..MaxFaults

\* One process at a time is past the mutex, from its start to its end: no crash
\* prompt and no second keyboard hook beside a running Auto Core.
OneAtATime ==
  \A i \in Instances :
    mutex = i <=> main[i] \in {"checking", "prompted", "passed"} \cup Working

\* A recorded crash is acknowledged by a user before an Auto Core installs its
\* hook again: whoever else was started meanwhile, whichever of the waiting
\* processes comes first, and however often the answer was No.
CrashAcknowledged ==
  [][\A i \in Instances : main[i] # "passed" /\ main'[i] = "passed" => ~unseen']_vars

\* However many threads fault, a process starts one successor.
OneSuccessor == \A i \in Instances : \A j, k \in restarts[i] : j = k

\* The lock that components::shutdown needs is held by a thread that cannot go on.
Blocked(i) == lock[i] = "main" /\ (full[i] \/ ~Runs(i))

\* A filter has just started another Auto Core.
Restarting ==
  \E i \in Instances : restarts[i] # {} /\ \E t \in Threads : filter[i][t] = "spawned"

\* Auto Core is asking whether to go on, or its successor met a fault of its own.
Asked ==
  \/ \E i \in Instances : main[i] = "prompted"
  \/ \E i, j \in Instances : j \in restarts[i] /\ ended[j] \in {"fault", "failed"}

\* An Auto Core that a filter started gets to its user, or another one that was
\* waiting does, unless the crashed process is blocked.
SuccessorAsks == Restarting ~> (Asked \/ \E i \in Instances : Blocked(i))

=============================================================================
