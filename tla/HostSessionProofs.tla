------------------------- MODULE HostSessionProofs -------------------------
(* What TLAPS proves of HostSession for every set of children, every choice *)
(* of logger, taskbar and faulty jobs, and every capacity.                  *)
EXTENDS HostSession, TLAPS

USE DEF control, session, kept, channel, child, jobs

(***************************************************************************)
(* Typing.                                                                 *)
(***************************************************************************)

LEMMA DropHandleType ==
  ASSUME JobsOK, NEW c \in Children, NEW p \in Members \cup {"main"},
         NEW survivors \in SUBSET Members, NEW cause \in Causes,
         DropHandle(c, p, survivors, cause)
  PROVE  JobsOK'
BY DEF JobsOK, DropHandle

LEMMA DropMainHandlesType ==
  ASSUME JobsOK, NEW cs \in SUBSET Children, NEW cause \in Causes,
         DropMainHandles(cs, cause)
  PROVE  JobsOK'
BY DEF JobsOK, DropMainHandles

LEMMA TerminateJobType ==
  ASSUME JobsOK, NEW c \in Children, TerminateJob(c)
  PROVE  JobsOK'
BY DEF JobsOK, TerminateJob, Causes

LEMMA ForceTerminateType ==
  ASSUME JobsOK, NEW c \in Children, NEW done \in BOOLEAN, ForceTerminate(c, done)
  PROVE  JobsOK'
<1>1. CASE TerminateJob(c) BY <1>1, TerminateJobType
<1>2. CASE UNCHANGED jobs BY <1>2 DEF JobsOK
<1> QED BY <1>1, <1>2 DEF ForceTerminate

LEMMA EmptyIsSeq == <<>> \in Seq(Children)
OBVIOUS

LEMMA InitType == Init => TypeOK
<1> SUFFICES ASSUME Init PROVE TypeOK OBVIOUS
<1> USE DEF Init
<1>1. ControlOK BY DEF ControlOK, Labels, WithChild
<1>2. SessionOK
  <2>1. started \in Seq(Children) BY EmptyIsSeq
  <2>2. calls \in 0..MaxCalls BY BoundsAssumption
  <2> QED BY <2>1, <2>2 DEF SessionOK
<1>3. KeptOK BY DEF KeptOK, Policies
<1>4. ChannelOK BY DEF ChannelOK
<1>5. ChildOK BY DEF ChildOK
<1>6. JobsOK BY DEF JobsOK
<1> QED BY <1>1, <1>2, <1>3, <1>4, <1>5, <1>6 DEF TypeOK

LEMMA LaunchType == TypeOK /\ Launch => TypeOK'
<1> SUFFICES ASSUME TypeOK, Launch PROVE TypeOK' OBVIOUS
<1> USE DEF TypeOK, ControlOK, SessionOK, KeptOK, ChannelOK, ChildOK, Labels,
      WithChild
<1>1. CASE PlaceInJob
  BY <1>1 DEF PlaceInJob, AfterPlacing, JobsOK
<1>2. CASE PlaceInJobFails
  BY <1>2 DEF PlaceInJobFails, AfterPlacing, JobsOK
<1>3. CASE LaunchedAll
  BY <1>3 DEF LaunchedAll, Goto, JobsOK
<1>4. CASE CollectedAll
  BY <1>4 DEF CollectedAll, Goto, JobsOK
<1>5. ASSUME NEW c \in Children, TryLaunchFails(c) PROVE TypeOK'
  BY <1>5 DEF TryLaunchFails, JobsOK
<1>6. ASSUME NEW c \in Children, StartSuspended(c) PROVE TypeOK'
  BY <1>6 DEF StartSuspended, JobsOK, Members
<1>7. ASSUME NEW c \in Children, AcceptHello(c) PROVE TypeOK'
  BY <1>7 DEF AcceptHello, JobsOK, Policies
<1>8. ASSUME NEW c \in Children, AbandonChild(c) PROVE TypeOK'
  <2>1. JobsOK'
    BY <1>8, DropHandleType DEF AbandonChild, JobsOK, Causes
  <2> QED BY <1>8, <2>1 DEF AbandonChild
<1> QED BY <1>1, <1>2, <1>3, <1>4, <1>5, <1>6, <1>7, <1>8 DEF Launch

LEMMA CallType == TypeOK /\ Call => TypeOK'
<1> SUFFICES ASSUME TypeOK, Call PROVE TypeOK' OBVIOUS
<1> USE DEF TypeOK, ControlOK, SessionOK, KeptOK, ChannelOK, ChildOK, Labels,
      WithChild, JobsOK
<1>1. CASE SendCommand BY <1>1 DEF SendCommand, WriteRequest
<1>2. CASE SendPayload BY <1>2 DEF SendPayload, WriteRequest
<1>3. CASE InvokeFails BY <1>3 DEF InvokeFails
<1> QED BY <1>1, <1>2, <1>3 DEF Call

LEMMA StartedType == SessionOK => StartedSet \subseteq Children
BY DEF SessionOK, StartedSet

LEMMA LingeringType ==
  ASSUME NEW cs \in SUBSET Children, NEW l \in LingeringAmong(cs)
  PROVE  l \subseteq Children
BY DEF LingeringAmong

LEMMA RequestType ==
  ASSUME ChannelOK, NEW c \in Children, RequestChildShutdown(c)
  PROVE  ChannelOK'
<1>1. Append(wire[c], "shutdown") \in Seq({"invoke", "payload", "shutdown"})
  BY DEF ChannelOK
<1> QED BY <1>1 DEF ChannelOK, RequestChildShutdown

LEMMA ShutdownType == TypeOK /\ Shutdown => TypeOK'
<1> SUFFICES ASSUME TypeOK, Shutdown PROVE TypeOK' OBVIOUS
<1> USE DEF TypeOK, ControlOK, SessionOK, KeptOK, ChildOK, Labels, WithChild
<1>1. CASE AskedAll BY <1>1 DEF AskedAll, Goto, JobsOK, ChannelOK
<1>2. CASE WaitEnds
  <2>1. StartedSet \ {Logger} \in SUBSET Children BY StartedType
  <2>2. lingering' \subseteq Children /\ todo' \subseteq Children
    BY <1>2, <2>1, LingeringType DEF WaitEnds
  <2> QED BY <1>2, <2>2 DEF WaitEnds, JobsOK, ChannelOK
<1>3. CASE ResolvedAll BY <1>3 DEF ResolvedAll, Goto, JobsOK, ChannelOK
<1>4. CASE ForcedAll BY <1>4 DEF ForcedAll, Goto, JobsOK, ChannelOK
<1>5. CASE AskLogger
  <2>1. Logger \in Children BY <1>5, StartedType DEF AskLogger
  <2>2. ChannelOK' BY <1>5, <2>1, RequestType DEF AskLogger
  <2> QED BY <1>5, <2>2 DEF AskLogger, Goto, JobsOK
<1>6. CASE LoggerWaitEnds BY <1>6 DEF LoggerWaitEnds, Goto, JobsOK, ChannelOK
<1>7. CASE LaunchMergeOnce BY <1>7 DEF LaunchMergeOnce, Goto, JobsOK, ChannelOK
<1>8. CASE HandOffFails BY <1>8 DEF HandOffFails, HandoffTargets, JobsOK, ChannelOK, Readings
<1>9. CASE CloseChildHandles
  <2>1. JobsOK'
    <3>1. alive[cur] \in SUBSET Members BY <1>9 DEF CloseChildHandles, JobsOK
    <3>2. CASE UNCHANGED jobs BY <3>2 DEF JobsOK
    <3>3. CASE DropHandle(cur, "main", alive[cur], "close")
      BY <1>9, <3>1, <3>3, DropHandleType DEF CloseChildHandles, Causes
    <3> QED BY <1>9, <3>2, <3>3 DEF CloseChildHandles
  <2> QED BY <1>9, <2>1 DEF CloseChildHandles, ChannelOK
<1>10. CASE ShutdownComplete
  BY <1>10 DEF ShutdownComplete, Goto, JobsOK, ChannelOK
<1>11. ASSUME NEW p \in Members, HandOff(p) PROVE TypeOK'
  BY <1>11 DEF HandOff, HandoffTargets, JobsOK, ChannelOK
<1>12. ASSUME NEW c \in Children, AskChild(c) PROVE TypeOK'
  <2>1. ChannelOK' BY <1>12, RequestType DEF AskChild
  <2> QED BY <1>12, <2>1 DEF AskChild, JobsOK
<1>13. ASSUME NEW c \in Children, ResolveForceAllowed(c) PROVE TypeOK'
  <2>1. JobsOK'
    <3>1. CASE UNCHANGED jobs BY <3>1 DEF JobsOK
    <3> QED BY <1>13, <3>1, ForceTerminateType DEF ResolveForceAllowed
  <2>2. lingering' \subseteq Children BY <1>13 DEF ResolveForceAllowed
  <2> QED BY <1>13, <2>1, <2>2 DEF ResolveForceAllowed, ChannelOK
<1>14. ASSUME NEW c \in Children, ForceEligible(c) PROVE TypeOK'
  <2>1. JobsOK'
    <3>1. CASE UNCHANGED jobs BY <3>1 DEF JobsOK
    <3> QED BY <1>14, <3>1, ForceTerminateType DEF ForceEligible
  <2> QED BY <1>14, <2>1 DEF ForceEligible, ChannelOK
<1>15. ASSUME NEW c \in Children, SettleEmpty(c) PROVE TypeOK'
  BY <1>15 DEF SettleEmpty, Settle, JobsOK, ChannelOK
<1>16. ASSUME NEW c \in Children, SettleForceAllowed(c) PROVE TypeOK'
  <2>1. JobsOK'
    <3>1. CASE UNCHANGED jobs BY <3>1 DEF JobsOK
    <3> QED BY <1>16, <3>1, TerminateJobType DEF SettleForceAllowed
  <2> QED BY <1>16, <2>1 DEF SettleForceAllowed, Settle, ChannelOK
<1>17. ASSUME NEW c \in Children, SettleGraceful(c) PROVE TypeOK'
  BY <1>17 DEF SettleGraceful, Settle, JobsOK, ChannelOK
<1> QED BY <1>1, <1>2, <1>3, <1>4, <1>5, <1>6, <1>7, <1>8, <1>9, <1>10, <1>11,
      <1>12, <1>13, <1>14, <1>15, <1>16, <1>17 DEF Shutdown

LEMMA EndsType ==
  ASSUME TypeOK, NEW cause \in Causes, MainEnds(cause)
  PROVE  TypeOK'
<1>1. JobsOK' BY DropMainHandlesType DEF MainEnds, TypeOK
<1> QED BY <1>1, EmptyIsSeq DEF MainEnds, TypeOK, ControlOK, SessionOK, KeptOK, ChannelOK,
      ChildOK, Labels, WithChild

LEMMA UserType == TypeOK /\ User => TypeOK'
<1> SUFFICES ASSUME TypeOK, User PROVE TypeOK' OBVIOUS
<1> USE DEF TypeOK, ControlOK, SessionOK, KeptOK, ChannelOK, ChildOK, JobsOK,
      Labels, WithChild
<1>1. ASSUME NEW c \in Children, Invoke(c) PROVE TypeOK'
  BY <1>1, BoundsAssumption DEF Invoke
<1>2. ASSUME NEW mode \in {"interactive", "noninteractive"}, AskToClose(mode)
      PROVE TypeOK'
  BY <1>2 DEF AskToClose
<1>3. CASE PromptLeaveRunning BY <1>3 DEF PromptLeaveRunning, Goto
<1>4. CASE PromptForce BY <1>4 DEF PromptForce
<1>5. CASE PromptContinue
  <2>1. StartedSet \ {Logger} \in SUBSET Children BY StartedType
  <2>2. PICK l \in LingeringAmong(StartedSet \ {Logger}) :
            lingering' = l /\ pc' = IF l = {} THEN "othersDone" ELSE "choosing"
    BY <1>5 DEF PromptContinue
  <2>3. l \subseteq Children BY <2>1, LingeringType
  <2> QED BY <1>5, <2>2, <2>3 DEF PromptContinue
<1> QED BY <1>1, <1>2, <1>3, <1>4, <1>5 DEF User

LEMMA ProcessEndsType ==
  ASSUME TypeOK, NEW c \in Children, NEW p \in Members, ProcessEnds(c, p)
  PROVE  TypeOK'
<1>1. alive[c] \ {p} \in SUBSET Members BY DEF TypeOK, JobsOK
<1>2. JobsOK' BY <1>1, DropHandleType DEF ProcessEnds, TypeOK, Causes
<1> QED BY <1>2 DEF ProcessEnds, TypeOK, ControlOK, SessionOK, KeptOK, ChannelOK,
      ChildOK

LEMMA ChildType == ASSUME TypeOK, NEW c \in Children, Child(c) \/ World(c)
                   PROVE  TypeOK'
<1> USE DEF TypeOK, ControlOK, SessionOK, KeptOK, ChannelOK, ChildOK
<1>1. ASSUME NEW h \in Policies \cup {"unusable"}, SendHello(c, h) PROVE TypeOK'
  BY <1>1 DEF SendHello, JobsOK
<1>2. CASE ReadRequest(c) BY <1>2 DEF ReadRequest, JobsOK
<1>3. CASE ReadPayload(c) BY <1>3 DEF ReadPayload, JobsOK
<1>4. CASE PipeBroken(c) BY <1>4 DEF PipeBroken, JobsOK
<1>5. CASE Leave(c) BY <1>5, ProcessEndsType DEF Leave, Members
<1>6. ASSUME NEW p \in Members, Crash(c, p) PROVE TypeOK'
  BY <1>6, ProcessEndsType DEF Crash
<1>7. CASE SpawnHelper(c) BY <1>7 DEF SpawnHelper, JobsOK, Members
<1> QED BY <1>1, <1>2, <1>3, <1>4, <1>5, <1>6, <1>7 DEF Child, World

LEMMA NextType == TypeOK /\ [Next]_vars => TypeOK'
<1> SUFFICES ASSUME TypeOK, [Next]_vars PROVE TypeOK' OBVIOUS
<1> USE DEF TypeOK, ControlOK, SessionOK, KeptOK, ChannelOK, ChildOK, JobsOK,
      Labels, WithChild
<1>1. CASE BeginShutdown
  BY <1>1, StartedType DEF BeginShutdown, Goto
<1>2. CASE PromptAllExited BY <1>2 DEF PromptAllExited, Goto
<1>3. CASE MainExits BY <1>3, EndsType DEF MainExits, Causes
<1>4. CASE MainDies BY <1>4, EndsType DEF MainDies, Causes
<1>5. CASE UNCHANGED vars BY <1>5 DEF vars
<1> QED BY <1>1, <1>2, <1>3, <1>4, <1>5, LaunchType, CallType, ShutdownType,
      UserType, ChildType DEF Next

\* Typing of every reachable state.
THEOREM TypeCorrect == Spec => []TypeOK
<1> QED BY InitType, NextType, PTL DEF Spec

(***************************************************************************)
(* The inductive invariant.                                                *)
(***************************************************************************)

LEMMA InitInv == Init => IInv
BY DEF Init, IInv, StageInv, HolderInv, LimitInv, SparedInv, Starting, Handing

\* Main's thread in the middle of the session, no child in its hands.
Midway == pc \notin Starting \cup Handing \cup {"gone", "closing"}

\* Steps that leave jobs and Main's view of the children alone.
LEMMA QuietStep ==
  ASSUME TypeOK, IInv, UNCHANGED <<kept, jobs>>,
         \A c \in Children : serving'[c] = "unborn" <=> serving[c] = "unborn",
         UNCHANGED control
           \/ (Midway /\ Midway' /\ (pc' = "stopped" => \A c \in Children : ~Hosted(c)))
  PROVE  IInv'
<1>1. StageInv'
  <2>1. CASE UNCHANGED control BY <2>1 DEF StageInv, IInv, Hosted
  <2>2. CASE ~UNCHANGED control
    BY <2>2 DEF StageInv, IInv, Hosted, Midway, Starting, Handing
  <2> QED BY <2>1, <2>2
<1>2. ASSUME NEW c \in Children PROVE HolderInv(c)' /\ LimitInv(c)' /\ SparedInv(c)'
  <2>1. pc' = "gone" <=> pc = "gone" BY DEF Midway
  <2>2. HolderInv(c)' BY <2>1 DEF IInv, HolderInv
  <2>3. LimitInv(c)' BY DEF IInv, LimitInv
  <2>4. SparedInv(c)' BY DEF IInv, SparedInv, Midway
  <2> QED BY <2>2, <2>3, <2>4
<1> QED BY <1>1, <1>2 DEF IInv

LEMMA NextIsIdle ==
  ASSUME IInv, NEW c \in Children, pc = "launching", NextLaunch(c)
  PROVE  stage[c] = "idle"
<1>1. StageInv /\ pc \in Starting BY DEF IInv, Starting
<1>2. c \in todo <=> stage[c] = "idle" BY <1>1 DEF StageInv
<1> QED BY <1>2 DEF NextLaunch

LEMMA CollectedStages ==
  ASSUME TypeOK, IInv, CollectedAll
  PROVE  /\ \A c \in Children : stage[c] \notin {"suspended", "launched", "closed"}
         /\ pc' = "running" => \A c \in Children : stage[c] # "idle"
<1>1. pc = "collecting" /\ UNCHANGED todo /\ (pc' = "running" => todo = {})
  BY DEF CollectedAll, Goto
<1>2. StageInv BY DEF IInv
<1>3. \A c \in Children : stage[c] # "launched" BY DEF CollectedAll, InFlight
<1>4. \A c \in Children : /\ c \in todo <=> stage[c] = "idle"
                          /\ stage[c] = "suspended" => pc = "placing" /\ c = cur
                          /\ stage[c] # "closed"
  BY <1>1, <1>2 DEF StageInv, Starting
<1> QED BY <1>1, <1>3, <1>4

LEMMA LaunchInv == ASSUME TypeOK, IInv, Launch PROVE IInv'
<1> USE DEF IInv, StageInv, HolderInv, LimitInv, SparedInv, Starting, Handing,
      Hosted, TypeOK, ControlOK, KeptOK, ChildOK, JobsOK, Labels, WithChild
<1>1. CASE PlaceInJob BY <1>1 DEF PlaceInJob, AfterPlacing
<1>2. CASE PlaceInJobFails BY <1>2 DEF PlaceInJobFails, AfterPlacing
<1>3. CASE LaunchedAll BY <1>3 DEF LaunchedAll, Goto
<1>4. CASE CollectedAll
  <2>3. StageInv' BY <1>4, CollectedStages DEF CollectedAll, Goto
  <2>4. \A c \in Children : (HolderInv(c) /\ LimitInv(c) /\ SparedInv(c))'
    BY <1>4 DEF CollectedAll, Goto
  <2> QED BY <2>3, <2>4
<1>5. ASSUME NEW c \in Children, TryLaunchFails(c) PROVE IInv'
  <2>1. pc = "launching" /\ stage[c] = "idle" BY <1>5, NextIsIdle DEF TryLaunchFails
  <2>2. StageInv' BY <1>5, <2>1 DEF TryLaunchFails
  <2>3. ASSUME NEW d \in Children
        PROVE  (HolderInv(d) /\ LimitInv(d) /\ SparedInv(d))'
    BY <1>5, <2>1 DEF TryLaunchFails
  <2> QED BY <2>2, <2>3
<1>6. ASSUME NEW c \in Children, StartSuspended(c) PROVE IInv'
  <2>1. pc = "launching" /\ stage[c] = "idle" BY <1>6, NextIsIdle DEF StartSuspended
  <2>2. StageInv' BY <1>6, <2>1 DEF StartSuspended
  <2>3. ASSUME NEW d \in Children
        PROVE  (HolderInv(d) /\ LimitInv(d) /\ SparedInv(d))'
    BY <1>6, <2>1 DEF StartSuspended
  <2> QED BY <2>2, <2>3
<1>7. ASSUME NEW c \in Children, AcceptHello(c) PROVE IInv'
  BY <1>7 DEF AcceptHello, InFlight, Policies
<1>8. ASSUME NEW c \in Children, AbandonChild(c) PROVE IInv'
  BY <1>8 DEF AbandonChild, InFlight, DropHandle
<1> QED BY <1>1, <1>2, <1>3, <1>4, <1>5, <1>6, <1>7, <1>8 DEF Launch

LEMMA CallInv == ASSUME TypeOK, IInv, Call PROVE IInv'
<1>1. UNCHANGED <<kept, jobs>> /\ UNCHANGED serving /\ Midway /\ Midway'
      /\ pc' # "stopped"
  BY DEF Call, SendCommand, SendPayload, WriteRequest, InvokeFails, Midway,
     Starting, Handing
<1> QED BY <1>1, QuietStep

LEMMA UserInv == ASSUME TypeOK, IInv, User PROVE IInv'
<1>1. ASSUME NEW c \in Children, Invoke(c) PROVE IInv'
  BY <1>1, QuietStep DEF Invoke, Midway, Starting, Handing
<1>2. ASSUME NEW mode \in {"interactive", "noninteractive"}, AskToClose(mode)
      PROVE IInv'
  BY <1>2, QuietStep DEF AskToClose
<1>3. CASE PromptLeaveRunning
  BY <1>3, QuietStep DEF PromptLeaveRunning, Goto, Midway, Starting, Handing
<1>4. CASE PromptForce
  BY <1>4, QuietStep DEF PromptForce, Midway, Starting, Handing
<1>5. CASE PromptContinue
  BY <1>5, QuietStep DEF PromptContinue, Midway, Starting, Handing
<1> QED BY <1>1, <1>2, <1>3, <1>4, <1>5 DEF User

\* TerminateJobObject on a hosted force_allowed child.
LEMMA TerminateStep ==
  ASSUME TypeOK, IInv, NEW c \in Children, TerminateJob(c), UNCHANGED <<kept, child>>,
         Hosted(c), policy[c] = "force_allowed", StageInv', pc # "gone", pc' # "gone",
         pc' = "closing" => cur' = c
  PROVE  IInv'
<1>1. ASSUME NEW d \in Children PROVE (HolderInv(d) /\ LimitInv(d) /\ SparedInv(d))'
  BY DEF IInv, HolderInv, LimitInv, SparedInv, TerminateJob, Hosted, TypeOK, KeptOK,
     JobsOK
<1> QED BY <1>1 DEF IInv

LEMMA ForceStep ==
  ASSUME TypeOK, IInv, NEW c \in Children, NEW done \in BOOLEAN,
         ForceTerminate(c, done), UNCHANGED <<kept, child, pc, cur>>,
         pc \in {"resolving", "forcing"}
  PROVE  IInv'
<1>1. Midway BY DEF Midway, Starting, Handing
<1>2. CASE UNCHANGED jobs BY <1>1, <1>2, QuietStep DEF Midway
<1>3. CASE TerminateJob(c)
  <2>1. stage[c] \in {"hosted", "closed", "unavailable"}
    BY DEF IInv, StageInv, Starting
  <2>2. policy[c] = "force_allowed" BY DEF ForceTerminate
  <2>3. CASE Hosted(c)
    <3>1. StageInv' BY DEF IInv, StageInv, Starting, Handing, Hosted
    <3> QED BY <1>3, <2>2, <2>3, <3>1, TerminateStep
  <2>4. CASE ~Hosted(c)
    <3>1. alive[c] = {} /\ holders[c] \subseteq {"main"}
      BY <2>1, <2>2, <2>4 DEF IInv, HolderInv, LimitInv, Hosted
    <3>2. UNCHANGED jobs
      BY <1>3, <3>1 DEF TerminateJob, TypeOK, JobsOK
    <3> QED BY <1>2, <3>2
  <2> QED BY <2>3, <2>4
<1> QED BY <1>2, <1>3 DEF ForceTerminate

LEMMA DropStep ==
  ASSUME TypeOK, IInv, NEW c \in Children, NEW p \in Members,
         serving[c] # "unborn", ProcessEnds(c, p)
  PROVE  IInv'
<1>1. StageInv' BY DEF IInv, StageInv, Hosted, ProcessEnds
<1>2. ASSUME NEW d \in Children PROVE HolderInv(d)'
  BY DEF IInv, HolderInv, ProcessEnds, DropHandle, TypeOK, JobsOK, KeptOK, Members
<1>3. ASSUME NEW d \in Children PROVE LimitInv(d)'
  BY DEF IInv, HolderInv, LimitInv, ProcessEnds, DropHandle, TypeOK, JobsOK, KeptOK,
     Members
<1>4. ASSUME NEW d \in Children PROVE SparedInv(d)'
  BY DEF IInv, SparedInv, ProcessEnds, DropHandle, TypeOK, JobsOK, KeptOK
<1> QED BY <1>1, <1>2, <1>3, <1>4 DEF IInv

LEMMA ChildInv == ASSUME TypeOK, IInv, NEW c \in Children, Child(c) \/ World(c)
                  PROVE  IInv'
<1>1. ASSUME NEW h \in Policies \cup {"unusable"}, SendHello(c, h) PROVE IInv'
  BY <1>1, QuietStep DEF SendHello, Runs, TypeOK, ChildOK
<1>2. CASE ReadRequest(c)
  BY <1>2, QuietStep DEF ReadRequest, Runs, TypeOK, ChildOK
<1>3. CASE ReadPayload(c)
  BY <1>3, QuietStep DEF ReadPayload, Runs, TypeOK, ChildOK
<1>4. CASE PipeBroken(c)
  BY <1>4, QuietStep DEF PipeBroken, Runs, TypeOK, ChildOK
<1>5. CASE Leave(c) BY <1>5, DropStep DEF Leave, Runs, Members
<1>6. ASSUME NEW p \in Members, Crash(c, p) PROVE IInv'
  BY <1>6, DropStep DEF Crash
<1>7. CASE SpawnHelper(c)
  <2>1. StageInv' BY <1>7 DEF IInv, StageInv, Hosted, SpawnHelper
  <2>2. ASSUME NEW d \in Children
        PROVE  (HolderInv(d) /\ LimitInv(d) /\ SparedInv(d))'
    BY <1>7 DEF IInv, HolderInv, LimitInv, SparedInv, SpawnHelper, Runs, TypeOK, JobsOK
  <2> QED BY <2>1, <2>2 DEF IInv
<1> QED BY <1>1, <1>2, <1>3, <1>4, <1>5, <1>6, <1>7 DEF Child, World

LEMMA EndsInv ==
  ASSUME TypeOK, IInv, \/ pc = "stopped" /\ MainEnds("exit")
                       \/ pc # "stopped" /\ MainEnds("death")
  PROVE  IInv'
<1>1. StageInv' BY DEF StageInv, MainEnds, Starting, Handing
<1>2. ASSUME NEW d \in Children PROVE HolderInv(d)'
  BY DEF IInv, HolderInv, MainEnds, DropMainHandles, TypeOK, JobsOK, KeptOK
<1>3. ASSUME NEW d \in Children PROVE LimitInv(d)'
  BY DEF IInv, HolderInv, LimitInv, MainEnds, DropMainHandles, TypeOK, JobsOK, KeptOK
<1>4. ASSUME NEW d \in Children PROVE SparedInv(d)'
  BY DEF IInv, StageInv, HolderInv, LimitInv, SparedInv, MainEnds, DropMainHandles,
     TypeOK, JobsOK, KeptOK, Hosted, Starting
<1> QED BY <1>1, <1>2, <1>3, <1>4 DEF IInv

LEMMA SettleInv ==
  ASSUME TypeOK, IInv, NEW c \in Children,
         SettleEmpty(c) \/ SettleForceAllowed(c) \/ SettleGraceful(c)
  PROVE  IInv'
<1>1. pc = "settling" /\ Hosted(c) /\ cur' = c /\ UNCHANGED <<kept, child>>
      /\ pc' \in Handing \cup {"closing"}
      /\ (pc' \in Handing => policy[c] = "graceful")
  BY DEF SettleEmpty, SettleForceAllowed, SettleGraceful, Settle, Handing
<1>2. StageInv' BY <1>1 DEF IInv, StageInv, Hosted, Starting, Handing
<1>3. CASE UNCHANGED jobs
  <2>1. pc' = "closing" /\ policy[c] = "graceful" => alive[c] = {}
    <3>1. CASE SettleEmpty(c) BY <3>1 DEF SettleEmpty, JobStillActive
    <3>2. CASE SettleForceAllowed(c) BY <3>2 DEF SettleForceAllowed
    <3>3. CASE SettleGraceful(c) BY <3>3 DEF SettleGraceful, Settle
    <3> QED BY <3>1, <3>2, <3>3
  <2>2. ASSUME NEW d \in Children PROVE (HolderInv(d) /\ LimitInv(d) /\ SparedInv(d))'
    <3>1. pc # "gone" /\ pc' # "gone" BY <1>1 DEF Handing
    <3>2. HolderInv(d)' BY <1>1, <1>3, <3>1 DEF IInv, HolderInv
    <3>3. LimitInv(d)' BY <1>1, <1>3 DEF IInv, LimitInv
    <3>4. SparedInv(d)' BY <1>1, <1>3, <2>1 DEF IInv, SparedInv
    <3> QED BY <3>2, <3>3, <3>4
  <2> QED BY <1>2, <2>2 DEF IInv
<1>4. CASE TerminateJob(c) /\ policy[c] = "force_allowed"
  <2>1. pc # "gone" /\ pc' # "gone" BY <1>1 DEF Handing
  <2> QED BY <1>1, <1>2, <1>4, <2>1, TerminateStep
<1> QED BY <1>3, <1>4 DEF SettleEmpty, SettleForceAllowed, SettleGraceful

LEMMA HandOffInv ==
  ASSUME TypeOK, IInv, (\E p \in Members : HandOff(p)) \/ HandOffFails
  PROVE  IInv'
<1>1. cur \in Children /\ pc \in Handing /\ pc' = "closing" /\ Hosted(cur)
      /\ policy[cur] = "graceful" /\ UNCHANGED <<cur, todo, stage, policy, child>>
  <2>1. pc \in Handing BY DEF HandOff, HandOffFails, HandoffTargets, Handing
  <2> QED BY <2>1 DEF HandOff, HandOffFails, TypeOK, ControlOK, WithChild, IInv,
        StageInv, Handing
<1>2. StageInv' BY <1>1 DEF IInv, StageInv, Hosted, Starting, Handing
<1>3. ASSUME NEW p \in Members, HandOff(p), NEW d \in Children
      PROVE (HolderInv(d) /\ LimitInv(d) /\ SparedInv(d))'
  <2>1. p \in alive[cur]
    BY <1>3 DEF HandOff, HandoffTargets
  <2>2. HolderInv(d)'
    BY <1>1, <1>3, <2>1 DEF IInv, HolderInv, HandOff, Hosted, Handing, TypeOK, JobsOK
  <2>3. LimitInv(d)'
    BY <1>1, <1>3, <2>1 DEF IInv, LimitInv, HandOff, Hosted, TypeOK, JobsOK
  <2>4. SparedInv(d)'
    BY <1>1, <1>3, <2>1 DEF IInv, SparedInv, HandOff, TypeOK, JobsOK, KeptOK
  <2> QED BY <2>2, <2>3, <2>4
<1>4. ASSUME HandOffFails, NEW d \in Children
      PROVE (HolderInv(d) /\ LimitInv(d) /\ SparedInv(d))'
  <2>1. killOnClose'[cur] => MayFail(cur)
    BY <1>1, <1>4 DEF HandOffFails, Readings, TypeOK, JobsOK
  <2>2. \A c \in Children : killOnClose'[c] => killOnClose[c]
    BY <1>1, <1>4 DEF HandOffFails, TypeOK, JobsOK
  <2>3. \A c \in Children : c # cur => killOnClose'[c] = killOnClose[c]
                                       /\ keepOpen'[c] = keepOpen[c]
    BY <1>1, <1>4 DEF HandOffFails, TypeOK, JobsOK, KeptOK
  <2>4. keepOpen'[cur] = TRUE BY <1>1, <1>4 DEF HandOffFails, TypeOK, KeptOK
  <2>5. /\ UNCHANGED <<stage, policy, heir, child, alive, forced>>
        /\ holders[d] \subseteq holders'[d] /\ holders'[d] \subseteq holders[d] \cup alive[d]
        /\ d # cur => holders'[d] = holders[d]
    BY <1>1, <1>4 DEF HandOffFails, HandoffTargets, TypeOK, JobsOK
  <2>6. HolderInv(d)'
    BY <1>1, <2>2, <2>3, <2>4, <2>5 DEF IInv, HolderInv, Hosted, Handing
  <2>7. LimitInv(d)'
    BY <1>1, <2>1, <2>2, <2>3, <2>4, <2>5 DEF IInv, LimitInv, Hosted
  <2>8. SparedInv(d)'
    BY <1>1, <2>3, <2>4, <2>5 DEF IInv, SparedInv
  <2> QED BY <2>6, <2>7, <2>8
<1> QED BY <1>2, <1>3, <1>4 DEF IInv

LEMMA CloseInv == ASSUME TypeOK, IInv, CloseChildHandles PROVE IInv'
<1>1. cur \in Children /\ pc = "closing" /\ pc' = "settling" /\ Hosted(cur)
      /\ UNCHANGED <<policy, keepOpen, heir, child>>
      /\ stage' = [stage EXCEPT ![cur] = "closed"]
  BY DEF CloseChildHandles, TypeOK, ControlOK, WithChild, IInv, StageInv
<1>2. StageInv' BY <1>1 DEF IInv, StageInv, Starting, Handing, TypeOK, KeptOK
<1>3. HolderInv(cur) /\ LimitInv(cur) /\ SparedInv(cur) BY <1>1 DEF IInv
<1>4. "main" \in holders[cur] /\ serving[cur] # "unborn"
  BY <1>1, <1>3 DEF HolderInv, Hosted
<1>5. policy[cur] = "force_allowed" =>
        ~keepOpen[cur] /\ killOnClose[cur] /\ holders[cur] = {"main"}
  BY <1>1, <1>3, <1>4 DEF LimitInv, Hosted
<1>6. CASE keepOpen[cur]
  <2>1. UNCHANGED jobs BY <1>6 DEF CloseChildHandles
  <2>2. ASSUME NEW d \in Children PROVE HolderInv(d)'
    BY <1>1, <1>3, <1>4, <1>6, <2>1 DEF IInv, HolderInv, TypeOK, KeptOK
  <2>3. ASSUME NEW d \in Children PROVE LimitInv(d)'
    BY <1>1, <1>3, <1>5, <1>6, <2>1 DEF IInv, LimitInv, TypeOK, KeptOK
  <2>4. ASSUME NEW d \in Children PROVE SparedInv(d)'
    BY <1>1, <1>3, <1>6, <2>1 DEF IInv, SparedInv, TypeOK, KeptOK, Hosted
  <2> QED BY <1>2, <2>2, <2>3, <2>4 DEF IInv
<1>7. CASE ~keepOpen[cur]
  <2>1. DropHandle(cur, "main", alive[cur], "close")
    BY <1>7 DEF CloseChildHandles
  <2>2. ASSUME NEW d \in Children PROVE HolderInv(d)'
    BY <1>1, <1>3, <1>4, <1>7, <2>1
    DEF IInv, HolderInv, DropHandle, TypeOK, KeptOK, JobsOK
  <2>3. ASSUME NEW d \in Children PROVE LimitInv(d)'
    BY <1>1, <1>3, <1>4, <1>5, <1>7, <2>1
    DEF IInv, LimitInv, DropHandle, TypeOK, KeptOK, JobsOK
  <2>4. ASSUME NEW d \in Children PROVE SparedInv(d)'
    BY <1>1, <1>3, <1>4, <1>7, <2>1
    DEF IInv, SparedInv, DropHandle, TypeOK, KeptOK, JobsOK, Hosted
  <2> QED BY <1>2, <2>2, <2>3, <2>4 DEF IInv
<1> QED BY <1>6, <1>7

LEMMA ShutdownInv == ASSUME TypeOK, IInv, Shutdown PROVE IInv'
<1>1. CASE AskedAll \/ WaitEnds \/ ResolvedAll \/ ForcedAll
  BY <1>1, QuietStep DEF AskedAll, WaitEnds, ResolvedAll, ForcedAll, Goto, Midway,
     Starting, Handing
<1>2. CASE AskLogger \/ LoggerWaitEnds \/ LaunchMergeOnce
  BY <1>2, QuietStep DEF AskLogger, LoggerWaitEnds, LaunchMergeOnce, Goto, Midway,
     Starting, Handing
<1>3. CASE ShutdownComplete
  BY <1>3, QuietStep DEF ShutdownComplete, Goto, Midway, Starting, Handing
<1>4. CASE HandOffFails BY <1>4, HandOffInv
<1>5. CASE CloseChildHandles BY <1>5, CloseInv
<1>6. CASE \E p \in Members : HandOff(p) BY <1>6, HandOffInv
<1>7. ASSUME NEW c \in Children, AskChild(c) PROVE IInv'
  BY <1>7, QuietStep DEF AskChild, Midway, Starting, Handing
<1>8. ASSUME NEW c \in Children, ResolveForceAllowed(c) PROVE IInv'
  <2>1. CASE UNCHANGED jobs
    BY <1>8, <2>1, QuietStep DEF ResolveForceAllowed, Midway, Starting, Handing
  <2>2. ASSUME NEW done \in BOOLEAN, ForceTerminate(c, done) PROVE IInv'
    BY <1>8, <2>2, ForceStep DEF ResolveForceAllowed
  <2> QED BY <1>8, <2>1, <2>2 DEF ResolveForceAllowed
<1>9. ASSUME NEW c \in Children, ForceEligible(c) PROVE IInv'
  <2>1. CASE UNCHANGED jobs
    BY <1>9, <2>1, QuietStep DEF ForceEligible, Midway, Starting, Handing
  <2>2. ASSUME NEW done \in BOOLEAN, ForceTerminate(c, done) PROVE IInv'
    BY <1>9, <2>2, ForceStep DEF ForceEligible
  <2> QED BY <1>9, <2>1, <2>2 DEF ForceEligible
<1>10. ASSUME NEW c \in Children,
              SettleEmpty(c) \/ SettleForceAllowed(c) \/ SettleGraceful(c)
       PROVE IInv'
  BY <1>10, SettleInv
<1> QED BY <1>1, <1>2, <1>3, <1>4, <1>5, <1>6, <1>7, <1>8, <1>9, <1>10 DEF Shutdown

LEMMA KeepsStarted ==
  ASSUME StartedInv, pc' # "gone" => pc # "gone", UNCHANGED started,
         \A c \in Children : Hosted(c)' => Hosted(c)
  PROVE  StartedInv'
BY DEF StartedInv, StartedSet

LEMMA AcceptKeepsStarted ==
  ASSUME TypeOK, StartedInv, NEW c \in Children, AcceptHello(c) PROVE StartedInv'
<1>1. pc # "gone" /\ started' = Append(started, c) /\ started \in Seq(Children)
      /\ stage' = [stage EXCEPT ![c] = "hosted"]
  BY DEF AcceptHello, TypeOK, SessionOK
<1>2. Len(started') = Len(started) + 1 /\ started'[Len(started) + 1] = c
      /\ \A i \in 1..Len(started) : started'[i] = started[i]
  BY <1>1
<1>3. ASSUME NEW d \in Children, Hosted(d)' PROVE d \in StartedSet'
  <2>1. CASE d = c BY <1>1, <1>2, <2>1 DEF StartedSet
  <2>2. CASE d # c
    <3>1. PICK i \in DOMAIN started : started[i] = d
      BY <1>1, <1>3, <2>2 DEF StartedInv, StartedSet, Hosted, TypeOK, KeptOK
    <3> QED BY <1>1, <1>2, <3>1 DEF StartedSet
  <2> QED BY <2>1, <2>2
<1> QED BY <1>3 DEF StartedInv

LEMMA LaunchStarted == ASSUME TypeOK, IInv, StartedInv, Launch PROVE StartedInv'
<1> USE KeepsStarted DEF Hosted, TypeOK, ControlOK, KeptOK, WithChild
<1>1. CASE PlaceInJob BY <1>1 DEF PlaceInJob, AfterPlacing
<1>2. CASE PlaceInJobFails BY <1>2 DEF PlaceInJobFails, AfterPlacing
<1>3. CASE LaunchedAll \/ CollectedAll BY <1>3 DEF LaunchedAll, CollectedAll, Goto
<1>4. ASSUME NEW c \in Children, TryLaunchFails(c) PROVE StartedInv'
  BY <1>4 DEF TryLaunchFails
<1>5. ASSUME NEW c \in Children, StartSuspended(c) PROVE StartedInv'
  BY <1>5 DEF StartSuspended
<1>6. ASSUME NEW c \in Children, AbandonChild(c) PROVE StartedInv'
  BY <1>6 DEF AbandonChild
<1> QED BY <1>1, <1>2, <1>3, <1>4, <1>5, <1>6, AcceptKeepsStarted DEF Launch

LEMMA ShutdownStarted == ASSUME TypeOK, IInv, StartedInv, Shutdown PROVE StartedInv'
<1>1. CASE ShutdownComplete
  BY <1>1 DEF ShutdownComplete, Goto, StartedInv, Hosted
<1>2. CASE CloseChildHandles
  BY <1>2, KeepsStarted DEF CloseChildHandles, Hosted, TypeOK, ControlOK, KeptOK,
     WithChild
<1>3. CASE Shutdown /\ ~ShutdownComplete /\ ~CloseChildHandles
  <2>1. UNCHANGED <<started, stage>> /\ pc # "gone"
    BY <1>3 DEF Shutdown, AskedAll, WaitEnds, ResolvedAll, ForcedAll, AskLogger,
       LoggerWaitEnds, LaunchMergeOnce, HandOffFails, HandOff, HandoffTargets, AskChild,
       ResolveForceAllowed, ForceEligible, SettleEmpty, SettleForceAllowed,
       SettleGraceful, Settle
  <2> QED BY <2>1, KeepsStarted DEF Hosted
<1> QED BY <1>1, <1>2, <1>3

LEMMA NextStarted == TypeOK /\ IInv /\ StartedInv /\ [Next]_vars => StartedInv'
<1> SUFFICES ASSUME TypeOK, IInv, StartedInv, [Next]_vars PROVE StartedInv' OBVIOUS
<1>1. CASE MainExits \/ MainDies
  BY <1>1 DEF MainExits, MainDies, MainEnds, StartedInv
<1>2. CASE Call \/ BeginShutdown \/ User \/ PromptAllExited
  <2>1. UNCHANGED <<started, stage>> /\ pc # "gone"
    BY <1>2 DEF Call, SendCommand, SendPayload, WriteRequest, InvokeFails,
       BeginShutdown, User, Invoke, AskToClose, PromptLeaveRunning, PromptForce,
       PromptContinue, PromptAllExited
  <2> QED BY <2>1, KeepsStarted DEF Hosted
<1>3. ASSUME NEW c \in Children, Child(c) \/ World(c) PROVE StartedInv'
  <2>1. UNCHANGED <<control, started, stage>>
    BY <1>3 DEF Child, World, SendHello, ReadRequest, ReadPayload, PipeBroken, Leave,
       Crash, ProcessEnds, SpawnHelper
  <2> QED BY <2>1, KeepsStarted DEF Hosted
<1>4. CASE UNCHANGED vars BY <1>4, KeepsStarted DEF vars, Hosted
<1> QED BY <1>1, <1>2, <1>3, <1>4, LaunchStarted, ShutdownStarted DEF Next

LEMMA NextInv == TypeOK /\ IInv /\ StartedInv /\ [Next]_vars => IInv'
<1> SUFFICES ASSUME TypeOK, IInv, StartedInv, [Next]_vars PROVE IInv' OBVIOUS
<1>1. CASE BeginShutdown
  <2>1. pc = "running" /\ UNCHANGED <<kept, jobs, child>> /\ pc' \in {"stopped", "asking"}
    BY <1>1 DEF BeginShutdown, Goto
  <2>2. pc' = "stopped" => \A c \in Children : ~Hosted(c)
    BY <1>1 DEF BeginShutdown, Goto, StartedInv, StartedSet
  <2> QED BY <2>1, <2>2, QuietStep DEF Midway, Starting, Handing
<1>2. CASE PromptAllExited
  BY <1>2, QuietStep DEF PromptAllExited, Goto, Midway, Starting, Handing
<1>3. CASE MainExits BY <1>3, EndsInv DEF MainExits
<1>4. CASE MainDies BY <1>4, EndsInv DEF MainDies
<1>5. CASE UNCHANGED vars BY <1>5, QuietStep DEF vars
<1> QED BY <1>1, <1>2, <1>3, <1>4, <1>5, LaunchInv, CallInv, ShutdownInv, UserInv,
      ChildInv DEF Next

\* The invariant holds in every reachable state.
THEOREM Inductive == Spec => [](TypeOK /\ IInv /\ StartedInv)
<1>1. Init => TypeOK /\ IInv /\ StartedInv
  <2>1. Init => StartedInv BY DEF Init, StartedInv, Hosted
  <2> QED BY <2>1, InitType, InitInv
<1>2. TypeOK /\ [Next]_vars => TypeOK' BY NextType
<1>3. TypeOK /\ IInv /\ StartedInv /\ [Next]_vars => (TypeOK /\ IInv /\ StartedInv)'
  BY <1>2, NextInv, NextStarted
<1> QED BY <1>1, <1>3, PTL DEF Spec

\* No running process tree is ever unowned, whatever the children do, whichever
\* calls fail and wherever Main dies.
THEOREM AlwaysAccounted == Spec => []Accounted
<1>1. TypeOK /\ IInv => Accounted
  BY DEF TypeOK, JobsOK, IInv, HolderInv, LimitInv, Accounted
<1> QED BY <1>1, Inductive, PTL

\* A component refused at startup leaves no process behind.
THEOREM AlwaysRefusedLeaveNothing == Spec => []RefusedLeaveNothing
<1>1. IInv => RefusedLeaveNothing BY DEF IInv, HolderInv, RefusedLeaveNothing
<1> QED BY <1>1, Inductive, PTL

\* A force_allowed component is gone once its handles are closed.
THEOREM AlwaysForceAllowedGone == Spec => []ForceAllowedGone
<1>1. IInv => ForceAllowedGone BY DEF IInv, LimitInv, ForceAllowedGone
<1> QED BY <1>1, Inductive, PTL

\* Main never ends a graceful component it hosts.
THEOREM AlwaysGracefulSpared == Spec => []GracefulSpared
<1>1. IInv => GracefulSpared BY DEF IInv, SparedInv, GracefulSpared
<1> QED BY <1>1, Inductive, PTL
(***************************************************************************)
(* Who has been asked to stop, in which order.                             *)
(***************************************************************************)

LEMMA SameStarted == ASSUME UNCHANGED started PROVE StartedSet' = StartedSet
BY DEF StartedSet

LEMMA NoneStarted == ASSUME started = <<>> PROVE StartedSet = {}
BY DEF StartedSet

\* The places the invariant tells apart, once for all the proofs below.
LEMMA Places ==
  /\ BeforeAsking = {"launching", "placing", "collecting", "running",
                     "sendingCommand", "sendingPayload"}
  /\ AllAsked = {"loggerWaiting", "merging", "settling", "closing",
                 "handingToRoot", "handingToMember"}
  /\ OthersAsked = {"waiting", "resolving", "choosing", "forcing", "othersDone"}
BY DEF BeforeAsking, AllAsked, OthersAsked, Starting, Handing

\* Steps that ask nobody and leave Main's loops alone.
LEMMA AskQuiet ==
  ASSUME AskInv, UNCHANGED <<pc, todo, lingering, started, stage, once>>,
         UNCHANGED <<pipe, asked>>,
         \A c \in Children : RootGone(c) => RootGone(c)'
  PROVE  AskInv'
<1>1. StartedSet' = StartedSet BY SameStarted
<1>2. RequestInv' BY <1>1 DEF AskInv, RequestInv, OtherChildren, PassedBy
<1>3. KeptInv' BY <1>1 DEF AskInv, KeptInv, OtherChildren
<1>4. MergeInv' BY DEF AskInv, MergeInv
<1> QED BY <1>2, <1>3, <1>4 DEF AskInv

LEMMA DropGone ==
  ASSUME TypeOK, NEW c \in Children, NEW p \in Members \cup {"main"},
         NEW survivors \in SUBSET alive[c], NEW cause, DropHandle(c, p, survivors, cause)
  PROVE  \A d \in Children : RootGone(d) => RootGone(d)'
BY DEF DropHandle, RootGone, TypeOK, JobsOK

LEMMA ChildAsk ==
  ASSUME TypeOK, AskInv, NEW c \in Children, Child(c) \/ World(c) PROVE AskInv'
<1>1. UNCHANGED <<pc, todo, lingering, started, stage, once>> /\ UNCHANGED <<pipe, asked>>
  BY DEF Child, World, SendHello, ReadRequest, ReadPayload, PipeBroken, Leave, Crash,
     ProcessEnds, SpawnHelper
<1>2. \A d \in Children : RootGone(d) => RootGone(d)'
  <2>1. ASSUME NEW p \in Members, ProcessEnds(c, p)
        PROVE \A d \in Children : RootGone(d) => RootGone(d)'
    <3>1. alive[c] \ {p} \in SUBSET alive[c] OBVIOUS
    <3> QED BY <2>1, <3>1, DropGone DEF ProcessEnds
  <2>2. CASE UNCHANGED alive BY <2>2 DEF RootGone
  <2>3. CASE SpawnHelper(c)
    BY <2>3 DEF SpawnHelper, RootGone, TypeOK, JobsOK
  <2>4. "root" \in Members BY DEF Members
  <2> QED BY <2>1, <2>2, <2>3, <2>4 DEF Child, World, SendHello, ReadRequest, ReadPayload,
       PipeBroken, Leave, Crash
<1> QED BY <1>1, <1>2, AskQuiet

LEMMA AcceptAsk ==
  ASSUME TypeOK, AskInv, NEW c \in Children, AcceptHello(c) PROVE AskInv'
<1>1. /\ pc = "collecting" /\ pc' = pc /\ started' = Append(started, c)
      /\ started \in Seq(Children) /\ stage[c] = "launched"
      /\ stage' = [stage EXCEPT ![c] = "hosted"]
      /\ UNCHANGED <<todo, lingering, once, channel, alive>>
  BY DEF AcceptHello, TypeOK, SessionOK, InFlight
<1>2. StartedSet' \subseteq StartedSet \cup {c}
  BY <1>1 DEF StartedSet
<1>3. RequestInv' BY <1>1, Places DEF AskInv, RequestInv
<1>4. KeptInv'
  BY <1>1, <1>2, Places DEF AskInv, KeptInv, TypeOK, KeptOK
<1>5. MergeInv' BY <1>1, Places DEF AskInv, MergeInv
<1> QED BY <1>3, <1>4, <1>5 DEF AskInv

LEMMA LaunchAsk == ASSUME TypeOK, IInv, AskInv, Launch PROVE AskInv'
<1> SUFFICES ASSUME ~\E c \in Children : AcceptHello(c) PROVE AskInv'
  BY AcceptAsk
<1>1. /\ pc \in Starting /\ pc' \in Starting \cup {"running"}
      /\ UNCHANGED <<started, once, asked, lingering>>
  BY DEF Launch, PlaceInJob, PlaceInJobFails, LaunchedAll, CollectedAll, AfterPlacing,
     Goto, TryLaunchFails, StartSuspended, AbandonChild, Starting
<1>2. \A c \in Children :
        /\ stage'[c] \in {"hosted", "closed"} <=> stage[c] \in {"hosted", "closed"}
        /\ stage'[c] = "closed" <=> stage[c] = "closed"
        /\ stage'[c] \in {"suspended", "launched"} => pipe'[c] # "none"
        /\ pipe[c] # "none" => pipe'[c] # "none"
  <2> USE DEF TypeOK, ControlOK, KeptOK, ChannelOK, WithChild, Labels, IInv, StageInv,
        AskInv, KeptInv, Starting
  <2>1. CASE PlaceInJob BY <2>1 DEF PlaceInJob
  <2>2. CASE PlaceInJobFails BY <2>2 DEF PlaceInJobFails
  <2>3. CASE LaunchedAll \/ CollectedAll BY <2>3 DEF LaunchedAll, CollectedAll
  <2>4. ASSUME NEW c \in Children, TryLaunchFails(c)
        PROVE  /\ stage[c] = "idle" /\ UNCHANGED pipe
               /\ stage' = [stage EXCEPT ![c] = "unavailable"]
    BY <2>4, NextIsIdle DEF TryLaunchFails
  <2>5. ASSUME NEW c \in Children, StartSuspended(c)
        PROVE  /\ stage[c] = "idle" /\ pipe' = [pipe EXCEPT ![c] = "open"]
               /\ stage' = [stage EXCEPT ![c] = "suspended"]
    BY <2>5, NextIsIdle DEF StartSuspended
  <2>6. ASSUME NEW c \in Children, AbandonChild(c)
        PROVE  /\ stage[c] = "launched" /\ pipe' = [pipe EXCEPT ![c] = "closed"]
               /\ stage' = [stage EXCEPT ![c] = "unavailable"]
    BY <2>6 DEF AbandonChild, InFlight
  <2> QED BY <2>1, <2>2, <2>3, <2>4, <2>5, <2>6 DEF Launch
<1>3. StartedSet' = StartedSet BY <1>1, SameStarted
<1>4. RequestInv' BY <1>1, Places DEF AskInv, RequestInv, Starting
<1>5. KeptInv'
  BY <1>1, <1>2, <1>3, Places, StartedType DEF AskInv, KeptInv, TypeOK, Starting
<1>6. MergeInv' BY <1>1, Places DEF AskInv, MergeInv, Starting
<1> QED BY <1>4, <1>5, <1>6 DEF AskInv

LEMMA CallAsk ==
  ASSUME TypeOK, AskInv, Call \/ \E c \in Children : Invoke(c) PROVE AskInv'
<1>1. /\ pc \in {"running", "sendingCommand", "sendingPayload"}
      /\ pc' \in {"running", "sendingCommand", "sendingPayload"}
      /\ UNCHANGED <<started, once, stage, asked, lingering>>
      /\ \A c \in Children : pipe[c] # "none" => pipe'[c] # "none"
  BY DEF Call, SendCommand, SendPayload, WriteRequest, InvokeFails, Invoke, TypeOK, ChannelOK
<1>2. StartedSet' = StartedSet BY <1>1, SameStarted
<1>3. RequestInv' BY <1>1, Places DEF AskInv, RequestInv
<1>4. KeptInv'
  BY <1>1, <1>2, Places, StartedType DEF AskInv, KeptInv, TypeOK
<1>5. MergeInv' BY <1>1, Places DEF AskInv, MergeInv
<1> QED BY <1>3, <1>4, <1>5 DEF AskInv

LEMMA BeginAsk ==
  ASSUME TypeOK, StartedInv, AskInv, BeginShutdown PROVE AskInv'
<1>1. /\ pc = "running" /\ UNCHANGED <<started, once, stage, asked, pipe, lingering>>
      /\ pc' = "stopped" => started = <<>>
      /\ pc' \in {"stopped", "asking"}
      /\ pc' = "asking" => todo' = OtherChildren
  BY DEF BeginShutdown, Goto, OtherChildren
<1>2. StartedSet' = StartedSet BY <1>1, SameStarted
<1>3. RequestInv' BY <1>1, <1>2, Places DEF AskInv, RequestInv, OtherChildren
<1>4. KeptInv' BY <1>1, <1>2, Places, StartedType DEF AskInv, KeptInv, TypeOK
<1>5. MergeInv' BY <1>1, Places DEF AskInv, MergeInv
<1> QED BY <1>3, <1>4, <1>5 DEF AskInv

\* What a request does to the child it is for, and to no other.
LEMMA RequestFacts ==
  ASSUME TypeOK, NEW c \in Children, RequestChildShutdown(c)
  PROVE  /\ UNCHANGED pipe
         /\ \A d \in Children \ {c} : asked'[d] = asked[d]
         /\ ~PassedBy(c)'
         /\ \A d \in Children : ~PassedBy(d) => ~PassedBy(d)'
BY DEF RequestChildShutdown, PassedBy, TypeOK, ChannelOK

LEMMA AskChildAsk ==
  ASSUME TypeOK, AskInv, NEW c \in Children, AskChild(c) PROVE AskInv'
<1>1. /\ pc = "asking" /\ pc' = "asking" /\ c \in todo /\ todo' = todo \ {c}
      /\ UNCHANGED <<started, once, stage, lingering, alive>>
      /\ RequestChildShutdown(c)
  BY DEF AskChild
<1>2. StartedSet' = StartedSet BY <1>1, SameStarted
<1>3. c \in OtherChildren /\ c # Logger
  BY <1>1 DEF AskInv, RequestInv, OtherChildren
<1>4. RequestInv'
  BY <1>1, <1>2, <1>3, RequestFacts, Places, StartedType
  DEF AskInv, RequestInv, OtherChildren, TypeOK
<1>5. KeptInv'
  BY <1>1, <1>2, RequestFacts, Places DEF AskInv, KeptInv
<1>6. MergeInv' BY <1>1, Places DEF AskInv, MergeInv
<1> QED BY <1>4, <1>5, <1>6 DEF AskInv

LEMMA AskLoggerAsk == ASSUME TypeOK, AskInv, AskLogger PROVE AskInv'
<1>1. /\ pc = "othersDone" /\ pc' = "loggerWaiting" /\ Logger \in StartedSet
      /\ UNCHANGED <<started, once, stage, lingering, alive>>
      /\ RequestChildShutdown(Logger)
  BY DEF AskLogger, Goto
<1>2. StartedSet' = StartedSet /\ Logger \in Children
  BY <1>1, SameStarted, StartedType DEF TypeOK
<1>3. RequestInv'
  BY <1>1, <1>2, RequestFacts, Places, StartedType
  DEF AskInv, RequestInv, OtherChildren, TypeOK
<1>4. KeptInv'
  BY <1>1, <1>2, RequestFacts, Places DEF AskInv, KeptInv
<1>5. MergeInv' BY <1>1, Places DEF AskInv, MergeInv
<1> QED BY <1>3, <1>4, <1>5 DEF AskInv

\* Steps between the last request to the others and the settling.
LEMMA WaitAsk ==
  ASSUME TypeOK, IInv, StartedInv, AskInv,
         \/ AskedAll \/ WaitEnds \/ ResolvedAll \/ ForcedAll \/ LoggerWaitEnds
         \/ PromptAllExited \/ PromptLeaveRunning \/ PromptForce \/ PromptContinue
  PROVE  AskInv'
<1>1. UNCHANGED <<started, once, stage, asked, pipe, alive>>
  BY DEF AskedAll, WaitEnds, ResolvedAll, ForcedAll, LoggerWaitEnds, PromptAllExited,
     PromptLeaveRunning, PromptForce, PromptContinue, Goto
<1>2. StartedSet' = StartedSet /\ OtherChildren' = OtherChildren
  BY <1>1, SameStarted DEF OtherChildren
<1>3. ASSUME pc \in OthersAsked, pc' \in OthersAsked \ {"waiting"},
             \A c \in OtherChildren : ~PassedBy(c),
             lingering' \subseteq OtherChildren,
             pc' \in {"resolving", "forcing"} => todo' \subseteq OtherChildren
      PROVE  AskInv'
  <2>1. RequestInv' BY <1>1, <1>2, <1>3, Places DEF AskInv, RequestInv, PassedBy
  <2>2. KeptInv' BY <1>1, <1>2, <1>3, Places DEF AskInv, KeptInv
  <2>3. MergeInv' BY <1>1, <1>3, Places DEF AskInv, MergeInv, RootGone
  <2> QED BY <2>1, <2>2, <2>3 DEF AskInv
<1>4. CASE AskedAll
  <2>1. pc = "asking" /\ pc' = "waiting" /\ todo = {} /\ UNCHANGED <<todo, lingering>>
    BY <1>4 DEF AskedAll, Goto
  <2>2. \A c \in OtherChildren : ~PassedBy(c) BY <2>1 DEF AskInv, RequestInv
  <2>3. RequestInv' BY <1>1, <1>2, <2>1, <2>2, Places DEF AskInv, RequestInv, PassedBy
  <2>4. KeptInv' BY <1>1, <1>2, <2>1, Places DEF AskInv, KeptInv
  <2>5. MergeInv' BY <1>1, <2>1, Places DEF AskInv, MergeInv
  <2> QED BY <2>3, <2>4, <2>5 DEF AskInv
<1>5. CASE LoggerWaitEnds
  <2>1. /\ pc = "loggerWaiting" \/ (pc = "othersDone" /\ Logger \notin StartedSet)
        /\ pc' \in {"merging", "settling"} /\ UNCHANGED <<todo, lingering>>
        /\ pc' = "merging" => (Logger \in StartedSet => RootGone(Logger))
    BY <1>5 DEF LoggerWaitEnds, Goto
  <2>2. \A c \in StartedSet : ~PassedBy(c)
    BY <2>1, Places DEF AskInv, RequestInv, OtherChildren
  <2>3. RequestInv' BY <1>1, <1>2, <2>1, <2>2, Places DEF AskInv, RequestInv, PassedBy
  <2>4. KeptInv' BY <1>1, <1>2, <2>1, Places DEF AskInv, KeptInv
  <2>5. ASSUME pc' = "merging", Logger \in Children PROVE RootGone(Logger)
    <3>1. stage[Logger] # "closed" BY <2>1, <2>5, Places DEF AskInv, KeptInv
    <3>2. Hosted(Logger) => Logger \in StartedSet
      BY <2>1, <2>5 DEF StartedInv
    <3>3. stage[Logger] = "unavailable" => alive[Logger] = {}
      BY <2>5 DEF IInv, HolderInv
    <3>4. stage[Logger] \in {"hosted", "closed", "unavailable"}
      BY <2>1, <2>5 DEF IInv, StageInv, Starting
    <3> QED BY <2>1, <2>5, <3>1, <3>2, <3>3, <3>4 DEF Hosted, RootGone
  <2>6. MergeInv' BY <1>1, <2>1, <2>5, Places DEF AskInv, MergeInv, RootGone
  <2> QED BY <2>3, <2>4, <2>6 DEF AskInv
<1>6. CASE ~AskedAll /\ ~LoggerWaitEnds
  <2>1. pc \in OthersAsked /\ pc' \in OthersAsked \ {"waiting"}
    BY <1>6 DEF WaitEnds, ResolvedAll, ForcedAll, PromptAllExited, PromptLeaveRunning,
       PromptForce, PromptContinue, Goto, OthersAsked
  <2>2. lingering \subseteq OtherChildren /\ \A c \in OtherChildren : ~PassedBy(c)
    BY <2>1 DEF AskInv, KeptInv, RequestInv
  <2>3. \A l \in LingeringAmong(OtherChildren) : l \subseteq OtherChildren
    BY DEF LingeringAmong
  <2>4. lingering' \subseteq OtherChildren /\ (pc' \in {"resolving", "forcing"} => todo' \subseteq OtherChildren)
    BY <1>6, <2>2, <2>3 DEF WaitEnds, ResolvedAll, ForcedAll, PromptAllExited,
       PromptLeaveRunning, PromptForce, PromptContinue, Goto, OtherChildren
  <2> QED BY <1>3, <2>1, <2>2, <2>4
<1> QED BY <1>4, <1>5, <1>6

\* One lingering child is ended, or left.
LEMMA ForceAsk ==
  ASSUME TypeOK, AskInv, NEW c \in Children, ResolveForceAllowed(c) \/ ForceEligible(c)
  PROVE  AskInv'
<1>1. /\ pc \in {"resolving", "forcing"} /\ pc' = pc /\ todo' = todo \ {c}
      /\ lingering' \subseteq lingering /\ UNCHANGED <<started, once, stage, asked, pipe>>
  BY DEF ResolveForceAllowed, ForceEligible
<1>2. \A d \in Children : RootGone(d) => RootGone(d)'
  <2>1. CASE UNCHANGED alive BY <2>1 DEF RootGone
  <2>2. CASE alive' = [alive EXCEPT ![c] = {}] BY <2>2 DEF RootGone, TypeOK, JobsOK
  <2> QED BY <2>1, <2>2 DEF ResolveForceAllowed, ForceEligible, ForceTerminate, TerminateJob
<1>3. StartedSet' = StartedSet /\ OtherChildren' = OtherChildren
  BY <1>1, SameStarted DEF OtherChildren
<1>4. RequestInv' BY <1>1, <1>3, Places DEF AskInv, RequestInv, PassedBy
<1>5. KeptInv' BY <1>1, <1>3, Places DEF AskInv, KeptInv
<1>6. MergeInv' BY <1>1, <1>2, Places DEF AskInv, MergeInv
<1> QED BY <1>4, <1>5, <1>6 DEF AskInv

\* From the merge to the last closed handle.
LEMMA SettleAsk ==
  ASSUME TypeOK, AskInv,
         \/ LaunchMergeOnce \/ HandOffFails \/ CloseChildHandles
         \/ \E p \in Members : HandOff(p)
         \/ \E c \in Children : SettleEmpty(c) \/ SettleForceAllowed(c) \/ SettleGraceful(c)
  PROVE  AskInv'
<1>1. /\ pc \in AllAsked \ {"loggerWaiting"} /\ pc' \in AllAsked \ {"loggerWaiting", "merging"}
      /\ UNCHANGED <<started, asked>>
      /\ once' # once => pc = "merging"
  BY Places DEF LaunchMergeOnce, HandOffFails, HandoffTargets, CloseChildHandles, HandOff,
     SettleEmpty, SettleForceAllowed, SettleGraceful, Settle, Goto
<1>2. \A c \in Children :
        /\ pipe'[c] = pipe[c] \/ pipe'[c] = "closed"
        /\ stage'[c] = stage[c] \/ stage'[c] = "closed"
  BY DEF LaunchMergeOnce, HandOffFails, CloseChildHandles, HandOff, TypeOK, ChannelOK,
     KeptOK, SettleEmpty, SettleForceAllowed, SettleGraceful, Settle, Goto
<1>3. \A d \in Children : RootGone(d) => RootGone(d)'
  <2>1. CASE UNCHANGED alive BY <2>1 DEF RootGone
  <2>2. ASSUME NEW c \in Children, TerminateJob(c)
        PROVE \A d \in Children : RootGone(d) => RootGone(d)'
    BY <2>2 DEF RootGone, TypeOK, JobsOK, TerminateJob
  <2>3. CASE CloseChildHandles
    <3>1. CASE UNCHANGED jobs BY <3>1 DEF RootGone
    <3>2. cur \in Children BY <2>3 DEF CloseChildHandles, TypeOK, ControlOK, WithChild
    <3>3. alive[cur] \in SUBSET alive[cur] OBVIOUS
    <3>4. CASE DropHandle(cur, "main", alive[cur], "close") BY <3>2, <3>3, <3>4, DropGone
    <3> QED BY <2>3, <3>1, <3>4 DEF CloseChildHandles
  <2> QED BY <2>1, <2>2, <2>3 DEF LaunchMergeOnce, HandOffFails, HandOff,
        SettleEmpty, SettleForceAllowed, SettleGraceful, Settle
<1>4. StartedSet' = StartedSet /\ StartedSet \subseteq Children
  BY <1>1, SameStarted, StartedType DEF TypeOK
<1>5. RequestInv' BY <1>1, <1>2, <1>4, Places DEF AskInv, RequestInv, PassedBy
<1>6. KeptInv' BY <1>1, <1>2, <1>4, Places DEF AskInv, KeptInv
<1>7. MergeInv' BY <1>1, <1>3, Places DEF AskInv, MergeInv
<1> QED BY <1>5, <1>6, <1>7 DEF AskInv

LEMMA EndsAsk ==
  ASSUME TypeOK, IInv, AskInv, ShutdownComplete \/ MainExits \/ MainDies PROVE AskInv'
<1>1. /\ pc' \in {"stopped", "gone"} /\ started' = <<>> /\ UNCHANGED <<once, asked>>
      /\ stage' = stage
  BY DEF ShutdownComplete, MainExits, MainDies, MainEnds, Goto
<1>2. \A c \in Children : RootGone(c) => RootGone(c)'
  BY DEF ShutdownComplete, MainExits, MainDies, MainEnds, DropMainHandles, RootGone, TypeOK,
     JobsOK
<1>3. \A c \in Children : pipe[c] # "none" => pipe'[c] # "none"
  BY DEF ShutdownComplete, MainExits, MainDies, MainEnds, TypeOK, ChannelOK
<1>4. StartedSet' = {} BY <1>1 DEF StartedSet
<1>5. RequestInv' BY <1>1, Places DEF RequestInv
<1>6. KeptInv' BY <1>1, <1>3, <1>4, Places DEF AskInv, KeptInv
<1>7. MergeInv' BY <1>1, <1>2, Places DEF AskInv, MergeInv
<1> QED BY <1>5, <1>6, <1>7 DEF AskInv

LEMMA NextAsk == TypeOK /\ IInv /\ StartedInv /\ AskInv /\ [Next]_vars => AskInv'
<1> SUFFICES ASSUME TypeOK, IInv, StartedInv, AskInv, [Next]_vars PROVE AskInv' OBVIOUS
<1>1. CASE User
  <2>1. ASSUME NEW mode \in {"interactive", "noninteractive"}, AskToClose(mode)
        PROVE AskInv'
    BY <2>1, AskQuiet DEF AskToClose, RootGone
  <2> QED BY <1>1, <2>1, CallAsk, WaitAsk DEF User
<1>2. CASE Shutdown
  BY <1>2, WaitAsk, SettleAsk, ForceAsk, AskChildAsk, AskLoggerAsk, EndsAsk DEF Shutdown
<1>3. CASE UNCHANGED vars BY <1>3, AskQuiet DEF vars, RootGone
<1> QED BY <1>1, <1>2, <1>3, LaunchAsk, CallAsk, BeginAsk, WaitAsk, EndsAsk, ChildAsk
    DEF Next

LEMMA InitAsk == Init => AskInv
BY Places, NoneStarted DEF Init, AskInv, RequestInv, KeptInv, MergeInv

\* The order of the requests, in every reachable state.
THEOREM RequestsInOrder == Spec => []AskInv
BY InitAsk, NextAsk, Inductive, PTL DEF Spec

\* The logger is asked last, and no one-shot merge runs beside it.
THEOREM AlwaysLoggerLast == Spec => []LoggerLast
<1>1. TypeOK /\ AskInv => LoggerLast
  <2> SUFFICES ASSUME TypeOK, AskInv PROVE LoggerLast OBVIOUS
  <2>1. ASSUME Logger \in StartedSet, asked[Logger] # "no",
               NEW c \in StartedSet \ {Logger}
        PROVE  ~PassedBy(c)
    <3>1. Logger \in Children BY <2>1, StartedType DEF TypeOK
    <3>2. pc \in AllAsked
      BY <2>1, <3>1, Places, NoneStarted
      DEF AskInv, RequestInv, KeptInv, TypeOK, ControlOK, Labels
    <3> QED BY <2>1, <3>2 DEF AskInv, RequestInv
  <2> QED BY <2>1 DEF LoggerLast, AskInv, MergeInv
<1> QED BY <1>1, RequestsInOrder, TypeCorrect, PTL

\* Which steps can write "terminate" into the history of a child.
LEMMA DropIsNoTerminate ==
  ASSUME TypeOK, NEW c \in Children, NEW d \in Children, NEW p, NEW survivors, NEW cause,
         DropHandle(d, p, survivors, cause), cause # "terminate"
  PROVE  "terminate" \notin forced'[c] \ forced[c]
BY DEF DropHandle, TypeOK, JobsOK

LEMMA EndIsNoTerminate ==
  ASSUME TypeOK, NEW c \in Children, MainExits \/ MainDies
  PROVE  "terminate" \notin forced'[c] \ forced[c]
BY DEF MainExits, MainDies, MainEnds, DropMainHandles, TypeOK, JobsOK

LEMMA TerminateHitsOne ==
  ASSUME TypeOK, NEW c \in Children, NEW d \in Children, TerminateJob(d),
         "terminate" \in forced'[c] \ forced[c]
  PROVE  c = d
BY DEF TerminateJob, TypeOK, JobsOK

LEMMA TerminatingSteps ==
  ASSUME TypeOK, Next, NEW c \in Children, "terminate" \in forced'[c] \ forced[c]
  PROVE  /\ ResolveForceAllowed(c) \/ ForceEligible(c) \/ SettleForceAllowed(c)
         /\ policy[c] = "force_allowed"
<1>1. forced' # forced OBVIOUS
<1>2. ~Launch
  BY <1>1, DropIsNoTerminate DEF Launch, PlaceInJob, PlaceInJobFails, LaunchedAll,
     CollectedAll, TryLaunchFails, StartSuspended, AcceptHello, AbandonChild
<1>3. ~(Call \/ BeginShutdown \/ User \/ PromptAllExited)
  BY <1>1 DEF Call, SendCommand, SendPayload, WriteRequest, InvokeFails, BeginShutdown, User,
     Invoke, AskToClose, PromptLeaveRunning, PromptForce, PromptContinue, PromptAllExited
<1>4. ASSUME NEW d \in Children PROVE ~(Child(d) \/ World(d))
  BY <1>1, DropIsNoTerminate DEF Child, World, SendHello, ReadRequest, ReadPayload,
     PipeBroken, Leave, Crash, ProcessEnds, SpawnHelper
<1>5. Shutdown BY <1>2, <1>3, <1>4, EndIsNoTerminate DEF Next
<1>6. ~CloseChildHandles
  BY <1>1, DropIsNoTerminate DEF CloseChildHandles, TypeOK, ControlOK, WithChild
<1>7. PICK d \in Children :
        /\ ResolveForceAllowed(d) \/ ForceEligible(d) \/ SettleForceAllowed(d)
        /\ TerminateJob(d) /\ policy[d] = "force_allowed"
  <2>1. ASSUME NEW d \in Children, ResolveForceAllowed(d) \/ ForceEligible(d)
        PROVE  TerminateJob(d) /\ policy[d] = "force_allowed"
    BY <1>1, <2>1 DEF ResolveForceAllowed, ForceEligible, ForceTerminate
  <2>2. ASSUME NEW d \in Children, SettleForceAllowed(d)
        PROVE  TerminateJob(d) /\ policy[d] = "force_allowed"
    BY <1>1, <2>2 DEF SettleForceAllowed
  <2>3. \E d \in Children :
          ResolveForceAllowed(d) \/ ForceEligible(d) \/ SettleForceAllowed(d)
    BY <1>1, <1>5, <1>6 DEF Shutdown, AskedAll, WaitEnds, ResolvedAll, ForcedAll, AskLogger,
       LoggerWaitEnds, LaunchMergeOnce, HandOffFails, ShutdownComplete, HandOff, AskChild,
       SettleEmpty, SettleGraceful, Settle
  <2> QED BY <2>1, <2>2, <2>3
<1> QED BY <1>7, TerminateHitsOne

\* TerminateJobObject only ever hits a force_allowed child that was asked to
\* stop, or had lost its pipe.
THEOREM AlwaysForcedAfterAsked == Spec => ForcedOnlyAfterAsked
<1> DEFINE Allowed(c) == "terminate" \in forced'[c] \ forced[c] =>
              /\ Hosted(c) /\ policy[c] = "force_allowed"
              /\ asked[c] # "no" \/ pipe[c] = "closed"
<1>1. ASSUME TypeOK, StartedInv, AskInv, Next
      PROVE  \A c \in Children : Allowed(c)
  <2> SUFFICES ASSUME NEW c \in Children, "terminate" \in forced'[c] \ forced[c]
               PROVE  /\ Hosted(c) /\ policy[c] = "force_allowed"
                      /\ asked[c] # "no" \/ pipe[c] = "closed"
    OBVIOUS
  <2>1. /\ ResolveForceAllowed(c) \/ ForceEligible(c) \/ SettleForceAllowed(c)
        /\ policy[c] = "force_allowed"
    BY <1>1, TerminatingSteps
  <2>2. c \in StartedSet /\ Hosted(c) /\ ~PassedBy(c)
    <3>1. CASE ResolveForceAllowed(c) \/ ForceEligible(c)
      BY <1>1, <3>1, Places DEF ResolveForceAllowed, ForceEligible, AskInv, RequestInv, KeptInv,
         OtherChildren, Hosted
    <3>2. CASE SettleForceAllowed(c)
      BY <1>1, <3>2, Places DEF SettleForceAllowed, Settle, AskInv, RequestInv, StartedInv
    <3> QED BY <2>1, <3>1, <3>2
  <2>3. pipe[c] \in {"open", "closed"} BY <1>1, <2>2 DEF AskInv, KeptInv, TypeOK, ChannelOK
  <2> QED BY <2>1, <2>2, <2>3 DEF PassedBy
<1>2. TypeOK /\ StartedInv /\ AskInv /\ [Next]_vars =>
        [\A c \in Children : Allowed(c)]_vars
  BY <1>1
<1> QED BY <1>2, RequestsInOrder, Inductive, PTL DEF Spec, ForcedOnlyAfterAsked
============================================================================
