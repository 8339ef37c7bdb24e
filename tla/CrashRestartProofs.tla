------------------------ MODULE CrashRestartProofs -------------------------
(***************************************************************************)
(* For any number of processes and faults: one Auto Core at a time is past *)
(* the mutex, a recorded crash is acknowledged before the next one starts  *)
(* its work, and a process starts one successor at most.                   *)
(***************************************************************************)
EXTENDS CrashRestart, TLAPS

Past == {"checking", "prompted", "passed"} \cup Working

LEMMA OneMoreFault ==
  ASSUME TypeOK, faults < MaxFaults, faults' = faults + 1
  PROVE  faults' \in 0..MaxFaults
BY BoundsAssumption DEF TypeOK

LEMMA TypeStep == TypeOK /\ [Next]_vars => TypeOK'
<1> SUFFICES ASSUME TypeOK, [Next]_vars PROVE TypeOK'
  OBVIOUS
<1> USE DEF TypeOK, At, Runs, Move, Step, Living, Places, Waiting, Working, Steps,
            Fates, Threads
<1>1. ASSUME NEW i \in Instances, MainStep(i) PROVE TypeOK'
  <2>1. CASE Acquire(i) BY <2>1 DEF Acquire
  <2>2. CASE CheckMarker(i) BY <2>2 DEF CheckMarker
  <2>3. CASE Enable(i) BY <2>3 DEF Enable
  <2>4. CASE Started(i) BY <2>4 DEF Started
  <2>5. CASE EndInvoke(i) BY <2>5 DEF EndInvoke
  <2>6. CASE MainCloses(i) BY <2>6 DEF MainCloses
  <2>7. CASE QuitTaken(i) BY <2>7 DEF QuitTaken
  <2>8. CASE MainReturns(i) BY <2>8 DEF MainReturns, End
  <2>9. QED BY <1>1, <2>1, <2>2, <2>3, <2>4, <2>5, <2>6, <2>7, <2>8 DEF MainStep
<1>2. ASSUME NEW i \in Instances, FilterStep(i) PROVE TypeOK'
  <2> PICK t \in Threads : ThreadFilters(i, t)
    BY <1>2 DEF FilterStep
  <2>1. CASE WriteMarker(i, t) BY <2>1 DEF WriteMarker
  <2>2. CASE MarkerFails(i, t)
    <3>1. faults' \in 0..MaxFaults BY <2>2, OneMoreFault DEF MarkerFails
    <3>2. marker' \in BOOLEAN BY <2>2 DEF MarkerFails
    <3>3. QED BY <2>2, <3>1, <3>2 DEF MarkerFails, End
  <2>3. ASSUME NEW j \in Instances, Spawn(i, t, j) PROVE TypeOK'
    BY <2>3 DEF Spawn
  <2>4. CASE SpawnFails(i, t)
    BY <2>4, OneMoreFault DEF SpawnFails, End
  <2>5. CASE FilterCloses(i, t) BY <2>5 DEF FilterCloses
  <2>6. CASE FilterClosed(i, t) BY <2>6 DEF FilterClosed
  <2>7. CASE FilterExits(i, t) BY <2>7 DEF FilterExits, End
  <2>8. QED BY <2>1, <2>2, <2>3, <2>4, <2>5, <2>6, <2>7 DEF ThreadFilters
<1>3. ASSUME NEW i \in Instances, Surroundings(i) PROVE TypeOK'
  <2>1. CASE UserStarts(i) BY <2>1 DEF UserStarts
  <2>2. CASE StartFails(i) BY <2>2, OneMoreFault DEF StartFails, End
  <2>3. CASE AnswerYes(i)
    <3>1. faults' \in 0..MaxFaults BY <2>3, OneMoreFault DEF AnswerYes
    <3>2. marker' \in BOOLEAN BY <2>3 DEF AnswerYes
    <3>3. QED BY <2>3, <3>1, <3>2 DEF AnswerYes
  <2>4. CASE AnswerNo(i) BY <2>4 DEF AnswerNo, End
  <2>5. CASE BeginInvoke(i) BY <2>5 DEF BeginInvoke
  <2>6. CASE ComponentStalls(i) BY <2>6 DEF ComponentStalls
  <2>7. CASE CloseAsked(i) BY <2>7 DEF CloseAsked
  <2>8. CASE ShutdownsCollide(i) BY <2>8 DEF ShutdownsCollide, End
  <2>9. ASSUME NEW t \in Threads, Fault(i, t) PROVE TypeOK'
    <3>1. faults' \in 0..MaxFaults BY <2>9, OneMoreFault DEF Fault
    <3>2. CASE /\ claimed' = [claimed EXCEPT ![i] = TRUE] /\ Step(i, t, "claimed")
               /\ UNCHANGED <<main, mutex, ended>>
      <4>1. filter' \in [Instances -> [Threads -> Steps]]
        BY <3>2
      <4>2. QED BY <2>9, <3>1, <3>2, <4>1 DEF Fault
    <3>3. CASE End(i, "fault") /\ UNCHANGED claimed
      BY <2>9, <3>1, <3>3 DEF Fault, End
    <3>4. QED BY <2>9, <3>2, <3>3 DEF Fault
  <2>10. QED
    BY <1>3, <2>1, <2>2, <2>3, <2>4, <2>5, <2>6, <2>7, <2>8, <2>9 DEF Surroundings
<1>4. CASE UNCHANGED vars
  BY <1>4 DEF vars
<1>5. QED BY <1>1, <1>2, <1>3, <1>4 DEF Next

LEMMA TypeInit == Init => TypeOK
BY BoundsAssumption DEF Init, TypeOK, Places, Waiting, Working, Steps, Fates, Threads

\* Every variable keeps to its values, and pipe_mutex to the invoke that took it
\* (the scoped_lock of ac::main::components::invoke).
THEOREM TypeCorrect == Spec => []TypeOK
BY TypeInit, TypeStep, PTL DEF Spec

-----------------------------------------------------------------------------
(***************************************************************************)
(* The mutex.                                                              *)
(***************************************************************************)

\* The end of a process lets go of the mutex if, and only if, it had it.
LEMMA EndLetsGo ==
  ASSUME TypeOK, OneAtATime, NEW i \in Instances, NEW how, End(i, how)
  PROVE  OneAtATime'
<1>1. \A j \in Instances \ {i} : main'[j] = main[j] /\ (mutex' = j <=> mutex = j)
  BY InstancesAssumption DEF End, TypeOK
<1>2. main'[i] = "gone" /\ mutex' # i
  BY InstancesAssumption DEF End, TypeOK
<1>3. QED BY <1>1, <1>2 DEF OneAtATime, Working

\* Neither does a step from one place in front of it, or behind it, to another.
LEMMA MoveKeeps ==
  ASSUME TypeOK, OneAtATime, NEW i \in Instances, NEW place, Move(i, place),
         main[i] \in Past <=> place \in Past, UNCHANGED mutex
  PROVE  OneAtATime'
<1>1. \A j \in Instances \ {i} : main'[j] = main[j]
  BY DEF Move, TypeOK
<1>2. main'[i] = place
  BY DEF Move, TypeOK
<1>3. QED BY <1>1, <1>2 DEF OneAtATime, Past

LEMMA OneStep == TypeOK /\ OneAtATime /\ [Next]_vars => OneAtATime'
<1> SUFFICES ASSUME TypeOK, OneAtATime, [Next]_vars PROVE OneAtATime'
  OBVIOUS
<1> USE DEF At, Past, Working
<1>1. ASSUME NEW i \in Instances, MainStep(i) PROVE OneAtATime'
  <2>1. CASE Acquire(i)
    <3>1. \A j \in Instances : main[j] \notin Past
      BY <2>1, InstancesAssumption DEF Acquire, OneAtATime
    <3>2. \A j \in Instances \ {i} : main'[j] = main[j] /\ mutex' # j
      BY <2>1 DEF Acquire, Move, TypeOK
    <3>3. main'[i] = "checking" /\ mutex' = i
      BY <2>1 DEF Acquire, Move, TypeOK
    <3>4. QED BY <3>1, <3>2, <3>3 DEF OneAtATime
  <2>2. CASE CheckMarker(i)
    BY <2>2, MoveKeeps DEF CheckMarker
  <2>3. CASE Enable(i) BY <2>3, MoveKeeps DEF Enable
  <2>4. CASE Started(i) BY <2>4, MoveKeeps DEF Started
  <2>5. CASE EndInvoke(i) BY <2>5, MoveKeeps DEF EndInvoke
  <2>6. CASE MainCloses(i) BY <2>6, MoveKeeps DEF MainCloses
  <2>7. CASE QuitTaken(i) BY <2>7, MoveKeeps DEF QuitTaken
  <2>8. CASE MainReturns(i) BY <2>8, EndLetsGo DEF MainReturns
  <2>9. QED BY <1>1, <2>1, <2>2, <2>3, <2>4, <2>5, <2>6, <2>7, <2>8 DEF MainStep
<1>2. ASSUME NEW i \in Instances, FilterStep(i) PROVE OneAtATime'
  <2> PICK t \in Threads : ThreadFilters(i, t)
    BY <1>2 DEF FilterStep
  <2>1. CASE WriteMarker(i, t) \/ FilterCloses(i, t) \/ FilterClosed(i, t)
    <3>1. UNCHANGED <<main, mutex>>
      BY <2>1 DEF WriteMarker, FilterCloses, FilterClosed
    <3>2. QED BY <3>1 DEF OneAtATime
  <2>2. CASE MarkerFails(i, t) \/ SpawnFails(i, t) \/ FilterExits(i, t)
    BY <2>2, EndLetsGo DEF MarkerFails, SpawnFails, FilterExits
  <2>3. ASSUME NEW j \in Instances, Spawn(i, t, j) PROVE OneAtATime'
    BY <2>3, MoveKeeps DEF Spawn
  <2>4. QED BY <2>1, <2>2, <2>3 DEF ThreadFilters
<1>3. ASSUME NEW i \in Instances, Surroundings(i) PROVE OneAtATime'
  <2>1. CASE UserStarts(i) BY <2>1, MoveKeeps DEF UserStarts
  <2>2. CASE StartFails(i) \/ AnswerNo(i) \/ ShutdownsCollide(i)
    BY <2>2, EndLetsGo DEF StartFails, AnswerNo, ShutdownsCollide
  <2>3. CASE AnswerYes(i) BY <2>3, MoveKeeps DEF AnswerYes
  <2>4. CASE BeginInvoke(i) BY <2>4, MoveKeeps DEF BeginInvoke
  <2>5. CASE ComponentStalls(i) BY <2>5 DEF ComponentStalls, OneAtATime
  <2>6. CASE CloseAsked(i) BY <2>6, MoveKeeps DEF CloseAsked
  <2>7. ASSUME NEW t \in Threads, Fault(i, t) PROVE OneAtATime'
    <3>1. CASE UNCHANGED <<main, mutex, ended>> BY <3>1 DEF OneAtATime
    <3>2. CASE End(i, "fault") BY <3>2, EndLetsGo
    <3>3. QED BY <2>7, <3>1, <3>2 DEF Fault
  <2>8. QED
    BY <1>3, <2>1, <2>2, <2>3, <2>4, <2>5, <2>6, <2>7 DEF Surroundings
<1>4. CASE UNCHANGED vars
  BY <1>4 DEF vars, OneAtATime
<1>5. QED BY <1>1, <1>2, <1>3, <1>4 DEF Next

LEMMA OneInit == Init => OneAtATime
<1> SUFFICES ASSUME Init, NEW i \in Instances
             PROVE  mutex # i /\ main[i] \notin Past
  BY DEF OneAtATime, Past
<1>1. mutex = Nobody /\ main[i] = "none"
  BY DEF Init
<1>2. QED BY <1>1, InstancesAssumption DEF Past, Working

\* acquire_instance_mutex keeps every other process in front of the crash prompt
\* until this one has ended, however it ends.
THEOREM OneAutoCore == Spec => []OneAtATime
BY TypeInit, TypeStep, OneInit, OneStep, PTL DEF Spec

-----------------------------------------------------------------------------
(***************************************************************************)
(* The crash prompt.                                                       *)
(***************************************************************************)

\* A recorded crash has its marker until a user has seen it.
UnseenMarked == unseen => marker

LEMMA UnseenStep == TypeOK /\ UnseenMarked /\ [Next]_vars => UnseenMarked'
<1> SUFFICES ASSUME TypeOK, UnseenMarked, [Next]_vars PROVE UnseenMarked'
  OBVIOUS
<1> USE DEF UnseenMarked
<1>1. ASSUME NEW i \in Instances, MainStep(i) PROVE UnseenMarked'
  BY <1>1 DEF MainStep, Acquire, CheckMarker, Enable, Started, EndInvoke, MainCloses,
              QuitTaken, MainReturns
<1>2. ASSUME NEW i \in Instances, FilterStep(i) PROVE UnseenMarked'
  <2> PICK t \in Threads : ThreadFilters(i, t)
    BY <1>2 DEF FilterStep
  <2>1. CASE WriteMarker(i, t) BY <2>1 DEF WriteMarker
  <2>2. CASE MarkerFails(i, t)
    <3>1. unseen' = unseen /\ (marker' = marker \/ marker' = TRUE)
      BY <2>2 DEF MarkerFails
    <3>2. QED BY <3>1
  <2>3. ASSUME ~WriteMarker(i, t), ~MarkerFails(i, t) PROVE UNCHANGED <<marker, unseen>>
    BY <2>3 DEF ThreadFilters, Spawn, SpawnFails, FilterCloses, FilterClosed, FilterExits
  <2>4. QED BY <2>1, <2>2, <2>3 DEF ThreadFilters
<1>3. ASSUME NEW i \in Instances, Surroundings(i) PROVE UnseenMarked'
  BY <1>3 DEF Surroundings, UserStarts, StartFails, AnswerYes, AnswerNo, BeginInvoke,
              ComponentStalls, CloseAsked, ShutdownsCollide, Fault
<1>4. CASE UNCHANGED vars
  BY <1>4 DEF vars
<1>5. QED BY <1>1, <1>2, <1>3, <1>4 DEF Next

\* Only two steps bring a process to its start: no marker, or a Yes.
LEMMA PassingStep ==
  ASSUME TypeOK, UnseenMarked, [Next]_vars, NEW i \in Instances,
         main[i] # "passed", main'[i] = "passed"
  PROVE  ~unseen'
<1> DEFINE Elsewhere(p, place) == Move(p, place) /\ place # "passed"
<1>0. ASSUME NEW p \in Instances, NEW place, Elsewhere(p, place) PROVE FALSE
  BY <1>0 DEF Move, TypeOK
<1>e. ASSUME NEW p \in Instances, NEW how, End(p, how) PROVE FALSE
  BY <1>e DEF End, TypeOK
<1>u. ~UNCHANGED main
  OBVIOUS
<1> HIDE DEF Elsewhere
<1>1. ASSUME NEW p \in Instances, MainStep(p) PROVE ~unseen'
  <2>1. CASE CheckMarker(p)
    <3>1. CASE marker
      <4>1. Elsewhere(p, "prompted") BY <2>1, <3>1 DEF CheckMarker, Elsewhere
      <4>2. QED BY <4>1, <1>0
    <3>2. CASE ~marker BY <2>1, <3>2 DEF CheckMarker, UnseenMarked
    <3>3. QED BY <3>1, <3>2
  <2>2. ~Acquire(p)
    <3>1. Acquire(p) => Elsewhere(p, "checking") BY DEF Acquire, Elsewhere
    <3>2. QED BY <3>1, <1>0
  <2>3. ~Enable(p) /\ ~Started(p) /\ ~QuitTaken(p)
    <3>1. Enable(p) => Elsewhere(p, "starting") BY DEF Enable, Elsewhere
    <3>2. Started(p) => Elsewhere(p, "looping") BY DEF Started, Elsewhere
    <3>3. QuitTaken(p) => Elsewhere(p, "leaving") BY DEF QuitTaken, Elsewhere
    <3>4. QED BY <3>1, <3>2, <3>3, <1>0
  <2>4. ~EndInvoke(p) /\ ~MainCloses(p)
    <3>1. EndInvoke(p) => Elsewhere(p, "looping") BY DEF EndInvoke, Elsewhere
    <3>2. MainCloses(p) => Elsewhere(p, "looping") BY DEF MainCloses, Elsewhere
    <3>3. QED BY <3>1, <3>2, <1>0
  <2>5. ~MainReturns(p) BY <1>e DEF MainReturns
  <2>6. QED BY <1>1, <2>1, <2>2, <2>3, <2>4, <2>5 DEF MainStep
<1>2. ASSUME NEW p \in Instances, FilterStep(p) PROVE FALSE
  <2> PICK t \in Threads : ThreadFilters(p, t)
    BY <1>2 DEF FilterStep
  <2>1. ~WriteMarker(p, t) /\ ~FilterCloses(p, t) /\ ~FilterClosed(p, t)
    BY <1>u DEF WriteMarker, FilterCloses, FilterClosed
  <2>2. ~MarkerFails(p, t) /\ ~SpawnFails(p, t) /\ ~FilterExits(p, t)
    BY <1>e DEF MarkerFails, SpawnFails, FilterExits
  <2>3. ASSUME NEW j \in Instances, Spawn(p, t, j) PROVE FALSE
    <3>1. Elsewhere(j, "acquiring") BY <2>3 DEF Spawn, Elsewhere
    <3>2. QED BY <3>1, <1>0
  <2>4. QED BY <2>1, <2>2, <2>3 DEF ThreadFilters
<1>3. ASSUME NEW p \in Instances, Surroundings(p) PROVE ~unseen'
  <2>1. CASE AnswerYes(p) BY <2>1 DEF AnswerYes
  <2>2. ~StartFails(p) /\ ~AnswerNo(p) /\ ~ShutdownsCollide(p)
    BY <1>e DEF StartFails, AnswerNo, ShutdownsCollide
  <2>3. ~UserStarts(p) /\ ~BeginInvoke(p) /\ ~CloseAsked(p)
    <3>1. UserStarts(p) => Elsewhere(p, "acquiring") BY DEF UserStarts, Elsewhere
    <3>2. BeginInvoke(p) => Elsewhere(p, "invoking") BY DEF BeginInvoke, Elsewhere
    <3>3. CloseAsked(p) => Elsewhere(p, "closing") BY DEF CloseAsked, Elsewhere
    <3>4. QED BY <3>1, <3>2, <3>3, <1>0
  <2>4. ~ComponentStalls(p) BY <1>u DEF ComponentStalls
  <2>5. ASSUME NEW t \in Threads PROVE ~Fault(p, t)
    BY <1>u, <1>e DEF Fault
  <2>6. QED BY <1>3, <2>1, <2>2, <2>3, <2>4, <2>5 DEF Surroundings
<1>4. QED BY <1>u, <1>1, <1>2, <1>3 DEF Next, vars

\* check_for_previous_crash: nobody installs the hook over a crash that was
\* recorded and that no user has acknowledged.
THEOREM NoSilentRestart == Spec => CrashAcknowledged
<1>1. Init => UnseenMarked
  BY DEF Init, UnseenMarked
<1>2. Spec => [](TypeOK /\ UnseenMarked)
  BY <1>1, TypeInit, TypeStep, UnseenStep, PTL DEF Spec
<1>3. TypeOK /\ UnseenMarked /\ [Next]_vars
      => [\A i \in Instances :
            main[i] # "passed" /\ main'[i] = "passed" => ~unseen']_vars
  BY PassingStep
<1>4. QED BY <1>2, <1>3, PTL DEF Spec, CrashAcknowledged

-----------------------------------------------------------------------------
(***************************************************************************)
(* The claim of the filter.                                                *)
(***************************************************************************)

\* One thread at most has claimed the recovery, and until it starts a process
\* none has been started.
Claim(i) ==
  /\ \A t, u \in Threads : filter[i][t] # "none" /\ filter[i][u] # "none" => t = u
  /\ \A t \in Threads : filter[i][t] # "none" => claimed[i]
  /\ \A t \in Threads : filter[i][t] \in {"claimed", "marked"} => restarts[i] = {}
  /\ ~claimed[i] => restarts[i] = {}
  /\ \A j, k \in restarts[i] : j = k
Claims == \A i \in Instances : Claim(i)

\* A process whose filter, claim and children stay as they are keeps its claim.
LEMMA ClaimApart ==
  ASSUME NEW i \in Instances, Claim(i), filter'[i] = filter[i], claimed'[i] = claimed[i],
         restarts'[i] = restarts[i]
  PROVE  Claim(i)'
BY DEF Claim

\* So does one that ends.
LEMMA ClaimEnds ==
  ASSUME TypeOK, Claims, NEW p \in Instances, NEW how, End(p, how),
         UNCHANGED <<claimed, restarts>>
  PROVE  Claims'
<1>1. \A i \in Instances \ {p} : filter'[i] = filter[i]
  BY DEF End, TypeOK
<1>2. \A t \in Threads : filter'[p][t] = "none"
  BY DEF End, TypeOK
<1>3. Claim(p)'
  BY <1>2 DEF Claims, Claim
<1>4. QED BY <1>1, <1>3, ClaimApart DEF Claims

\* And one whose claiming thread goes on.
LEMMA ClaimMoves ==
  ASSUME TypeOK, Claims, NEW p \in Instances, NEW t \in Threads, NEW step \in Steps,
         Step(p, t, step), filter[p][t] # "none",
         step \in {"claimed", "marked"} => restarts[p] = {},
         UNCHANGED <<claimed, restarts>>
  PROVE  Claims'
<1>1. \A i \in Instances \ {p} : filter'[i] = filter[i]
  BY DEF Step, TypeOK
<1>2. filter'[p][t] = step /\ \A u \in Threads \ {t} : filter'[p][u] = filter[p][u]
  BY DEF Step, TypeOK
<1>3. \A u \in Threads \ {t} : filter[p][u] = "none"
  BY DEF Claims, Claim
<1>4. Claim(p)'
  BY <1>2, <1>3 DEF Claims, Claim
<1>5. QED BY <1>1, <1>4, ClaimApart DEF Claims

LEMMA ClaimStep == TypeOK /\ Claims /\ [Next]_vars => Claims'
<1> SUFFICES ASSUME TypeOK, Claims, [Next]_vars PROVE Claims'
  OBVIOUS
<1>u. ASSUME UNCHANGED <<filter, claimed, restarts>> PROVE Claims'
  BY <1>u DEF Claims, Claim
<1>1. ASSUME NEW p \in Instances, MainStep(p) PROVE Claims'
  <2>1. CASE MainReturns(p) BY <2>1, ClaimEnds DEF MainReturns
  <2>2. CASE ~MainReturns(p)
    BY <1>1, <2>2, <1>u DEF MainStep, Acquire, CheckMarker, Enable, Started, EndInvoke,
                            MainCloses, QuitTaken
  <2>3. QED BY <2>1, <2>2
<1>2. ASSUME NEW p \in Instances, FilterStep(p) PROVE Claims'
  <2> PICK t \in Threads : ThreadFilters(p, t)
    BY <1>2 DEF FilterStep
  <2>1. CASE WriteMarker(p, t)
    <3>1. restarts[p] = {} BY <2>1 DEF WriteMarker, Claims, Claim
    <3>2. QED BY <2>1, <3>1, ClaimMoves DEF WriteMarker, Steps
  <2>2. CASE MarkerFails(p, t) \/ SpawnFails(p, t) \/ FilterExits(p, t)
    BY <2>2, ClaimEnds DEF MarkerFails, SpawnFails, FilterExits
  <2>3. ASSUME NEW j \in Instances, Spawn(p, t, j) PROVE Claims'
    <3>1. \A i \in Instances \ {p} : filter'[i] = filter[i] /\ restarts'[i] = restarts[i]
      BY <2>3 DEF Spawn, Step, TypeOK
    <3>2. restarts'[p] = {j}
      BY <2>3 DEF Spawn, TypeOK, Claims, Claim
    <3>3. filter'[p][t] = "spawned" /\ \A u \in Threads \ {t} : filter'[p][u] = filter[p][u]
      BY <2>3 DEF Spawn, Step, TypeOK
    <3>4. (\A u \in Threads \ {t} : filter[p][u] = "none") /\ claimed[p]
      BY <2>3 DEF Spawn, Claims, Claim
    <3>5. Claim(p)'
      BY <2>3, <3>2, <3>3, <3>4 DEF Spawn, Claim
    <3>6. QED BY <2>3, <3>1, <3>5, ClaimApart DEF Spawn, Claims
  <2>4. CASE FilterCloses(p, t)
    BY <2>4, ClaimMoves DEF FilterCloses, Steps
  <2>5. CASE FilterClosed(p, t)
    BY <2>5, ClaimMoves DEF FilterClosed, Steps
  <2>6. QED BY <2>1, <2>2, <2>3, <2>4, <2>5 DEF ThreadFilters
<1>3. ASSUME NEW p \in Instances, Surroundings(p) PROVE Claims'
  <2>1. CASE StartFails(p) \/ AnswerNo(p) \/ ShutdownsCollide(p)
    BY <2>1, ClaimEnds DEF StartFails, AnswerNo, ShutdownsCollide
  <2>2. ASSUME NEW t \in Threads, Fault(p, t) PROVE Claims'
    <3>1. CASE End(p, "fault") /\ UNCHANGED claimed
      BY <2>2, <3>1, ClaimEnds DEF Fault
    <3>2. CASE ~claimed[p] /\ claimed' = [claimed EXCEPT ![p] = TRUE]
               /\ Step(p, t, "claimed")
      <4>1. \A i \in Instances \ {p} : filter'[i] = filter[i] /\ claimed'[i] = claimed[i]
        BY <3>2 DEF Step, TypeOK
      <4>2. \A u \in Threads : filter[p][u] = "none"
        BY <3>2 DEF Claims, Claim
      <4>3. /\ filter'[p][t] = "claimed" /\ claimed'[p]
            /\ \A u \in Threads \ {t} : filter'[p][u] = "none"
        BY <3>2, <4>2 DEF Step, TypeOK
      <4>4. restarts'[p] = {} BY <2>2, <3>2 DEF Fault, Claims, Claim
      <4>5. Claim(p)' BY <4>3, <4>4 DEF Claim
      <4>6. QED BY <2>2, <4>1, <4>5, ClaimApart DEF Fault, Claims
    <3>3. QED BY <2>2, <3>1, <3>2 DEF Fault
  <2>3. CASE UserStarts(p) \/ AnswerYes(p) \/ BeginInvoke(p) \/ ComponentStalls(p)
             \/ CloseAsked(p)
    BY <2>3, <1>u DEF UserStarts, AnswerYes, BeginInvoke, ComponentStalls, CloseAsked
  <2>4. QED BY <1>3, <2>1, <2>2, <2>3 DEF Surroundings
<1>4. CASE UNCHANGED vars
  BY <1>4, <1>u DEF vars
<1>5. QED BY <1>1, <1>2, <1>3, <1>4 DEF Next

\* crash_recovery_claimed lets one thread of a process start the next Auto Core,
\* whichever threads fault and in whatever order.
THEOREM OneRestart == Spec => []OneSuccessor
<1>1. Init => Claims
  <2> SUFFICES ASSUME Init, NEW i \in Instances PROVE Claim(i)
    BY DEF Claims
  <2>1. restarts[i] = {} /\ \A t \in Threads : filter[i][t] = "none"
    BY DEF Init
  <2>2. QED BY <2>1 DEF Claim
<1>2. Claims => OneSuccessor
  BY DEF Claims, Claim, OneSuccessor
<1>3. QED BY <1>1, <1>2, TypeInit, TypeStep, ClaimStep, PTL DEF Spec
=============================================================================
