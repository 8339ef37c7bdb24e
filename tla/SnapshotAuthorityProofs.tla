----------------------- MODULE SnapshotAuthorityProofs -----------------------
(***************************************************************************)
(* For any number of connections and generations: the types, that          *)
(* stop_authority leaves no thread, and that a publisher waits in vain     *)
(* only when a notification went past it as it entered its wait.           *)
(***************************************************************************)
EXTENDS SnapshotAuthority, TLAPS

\* What the places of the threads say about the data: there is nothing before the
\* start, one calculation at a time, and it has a generation left to publish.
Phases ==
  /\ calc # "none" => calculating
  /\ main = "start" => local = 0 /\ calc = "none"
  /\ calc = "measures" => local < MaxGeneration
  /\ \A c \in Clients : pub[c] = "writing" => last[c] > 0

\* How far the joins of stop_authority have got.
Joined ==
  /\ main \in {"joinCalc", "joinPublishers", "stopped"} => server = "ended"
  /\ main \in {"joinPublishers", "stopped"} => calc = "none"
  /\ main = "stopped" => \A c \in Clients : pub[c] \in {"none", "ended"}

Typed == TypeOK /\ Phases

-----------------------------------------------------------------------------
\* notify_all moves publishers between their places.
LEMMA NotifyTyped ==
  ASSUME TypeOK, NotifyAll
  PROVE  /\ pub' \in [Clients -> PublisherPlaces]
         /\ missed' \subseteq Clients
         /\ \A c \in Clients : pub'[c] = "writing" => pub[c] = "writing"
<1>1. pub' \in [Clients -> PublisherPlaces]
  BY DEF NotifyAll, TypeOK, PublisherPlaces
<1>2. missed' \subseteq Clients
  BY DEF NotifyAll
<1>3. \A c \in Clients : pub'[c] = "writing" => pub[c] = "writing"
  BY DEF NotifyAll
<1>4. QED BY <1>1, <1>2, <1>3

LEMMA InitTyped == Init => Typed
<1> SUFFICES ASSUME Init PROVE Typed
  OBVIOUS
<1>1. 0 \in 0..MaxGeneration
  BY BoundsAssumption
<1>2. /\ alive \in BOOLEAN /\ running \in BOOLEAN /\ calculating \in BOOLEAN
      /\ uncanceled \in BOOLEAN /\ missed \subseteq Clients
  BY DEF Init
<1>3. main \in MainPlaces /\ calc \in CalcPlaces /\ server \in ServerPlaces
  BY DEF Init, MainPlaces, Starting, CalcPlaces, ServerPlaces
<1>4. /\ pub \in [Clients -> PublisherPlaces] /\ client \in [Clients -> ClientPlaces]
      /\ listener \in [Clients -> ListenerPlaces]
  BY DEF Init, PublisherPlaces, ClientPlaces, ListenerPlaces
<1>5. /\ last \in [Clients -> 0..MaxGeneration] /\ wire \in [Clients -> 0..MaxGeneration]
      /\ seen \in [Clients -> 0..MaxGeneration] /\ local \in 0..MaxGeneration
  BY <1>1 DEF Init
<1>6. Phases
  BY DEF Init, Phases
<1>7. QED BY <1>2, <1>3, <1>4, <1>5, <1>6 DEF Typed, TypeOK

LEMMA MainTyped == Typed /\ (MainStep \/ Refresh \/ StopBegins \/ Killed) => Typed'
<1> SUFFICES ASSUME Typed, MainStep \/ Refresh \/ StopBegins \/ Killed PROVE Typed'
  OBVIOUS
<1> USE BoundsAssumption
    DEF Typed, TypeOK, Phases, MainPlaces, Starting, Stopping, CalcPlaces, ServerPlaces,
        PublisherPlaces, calculation, data, publishing, clients, history
<1>1. CASE StartCached
  <2>1. local' \in 0..MaxGeneration BY <1>1 DEF StartCached
  <2>2. QED BY <1>1, <2>1 DEF StartCached
<1>2. CASE NotifyCached
  <2>1. NotifyAll BY <1>2 DEF NotifyCached
  <2>2. QED BY <1>2, NotifyTyped, <2>1 DEF NotifyCached
<1>3. CASE StartCalculated BY <1>3 DEF StartCalculated
<1>4. CASE Ready BY <1>4 DEF Ready
<1>5. CASE StopNotifies BY <1>5, NotifyTyped DEF StopNotifies
<1>6. CASE StopCancels BY <1>6 DEF StopCancels
<1>7. CASE JoinServer \/ JoinCalculation \/ JoinPublishers
  BY <1>7 DEF JoinServer, JoinCalculation, JoinPublishers
<1>8. CASE Refresh BY <1>8 DEF Refresh
<1>9. CASE StopBegins \/ Killed BY <1>9 DEF StopBegins, Killed
<1>10. QED
  BY <1>1, <1>2, <1>3, <1>4, <1>5, <1>6, <1>7, <1>8, <1>9 DEF MainStep

LEMMA AuthorityTyped ==
  Typed /\ (CalculationStep \/ ServerStep \/ CreatePipeFails) => Typed'
<1> SUFFICES ASSUME Typed, CalculationStep \/ ServerStep \/ CreatePipeFails PROVE Typed'
  OBVIOUS
<1> USE BoundsAssumption
    DEF Typed, TypeOK, Phases, CalcPlaces, ServerPlaces, PublisherPlaces,
        calculation, data, publishing, clients, history
<1>1. CASE Calculate
  <2>1. local' \in 0..MaxGeneration BY <1>1 DEF Calculate
  <2>2. main # "start" BY <1>1 DEF Calculate
  <2>3. QED BY <1>1, <2>1, <2>2 DEF Calculate
<1>2. CASE NotifyCalculated
  <2>1. NotifyAll BY <1>2 DEF NotifyCalculated
  <2>2. QED BY <1>2, NotifyTyped, <2>1 DEF NotifyCalculated
<1>3. CASE EndCalculation BY <1>3 DEF EndCalculation
<1>4. CASE CreatePipe \/ CreatePipeFails \/ Listen
  BY <1>4 DEF CreatePipe, CreatePipeFails, Listen
<1>5. ASSUME NEW c \in Clients, StartPublisher(c) PROVE Typed'
  BY <1>5 DEF StartPublisher
<1>6. QED BY <1>1, <1>2, <1>3, <1>4, <1>5 DEF CalculationStep, ServerStep

LEMMA PublisherTyped ==
  ASSUME Typed, NEW c \in Clients,
         PublisherStep(c) \/ DropClient(c) \/ WakeSpuriously(c)
  PROVE  Typed'
<1> USE BoundsAssumption
    DEF Typed, TypeOK, Phases, ServerPlaces, PublisherPlaces, authority, calculation,
        clients, history
<1>1. CASE TakeSnapshot(c) BY <1>1 DEF TakeSnapshot
<1>2. CASE FindNothing(c) \/ Wait(c) BY <1>2 DEF FindNothing, Wait
<1>3. CASE WriteSnapshot(c) BY <1>3 DEF WriteSnapshot
<1>4. CASE EndPublisher(c) BY <1>4 DEF EndPublisher
<1>5. CASE DropClient(c) BY <1>5 DEF DropClient
<1>6. CASE WakeSpuriously(c) BY <1>6 DEF WakeSpuriously
<1>7. QED BY <1>1, <1>2, <1>3, <1>4, <1>5, <1>6 DEF PublisherStep

LEMMA ClientTyped ==
  ASSUME Typed, NEW c \in Clients,
         \/ ConnectingStep(c) \/ ListenerStep(c)
         \/ Connect(c) \/ Disconnect(c) \/ ClientDies(c)
  PROVE  Typed'
<1> USE BoundsAssumption
    DEF Typed, TypeOK, Phases, ServerPlaces, PublisherPlaces, ClientPlaces,
        ListenerPlaces, authority, calculation, publishing, history
<1>1. CASE Connect(c) BY <1>1 DEF Connect
<1>2. CASE ReadFirst(c) BY <1>2 DEF ReadFirst
<1>3. CASE ReadFirstFails(c) \/ CloseClientPipe(c) \/ JoinListener(c)
  BY <1>3 DEF ReadFirstFails, CloseClientPipe, JoinListener
<1>4. CASE CancelListener(c) \/ Disconnect(c)
  BY <1>4 DEF CancelListener, Disconnect, Canceled
<1>5. CASE ClientDies(c) BY <1>5 DEF ClientDies
<1>6. CASE ListenerLoops(c) \/ ListenerReads(c) \/ ListenerEnds(c)
  BY <1>6 DEF ListenerLoops, ListenerReads, ListenerEnds
<1>7. CASE ListenerInstalls(c) BY <1>7 DEF ListenerInstalls
<1>8. QED
  BY <1>1, <1>2, <1>3, <1>4, <1>5, <1>6, <1>7 DEF ConnectingStep, ListenerStep

LEMMA TypedStep == Typed /\ [Next]_vars => Typed'
<1> SUFFICES ASSUME Typed, [Next]_vars PROVE Typed'
  OBVIOUS
<1>1. CASE UNCHANGED vars
  BY <1>1 DEF vars, authority, calculation, data, publishing, clients, history, Typed, TypeOK,
              Phases
<1>2. CASE Next
  BY <1>2, MainTyped, AuthorityTyped, PublisherTyped, ClientTyped DEF Next, Occurs
<1>3. QED BY <1>1, <1>2

\* Every variable keeps to its values.
THEOREM TypeCorrect == Spec => []TypeOK
<1>1. Spec => []Typed
  BY InitTyped, TypedStep, PTL DEF Spec
<1>2. Typed => TypeOK
  BY DEF Typed
<1>3. QED BY <1>1, <1>2, PTL

-----------------------------------------------------------------------------
LEMMA JoinedMain ==
  Typed /\ Joined /\ (MainStep \/ Refresh \/ StopBegins \/ Killed) => Joined'
<1> SUFFICES ASSUME Typed, Joined, MainStep \/ Refresh \/ StopBegins \/ Killed
             PROVE  Joined'
  OBVIOUS
<1> USE DEF Joined, calculation, data, publishing
<1>1. CASE StartCached \/ StartCalculated \/ Ready
  BY <1>1 DEF StartCached, StartCalculated, Ready
<1>2. CASE NotifyCached \/ StopNotifies
  BY <1>2 DEF NotifyCached, StopNotifies
<1>3. CASE StopCancels
  BY <1>3 DEF StopCancels
<1>4. CASE JoinServer \/ JoinCalculation \/ JoinPublishers
  BY <1>4 DEF JoinServer, JoinCalculation, JoinPublishers
<1>5. CASE Refresh \/ StopBegins \/ Killed
  BY <1>5 DEF Refresh, StopBegins, Killed
<1>6. QED BY <1>1, <1>2, <1>3, <1>4, <1>5 DEF MainStep

LEMMA JoinedAuthority ==
  Typed /\ Joined /\ (CalculationStep \/ ServerStep \/ CreatePipeFails) => Joined'
<1> SUFFICES ASSUME Typed, Joined, CalculationStep \/ ServerStep \/ CreatePipeFails
             PROVE  Joined'
  OBVIOUS
<1> USE DEF Joined, calculation, data, publishing
<1>1. CASE Calculate \/ EndCalculation
  BY <1>1 DEF Calculate, EndCalculation
<1>2. CASE NotifyCalculated
  BY <1>2 DEF NotifyCalculated, NotifyAll
<1>3. CASE CreatePipe \/ CreatePipeFails \/ Listen
  BY <1>3 DEF CreatePipe, CreatePipeFails, Listen
<1>4. ASSUME NEW c \in Clients, StartPublisher(c) PROVE Joined'
  BY <1>4 DEF StartPublisher
<1>5. QED BY <1>1, <1>2, <1>3, <1>4 DEF CalculationStep, ServerStep

LEMMA JoinedConnection ==
  ASSUME Typed, Joined, NEW c \in Clients,
         \/ PublisherStep(c) \/ DropClient(c) \/ WakeSpuriously(c)
         \/ ConnectingStep(c) \/ ListenerStep(c)
         \/ Connect(c) \/ Disconnect(c) \/ ClientDies(c)
  PROVE  Joined'
<1> USE DEF Joined, authority, calculation, publishing, Typed, TypeOK
<1>1. CASE PublisherStep(c)
  BY <1>1 DEF PublisherStep, TakeSnapshot, FindNothing, Wait, WriteSnapshot, EndPublisher
<1>2. CASE DropClient(c) \/ WakeSpuriously(c)
  BY <1>2 DEF DropClient, WakeSpuriously
<1>3. CASE Connect(c)
  BY <1>3 DEF Connect
<1>4. CASE ConnectingStep(c)
  BY <1>4 DEF ConnectingStep, ReadFirst, ReadFirstFails, CloseClientPipe, CancelListener,
              JoinListener
<1>5. CASE ListenerStep(c)
  BY <1>5 DEF ListenerStep, ListenerLoops, ListenerReads, ListenerInstalls, ListenerEnds
<1>6. CASE Disconnect(c) \/ ClientDies(c)
  BY <1>6 DEF Disconnect, ClientDies
<1>7. QED BY <1>1, <1>2, <1>3, <1>4, <1>5, <1>6

LEMMA JoinedStep == Typed /\ Joined /\ [Next]_vars => Joined'
<1> SUFFICES ASSUME Typed, Joined, [Next]_vars PROVE Joined'
  OBVIOUS
<1>1. CASE UNCHANGED vars
  BY <1>1 DEF vars, authority, calculation, data, publishing, Joined
<1>2. CASE Next
  BY <1>2, JoinedMain, JoinedAuthority, JoinedConnection DEF Next, Occurs
<1>3. QED BY <1>1, <1>2

\* When stop_authority returns, the server, the calculation and every publisher
\* have ended.
THEOREM StopJoinsAll == Spec => []StopLeavesNoThread
<1>1. Init => Joined
  BY DEF Init, Joined
<1>2. Spec => [](Typed /\ Joined)
  BY InitTyped, TypedStep, <1>1, JoinedStep, PTL DEF Spec
<1>3. Joined => StopLeavesNoThread
  BY DEF Joined, StopLeavesNoThread
<1>4. QED BY <1>2, <1>3, PTL

-----------------------------------------------------------------------------
\* A notification wakes whoever waits and notes whoever is about to.
LEMMA NotifyNotes ==
  ASSUME TypeOK, NotifyAll, NEW c \in Clients, pub'[c] \in {"entering", "waiting"}
  PROVE  c \in missed'
<1>1. pub[c] = "entering"
  BY DEF NotifyAll, TypeOK
<1>2. QED BY <1>1 DEF NotifyAll

LEMMA NotifyWakes ==
  ASSUME TypeOK, NotifyAll PROVE WaitsInVainOnlyIfMissed'
BY NotifyNotes DEF WaitsInVainOnlyIfMissed

LEMMA VainMain ==
  Typed /\ WaitsInVainOnlyIfMissed /\ (MainStep \/ Refresh \/ StopBegins \/ Killed)
    => WaitsInVainOnlyIfMissed'
<1> SUFFICES ASSUME Typed, WaitsInVainOnlyIfMissed,
                    MainStep \/ Refresh \/ StopBegins \/ Killed
             PROVE  WaitsInVainOnlyIfMissed'
  OBVIOUS
<1> USE DEF WaitsInVainOnlyIfMissed, calculation, data, publishing, history
<1>1. CASE StartCached
  BY <1>1 DEF StartCached
<1>2. CASE NotifyCached \/ StopNotifies
  BY <1>2, NotifyWakes DEF NotifyCached, StopNotifies, Typed
<1>3. CASE StartCalculated
  BY <1>3 DEF StartCalculated, Typed, Phases
<1>4. CASE Ready
  BY <1>4 DEF Ready
<1>10. CASE Refresh
  <2>1. calc = "none" /\ main = "serving" BY <1>10 DEF Refresh, Typed, Phases
  <2>2. QED BY <1>10, <2>1 DEF Refresh
<1>5. CASE StopCancels
  BY <1>5 DEF StopCancels
<1>6. CASE JoinServer \/ JoinCalculation \/ JoinPublishers
  BY <1>6 DEF JoinServer, JoinCalculation, JoinPublishers
<1>7. CASE StopBegins
  BY <1>7 DEF StopBegins
<1>8. CASE Killed
  BY <1>8 DEF Killed
<1>9. QED BY <1>1, <1>2, <1>3, <1>4, <1>5, <1>6, <1>7, <1>8, <1>10 DEF MainStep

LEMMA VainAuthority ==
  Typed /\ WaitsInVainOnlyIfMissed /\ (CalculationStep \/ ServerStep \/ CreatePipeFails)
    => WaitsInVainOnlyIfMissed'
<1> SUFFICES ASSUME Typed, WaitsInVainOnlyIfMissed,
                    CalculationStep \/ ServerStep \/ CreatePipeFails
             PROVE  WaitsInVainOnlyIfMissed'
  OBVIOUS
<1> USE DEF WaitsInVainOnlyIfMissed, calculation, data, publishing, history
<1>1. CASE Calculate
  BY <1>1 DEF Calculate
<1>2. CASE NotifyCalculated
  BY <1>2, NotifyWakes DEF NotifyCalculated, Typed
<1>3. CASE EndCalculation
  BY <1>3 DEF EndCalculation
<1>4. CASE CreatePipe \/ CreatePipeFails \/ Listen
  BY <1>4 DEF CreatePipe, CreatePipeFails, Listen
<1>5. ASSUME NEW c \in Clients, StartPublisher(c) PROVE WaitsInVainOnlyIfMissed'
  BY <1>5 DEF StartPublisher, Typed, TypeOK
<1>6. QED BY <1>1, <1>2, <1>3, <1>4, <1>5 DEF CalculationStep, ServerStep

LEMMA VainConnection ==
  ASSUME Typed, WaitsInVainOnlyIfMissed, NEW c \in Clients,
         \/ PublisherStep(c) \/ DropClient(c) \/ WakeSpuriously(c)
         \/ ConnectingStep(c) \/ ListenerStep(c)
         \/ Connect(c) \/ Disconnect(c) \/ ClientDies(c)
  PROVE  WaitsInVainOnlyIfMissed'
<1> USE DEF WaitsInVainOnlyIfMissed, authority, calculation, publishing, history,
            Typed, TypeOK
<1>1. CASE TakeSnapshot(c)
  BY <1>1 DEF TakeSnapshot
<1>2. CASE FindNothing(c)
  BY <1>2 DEF FindNothing
<1>3. CASE Wait(c)
  BY <1>3 DEF Wait
<1>4. CASE WriteSnapshot(c) \/ EndPublisher(c)
  BY <1>4 DEF WriteSnapshot, EndPublisher
<1>5. CASE DropClient(c) \/ WakeSpuriously(c)
  BY <1>5 DEF DropClient, WakeSpuriously
<1>6. CASE Connect(c)
  BY <1>6 DEF Connect
<1>7. CASE ConnectingStep(c)
  BY <1>7 DEF ConnectingStep, ReadFirst, ReadFirstFails, CloseClientPipe, CancelListener,
              JoinListener
<1>8. CASE ListenerStep(c)
  BY <1>8 DEF ListenerStep, ListenerLoops, ListenerReads, ListenerInstalls, ListenerEnds
<1>9. CASE Disconnect(c) \/ ClientDies(c)
  BY <1>9 DEF Disconnect, ClientDies
<1>10. QED
  BY <1>1, <1>2, <1>3, <1>4, <1>5, <1>6, <1>7, <1>8, <1>9 DEF PublisherStep

LEMMA VainStep ==
  Typed /\ WaitsInVainOnlyIfMissed /\ [Next]_vars => WaitsInVainOnlyIfMissed'
<1> SUFFICES ASSUME Typed, WaitsInVainOnlyIfMissed, [Next]_vars
             PROVE  WaitsInVainOnlyIfMissed'
  OBVIOUS
<1>1. CASE UNCHANGED vars
  BY <1>1 DEF vars, authority, calculation, data, publishing, history,
              WaitsInVainOnlyIfMissed
<1>2. CASE Next
  BY <1>2, VainMain, VainAuthority, VainConnection DEF Next, Occurs
<1>3. QED BY <1>1, <1>2

\* A publisher with something to do goes to wait only when the notification came
\* between its look and its wait: that moment is the one flaw of the protocol.
THEOREM OnlyMissed == Spec => []WaitsInVainOnlyIfMissed
<1>1. Init => WaitsInVainOnlyIfMissed
  BY DEF Init, WaitsInVainOnlyIfMissed
<1>2. QED BY InitTyped, TypedStep, <1>1, VainStep, PTL DEF Spec
=============================================================================
