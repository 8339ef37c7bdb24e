----------------------- MODULE EpisodeServiceProofs ------------------------
(***************************************************************************)
(* The two promises about episode numbers, for any number of owners, title *)
(* workers, instances and mishaps.  One instance holds the serve mutex, so *)
(* a count stays as the holder's last commit left it until its reply; one  *)
(* worker holds title_action_mutex from its request to its push.           *)
(***************************************************************************)
EXTENDS EpisodeService, TLAPS

Asks == {"asked", "adding", "setting", "padding"}
WorkerJobs == {"idle", "lock", "ask", "asked", "push"}
ToolJobs == {"idle", "selecting", "adding", "updating", "resolve", "created",
             "setting", "padding", "truncate", "write"}
Writes == [kind : {"none"} \cup Asks, series : Series \cup {None}, to : Nat]

Types ==
  /\ TypeOK
  /\ job \in [Clients -> WorkerJobs \cup ToolJobs]
  /\ reply \in [Clients -> {"none", "sent", "ok", "unknown", "failed"}]
  /\ write \in [Services -> Writes]

(* An owner that waits for its instance has one.                           *)
Children ==
  \A o \in Owners :
    /\ place[o] \in {"out", "probing"} => ~owns[o]
    /\ place[o] \in {"probing", "probed", "stopping", "waiting"} => child[o] # None
    /\ owns[o] /\ place[o] = "up" => child[o] # None

(* A reply belongs to a request; the session that serves a title worker is *)
(* the only one and has the worker's request.                              *)
Requests ==
  /\ \A c \in Clients : reply[c] # "none" => Asking(c)
  /\ \A w \in Workers : job[w] \in WorkerJobs
  /\ \A s \in Services, w \in Workers : peer[s] = w =>
       /\ reply[w] = "sent"
       /\ \A r \in Services \ {s} : peer[r] # w
       /\ srv[s] \in {"working", "committed"} => write[s].kind = "asked"

(* The serve mutex.                                                        *)
OneServes == \A s, r \in Services : HoldsMutex(s) /\ HoldsMutex(r) => s = r

Working == \A s \in Services : srv[s] \in {"working", "committed"} => write[s].kind \in Asks

(* A committed number that is not reported yet is below the count.         *)
Allocated(s) == srv[s] = "committed" /\ write[s].kind = "asked"

Unreported ==
  \A s \in Services : Allocated(s) =>
    /\ write[s].series \in Series /\ Exists(write[s].series)
    /\ write[s].to \in 1 .. count[write[s].series]

(* A name that is not in the table never had a number.                     *)
Handed ==
  \A n \in Series :
    /\ \A k \in given[n] : k < count[n]
    /\ ~Exists(n) => given[n] = {}

(* What was pushed is behind the table, and behind what is to be pushed.   *)
Behind(n, next) == n \in lowered \/ remote[n] <= next
Numbered(w) == job[w] = "push" \/ (job[w] = "asked" /\ reply[w] = "ok")

Pushed ==
  /\ \A n \in Series : Behind(n, count[n])
  /\ \A s \in Services, w \in Workers : Allocated(s) /\ peer[s] = w =>
       Behind(write[s].series, write[s].to)
  /\ \A w \in Workers : Numbered(w) =>
       /\ key[w] \in Series /\ Behind(key[w], number[w] + 1)
       /\ key[w] \in lowered \/ number[w] + 1 <= count[key[w]]

IInv == /\ Types /\ Children /\ Requests /\ OneServes /\ Working
        /\ Unreported /\ Handed /\ Pushed

-----------------------------------------------------------------------------
(* Sessions that come no further: instances end, sessions end, what is     *)
(* worked on and committed stays, no worker is connected anew.             *)
Places == {"ended", "loading", "loop", "created", "listening"} \cup InSession
SessionTypes ==
  /\ srv \in [Services -> Places]
  /\ peer \in [Services -> Clients \cup Owners \cup {None}]
  /\ reply \in [Clients -> {"none", "sent", "ok", "unknown", "failed"}]
  /\ write \in [Services -> Writes]

ServesNoMore ==
  /\ \A s \in Services : HoldsMutex(s)' => HoldsMutex(s)
  /\ \A s \in Services : srv'[s] \in {"working", "committed"} =>
       srv'[s] = srv[s] /\ write'[s] = write[s]

Narrows ==
  /\ SessionTypes' /\ ServesNoMore
  /\ \A s \in Services : peer'[s] \in Workers => peer'[s] = peer[s]
  /\ \A s \in Services, w \in Workers : peer'[s] = w => reply'[w] = reply[w]
  /\ \A c \in Clients :
       reply'[c] = reply[c] \/ (reply[c] = "sent" /\ reply'[c] \in {"failed", "unknown"})

LEMMA StepKeeps ==
  ASSUME IInv, Types', Children', Requests', ServesNoMore,
         UNCHANGED <<stored, given, lowered, remote>>,
         \A s \in Services, w \in Workers : peer'[s] = w /\ Allocated(s)' => peer[s] = w,
         \A w \in Workers : Numbered(w)' => Numbered(w) /\ key'[w] = key[w]
                                              /\ number'[w] = number[w]
  PROVE  IInv'
<1>1. OneServes' /\ Working'
  BY DEF IInv, OneServes, Working, ServesNoMore
<1>2. Unreported'
  BY DEF IInv, Unreported, Allocated, ServesNoMore, Exists, stored
<1>3. Handed'
  BY DEF IInv, Handed, Exists, stored
<1>4. Pushed'
  BY DEF IInv, Pushed, Behind, Allocated, ServesNoMore, stored
<1> QED BY <1>1, <1>2, <1>3, <1>4 DEF IInv

LEMMA SessionsKeep ==
  ASSUME IInv, Types', Children', Narrows,
         UNCHANGED <<stored, given, lowered, remote, job, key, number>>
  PROVE  IInv'
<1>1. Requests'
  BY DEF IInv, Types, Requests, Asking, Narrows, ServesNoMore, Clients
<1>2. \A w \in Workers : Numbered(w)' => Numbered(w)
  BY DEF Numbered, Narrows, Clients
<1>3. \A s \in Services, w \in Workers : peer'[s] = w => peer[s] = w
  BY DEF Narrows
<1>4. ServesNoMore
  BY DEF Narrows
<1> QED BY <1>1, <1>2, <1>3, <1>4, StepKeeps

LEMMA EndInstanceNarrows ==
  ASSUME IInv, NEW s \in Services, EndInstance(s)
  PROVE  Narrows /\ watch' \in [Services -> {"off", "waiting", "stopping", "canceling"}]
<1>1. SessionTypes' /\ watch' \in [Services -> {"off", "waiting", "stopping", "canceling"}]
  BY DEF IInv, Types, TypeOK, SessionTypes, EndInstance, Disconnected, Places, InSession,
     Writes, NoWrite
<1>2. ServesNoMore
  BY DEF IInv, Types, TypeOK, ServesNoMore, HoldsMutex, EndInstance, Disconnected
<1> QED BY <1>1, <1>2, NamesAssumption
        DEF IInv, Types, TypeOK, Requests, Narrows, EndInstance, Disconnected, Clients

LEMMA EndSessionNarrows ==
  ASSUME IInv, NEW s \in Services, EndSession(s), HoldsMutex(s)
  PROVE  Narrows
<1>1. SessionTypes'
  BY DEF IInv, Types, TypeOK, SessionTypes, EndSession, Disconnected, Places, InSession,
     Writes, NoWrite
<1>2. ServesNoMore
  BY DEF IInv, Types, TypeOK, ServesNoMore, HoldsMutex, EndSession, Disconnected
<1> QED BY <1>1, <1>2, NamesAssumption
        DEF IInv, Types, TypeOK, Requests, Narrows, EndSession, Disconnected, Clients

LEMMA RefusalNarrows ==
  ASSUME IInv, NEW s \in Services, NEW what \in {"failed", "unknown"}, Answer(s, what),
         HoldsMutex(s)
  PROVE  Narrows
<1>1. SessionTypes'
  BY DEF IInv, Types, TypeOK, SessionTypes, Answer, Places, InSession, Writes, NoWrite
<1>2. ServesNoMore
  BY DEF IInv, Types, TypeOK, ServesNoMore, HoldsMutex, Answer
<1> QED BY <1>1, <1>2, NamesAssumption
        DEF IInv, Types, TypeOK, Requests, Narrows, Answer, Clients

(* A session that only moves on.                                           *)
LEMMA PlaceNarrows ==
  ASSUME IInv, NEW s \in Services,
         NEW q \in {"loop", "created", "listening", "attending", "reading"},
         srv' = [srv EXCEPT ![s] = q], HoldsMutex(s), UNCHANGED <<peer, write, reply>>
  PROVE  Narrows
BY DEF IInv, Types, TypeOK, SessionTypes, Places, InSession, ServesNoMore, HoldsMutex, Narrows

-----------------------------------------------------------------------------
LEMMA OwnerKeeps ==
  ASSUME IInv, NEW o \in Owners,
         CreateFails(o) \/ BeginStop(o) \/ Probe(o) \/ ProbeFails(o) \/ CheckExited(o)
           \/ ShutdownFails(o) \/ WaitExit(o)
  PROVE  IInv'
<1> USE DEF owning, serving, watching, stored, asking, titling, history
<1>1. ASSUME CreateFails(o) \/ BeginStop(o) \/ CheckExited(o) \/ ShutdownFails(o)
      PROVE  IInv'
  <2>1. Narrows
    BY <1>1 DEF IInv, Types, TypeOK, CreateFails, BeginStop, CheckExited, ShutdownFails,
       Narrows, SessionTypes, Places, ServesNoMore, HoldsMutex
  <2>2. CASE CreateFails(o) \/ ShutdownFails(o)
    <3>1. Types'
      BY <2>2 DEF IInv, Types, TypeOK, CreateFails, ShutdownFails, WithoutService
    <3>2. ASSUME CreateFails(o) PROVE Children'
      BY <3>2 DEF IInv, Types, TypeOK, Children, CreateFails, WithoutService
    <3>3. ASSUME ShutdownFails(o) PROVE Children'
      BY <3>3 DEF IInv, Types, TypeOK, Children, ShutdownFails
    <3>4. Children'
      BY <2>2, <3>2, <3>3
    <3> QED BY <2>1, <2>2, <3>1, <3>4, SessionsKeep DEF CreateFails, ShutdownFails
  <2>3. CASE BeginStop(o)
    <3>1. Types'
      BY <2>3 DEF IInv, Types, TypeOK, BeginStop
    <3>2. Children'
      BY <2>3 DEF IInv, Types, TypeOK, Children, BeginStop
    <3> QED BY <2>1, <2>3, <3>1, <3>2, SessionsKeep DEF BeginStop
  <2>4. CASE CheckExited(o)
    <3>1. Types'
      BY <2>4 DEF IInv, Types, TypeOK, CheckExited, Live
    <3>2. Children'
      BY <2>4 DEF IInv, Types, TypeOK, Children, CheckExited
    <3> QED BY <2>1, <2>4, <3>1, <3>2, SessionsKeep DEF CheckExited
  <2> QED BY <1>1, <2>2, <2>3, <2>4
<1>2. ASSUME Probe(o) PROVE IInv'
  <2>1. PICK s \in Services : Accepting(s) /\ srv' = [srv EXCEPT ![s] = "loop"]
    BY <1>2 DEF Probe
  <2>2. Narrows
    BY <1>2, <2>1, PlaceNarrows DEF Probe, Accepting, HoldsMutex
  <2>3. Types' /\ Children'
    BY <1>2, <2>2 DEF IInv, Types, TypeOK, Children, Probe, Narrows, SessionTypes, Places
  <2> QED BY <1>2, <2>2, <2>3, SessionsKeep DEF Probe
<1>3. ASSUME ProbeFails(o) \/ WaitExit(o) PROVE IInv'
  <2>1. child[o] \in Services
    BY <1>3 DEF IInv, Types, TypeOK, Children, ProbeFails, WaitExit
  <2>2. Narrows /\ watch' \in [Services -> {"off", "waiting", "stopping", "canceling"}]
    <3>1. CASE EndInstance(child[o])
      BY <2>1, <3>1, EndInstanceNarrows
    <3>2. CASE UNCHANGED <<srv, watch, peer, write, reply>>
      BY <3>2 DEF IInv, Types, TypeOK, Narrows, SessionTypes, Places, ServesNoMore, HoldsMutex
    <3> QED BY <1>3, <3>1, <3>2 DEF ProbeFails, WaitExit
  <2>3. Types'
    <3>1. /\ child' \in [Owners -> Services \cup {None}]
          /\ place' \in [Owners -> {"out", "probing", "probed", "up", "stopping", "waiting",
                                   "exiting", "gone"}]
      BY <1>3 DEF IInv, Types, TypeOK, ProbeFails, WaitExit, WithoutService
    <3> QED BY <1>3, <2>2, <3>1 DEF IInv, Types, TypeOK, ProbeFails, WaitExit, Narrows,
            SessionTypes, Places
  <2>4. Children'
    <3>1. PICK v \in {"up", "exiting"} :
            /\ place' = [place EXCEPT ![o] = v] /\ child' = [child EXCEPT ![o] = None]
            /\ ~owns[o] \/ v = "exiting"
      BY <1>3 DEF IInv, Types, TypeOK, Children, ProbeFails, WaitExit, WithoutService
    <3>2. UNCHANGED owns
      BY <1>3 DEF ProbeFails, WaitExit
    <3>3. ASSUME NEW p \in Owners \ {o}
          PROVE  place'[p] = place[p] /\ child'[p] = child[p] /\ owns'[p] = owns[p]
      BY <3>1, <3>2 DEF IInv, Types, TypeOK
    <3>4. place'[o] = "exiting" \/ (place'[o] = "up" /\ ~owns'[o])
      BY <3>1, <3>2 DEF IInv, Types, TypeOK
    <3> QED BY <3>3, <3>4 DEF IInv, Children
  <2> QED BY <1>3, <2>2, <2>3, <2>4, SessionsKeep DEF ProbeFails, WaitExit
<1> QED BY <1>1, <1>2, <1>3

LEMMA CreateKeeps ==
  ASSUME IInv, NEW o \in Owners, CreateService(o) \/ AskShutdown(o) PROVE IInv'
<1> USE DEF owning, serving, watching, stored, asking, titling, history
<1>1. ASSUME CreateService(o) PROVE Types' /\ Children'
  BY <1>1, NamesAssumption DEF IInv, Types, TypeOK, Children, CreateService
<1>2. ASSUME CreateService(o) PROVE Narrows
  BY <1>2 DEF IInv, Types, TypeOK, CreateService, Live, Narrows, SessionTypes, Places,
     ServesNoMore, HoldsMutex
<1>3. ASSUME AskShutdown(o) PROVE Types' /\ Children'
  BY <1>3 DEF IInv, Types, TypeOK, Children, AskShutdown, Accepting
<1>4. ASSUME AskShutdown(o) PROVE Narrows
  BY <1>4, NamesAssumption
  DEF IInv, Types, TypeOK, AskShutdown, Narrows, SessionTypes, Places, InSession,
      ServesNoMore, HoldsMutex, Owners
<1> QED BY <1>1, <1>2, <1>3, <1>4, SessionsKeep DEF CreateService, AskShutdown

(* An owner that is gone takes its threads' calls with it.                 *)
LEMMA GoneKeeps == ASSUME IInv, NEW o \in Owners, Gone(o) PROVE IInv'
<1> USE DEF owning, serving, watching, stored, asking, titling, history
<1> DEFINE mine == {o} \cup IF o = Runtime THEN Workers ELSE {}
<1>1. \A w \in Workers : w \in mine <=> o = Runtime
  BY NamesAssumption DEF Owners
<1>2. Types'
  <2>1. \A w \in Workers : lock' = w <=> job'[w] \in {"ask", "asked", "push"}
    BY <1>1, NamesAssumption DEF IInv, Types, TypeOK, Gone, Clients
  <2>2. /\ place' = [place EXCEPT ![o] = "gone"] /\ child' = [child EXCEPT ![o] = None]
        /\ orphan' \in [Services -> BOOLEAN] /\ lock' \in Workers \cup {None}
    BY DEF IInv, Types, TypeOK, Gone
  <2>3. /\ peer' \in [Services -> Clients \cup Owners \cup {None}]
        /\ job' \in [Clients -> WorkerJobs \cup ToolJobs]
        /\ reply' \in [Clients -> {"none", "sent", "ok", "unknown", "failed"}]
    BY DEF IInv, Types, TypeOK, Gone, WorkerJobs
  <2>4. UNCHANGED <<owns, ready, srv, owner, watching, closing, write, stored, map,
                    key, number, cloud, remote, given, lowered>>
    BY DEF Gone
  <2> QED BY <2>1, <2>2, <2>3, <2>4 DEF IInv, Types, TypeOK
<1>3. Children'
  BY DEF IInv, Types, TypeOK, Children, Gone
<1>4. /\ \A c \in Clients : reply'[c] # "none" => c \notin mine /\ reply'[c] = reply[c]
                                                     /\ job'[c] = job[c]
      /\ \A w \in Workers : job'[w] \in {job[w], "idle"}
      /\ \A s \in Services : peer'[s] = None \/ (peer'[s] = peer[s] /\ peer[s] \notin mine)
  <2>1. /\ peer' = [s \in Services |-> IF peer[s] \in mine THEN None ELSE peer[s]]
        /\ job' = [c \in Clients |-> IF c \in mine THEN "idle" ELSE job[c]]
        /\ reply' = [c \in Clients |-> IF c \in mine THEN "none" ELSE reply[c]]
    BY DEF Gone
  <2> HIDE DEF mine
  <2> QED BY <2>1 DEF Clients
<1>5. Requests'
  <2>1. \A c \in Clients : reply'[c] # "none" => Asking(c)'
    BY <1>4 DEF IInv, Requests, Asking
  <2>2. \A w \in Workers : job'[w] \in WorkerJobs
    BY <1>4 DEF IInv, Requests, WorkerJobs
  <2>3. ASSUME NEW s \in Services, NEW w \in Workers, peer'[s] = w
        PROVE  /\ peer[s] = w /\ reply'[w] = "sent"
    BY <1>4, <2>3, NamesAssumption DEF IInv, Types, TypeOK, Requests, Gone, Clients
  <2>4. UNCHANGED <<srv, write>>
    BY DEF Gone
  <2>5. \A r \in Services, w \in Workers : peer'[r] = w => peer[r] = w
    BY <2>3
  <2> QED BY <2>1, <2>2, <2>3, <2>4, <2>5 DEF IInv, Requests
<1>6. \A s \in Services, w \in Workers : peer'[s] = w => peer[s] = w
  BY <1>4, NamesAssumption DEF Clients
<1>7. \A w \in Workers : Numbered(w)' => Numbered(w)
  BY DEF IInv, Types, TypeOK, Gone, Numbered, Clients
<1>8. ServesNoMore
  BY DEF Gone, ServesNoMore, HoldsMutex
<1> QED BY <1>2, <1>3, <1>5, <1>6, <1>7, <1>8, StepKeeps DEF Gone

-----------------------------------------------------------------------------
(* The instances, but for Claim, Read, Commit and Reply.                   *)
LEMMA ServeKeeps ==
  ASSUME IInv, NEW s \in Services,
         \/ Loop(s) \/ Listen(s) \/ Greet(s) \/ Attend(s) \/ Refuse(s)
         \/ CommitFails(s) \/ ReplyFails(s) \/ Crash(s)
         \/ Tell(s) \/ StopDispatcher(s) \/ Cancel(s)
  PROVE  IInv'
<1> USE DEF owning, serving, watching, stored, asking, titling, history
<1>1. Children'
  BY DEF IInv, Children, Loop, Listen, Greet, Attend, Refuse, CommitFails, ReplyFails,
     Crash, Tell, StopDispatcher, Cancel
<1> DEFINE WatchType == watch' \in [Services -> {"off", "waiting", "stopping", "canceling"}]
<1>2. Narrows /\ WatchType
  <2>1. CASE Loop(s)
    <3>1. CASE EndInstance(s)
      BY <3>1, EndInstanceNarrows
    <3> QED BY <2>1, <3>1, PlaceNarrows DEF Loop, IInv, Types, TypeOK, HoldsMutex
  <2>2. CASE Listen(s) \/ Greet(s)
    BY <2>2, PlaceNarrows DEF Listen, Greet, IInv, Types, TypeOK, HoldsMutex
  <2>3. CASE Attend(s)
    BY <2>3, PlaceNarrows, EndSessionNarrows DEF Attend, IInv, Types, TypeOK, HoldsMutex
  <2>4. CASE Refuse(s) \/ CommitFails(s)
    BY <2>4, RefusalNarrows DEF Refuse, CommitFails, IInv, Types, TypeOK, HoldsMutex
  <2>5. CASE ReplyFails(s)
    BY <2>5, EndSessionNarrows DEF ReplyFails, IInv, Types, TypeOK, HoldsMutex
  <2>6. CASE Crash(s)
    BY <2>6, EndInstanceNarrows DEF Crash
  <2>7. CASE Tell(s)
    BY <2>7 DEF Tell, IInv, Types, TypeOK, Narrows, SessionTypes, Places, ServesNoMore,
       HoldsMutex
  <2>8. CASE StopDispatcher(s)
    <3>1. CASE UNCHANGED <<srv, peer, write, reply>> /\ WatchType
      BY <3>1 DEF IInv, Types, TypeOK, Narrows, SessionTypes, Places, ServesNoMore, HoldsMutex
    <3> QED BY <2>8, <3>1, EndInstanceNarrows DEF StopDispatcher, IInv, Types, TypeOK
  <2>9. CASE Cancel(s)
    BY <2>9, EndInstanceNarrows, EndSessionNarrows DEF Cancel, IInv, Types, TypeOK, HoldsMutex
  <2> QED BY <2>1, <2>2, <2>3, <2>4, <2>5, <2>6, <2>7, <2>8, <2>9
<1>3. dead' \in [Services -> BOOLEAN] /\ stop' \in [Services -> BOOLEAN]
  <2>1. dead' = dead \/ dead' = [dead EXCEPT ![s] = TRUE]
    BY DEF Loop, Listen, Greet, Attend, Refuse, CommitFails, ReplyFails, Crash, Tell,
       StopDispatcher, Cancel
  <2>2. Greet(s) \/ StopDispatcher(s) \/ UNCHANGED stop
    BY DEF Loop, Listen, Attend, Refuse, CommitFails, ReplyFails, Crash, Tell, Cancel
  <2>3. ASSUME Greet(s) \/ StopDispatcher(s) PROVE stop' \in [Services -> BOOLEAN]
    <3>1. CASE Greet(s)
      BY <3>1 DEF Greet, IInv, Types, TypeOK
    <3>2. CASE StopDispatcher(s)
      <4>1. PICK b \in BOOLEAN : stop' = [stop EXCEPT ![s] = b] \/ UNCHANGED stop
        <5>1. (srv[s] \in InSession) \in BOOLEAN
          OBVIOUS
        <5> QED BY <3>2, <5>1 DEF StopDispatcher
      <4>2. stop \in [Services -> BOOLEAN]
        BY DEF IInv, Types, TypeOK
      <4> QED BY <4>1, <4>2
    <3> QED BY <2>3, <3>1, <3>2
  <2> QED BY <2>1, <2>2, <2>3 DEF IInv, Types, TypeOK
<1>4. UNCHANGED <<owning, owner, orphan, closing, stored, map, job, key, number, titling,
                  given, lowered>>
  BY DEF Loop, Listen, Greet, Attend, Refuse, CommitFails, ReplyFails, Crash, Tell,
     StopDispatcher, Cancel
<1>5. Types'
  BY <1>2, <1>3, <1>4 DEF IInv, Types, TypeOK, Narrows, SessionTypes, Places, InSession
<1> QED BY <1>1, <1>2, <1>4, <1>5, SessionsKeep

LEMMA ClaimKeeps == ASSUME IInv, NEW s \in Services, Claim(s) PROVE IInv'
<1> USE DEF owning, serving, watching, stored, asking, titling, history
<1>1. CASE EndInstance(s)
  <2>1. Narrows /\ watch' \in [Services -> {"off", "waiting", "stopping", "canceling"}]
    BY <1>1, EndInstanceNarrows
  <2>2. Types'
    BY <2>1 DEF IInv, Types, TypeOK, Narrows, SessionTypes, Places, Claim
  <2>3. Children'
    BY DEF IInv, Children, Claim
  <2> QED BY <2>1, <2>2, <2>3, SessionsKeep DEF Claim
<1>2. CASE ~EndInstance(s)
  <2>1. /\ \A r \in Services : ~HoldsMutex(r)
        /\ srv' = [srv EXCEPT ![s] = "loop"] /\ watch' = [watch EXCEPT ![s] = "waiting"]
        /\ UNCHANGED <<peer, write, reply>>
    BY <1>2 DEF Claim
  <2>2. Types' /\ Children'
    BY <2>1 DEF IInv, Types, TypeOK, Children, Claim
  <2>3. \A r \in Services : r # s => ~HoldsMutex(r)'
    BY <2>1 DEF IInv, Types, TypeOK, HoldsMutex
  <2>4. \A r \in Services : srv'[r] \notin {"working", "committed"}
    BY <2>1, <2>3 DEF IInv, Types, TypeOK, HoldsMutex
  <2>5. OneServes'
    BY <2>3 DEF OneServes
  <2>6. Working' /\ Unreported'
    BY <2>4 DEF Working, Unreported, Allocated
  <2>7. Requests'
    BY <2>1, <2>4 DEF IInv, Requests, Asking, Claim
  <2>8. Handed'
    BY DEF IInv, Handed, Exists, Claim
  <2>9. Pushed'
    BY <2>1, <2>4 DEF IInv, Pushed, Behind, Allocated, Numbered, Claim
  <2> QED BY <2>2, <2>5, <2>6, <2>7, <2>8, <2>9 DEF IInv
<1> QED BY <1>1, <1>2

LEMMA ReadKeeps == ASSUME IInv, NEW s \in Services, Read(s) PROVE IInv'
<1> USE DEF owning, serving, watching, stored, asking, titling, history
<1>1. srv[s] = "reading" /\ HoldsMutex(s)
  BY DEF Read, HoldsMutex
<1>2. Children'
  BY DEF IInv, Children, Read
<1>3. CASE EndSession(s)
  <2>1. Narrows
    BY <1>1, <1>3, EndSessionNarrows
  <2>2. Types'
    BY <2>1 DEF IInv, Types, TypeOK, Narrows, SessionTypes, Places, Read
  <2> QED BY <1>2, <2>1, <2>2, SessionsKeep DEF Read
<1>4. CASE ~EndSession(s)
  <2>1. /\ peer[s] \in Clients /\ reply[peer[s]] = "sent"
        /\ srv' = [srv EXCEPT ![s] = "working"]
        /\ write' = [write EXCEPT ![s] = [kind |-> job[peer[s]], series |-> key[peer[s]],
                                         to |-> number[peer[s]]]]
        /\ UNCHANGED <<closing, peer, reply>>
    BY <1>4 DEF Read
  <2>2. job[peer[s]] \in Asks
    BY <2>1 DEF IInv, Requests, Asking, Asks
  <2>3. [kind |-> job[peer[s]], series |-> key[peer[s]], to |-> number[peer[s]]] \in Writes
    BY <2>1, <2>2 DEF IInv, Types, TypeOK, Writes
  <2>4. Types'
    BY <2>1, <2>3 DEF IInv, Types, TypeOK, Read, InSession
  <2>5. srv'[s] = "working" /\ write'[s].kind = job[peer[s]]
    BY <2>1 DEF IInv, Types, TypeOK
  <2>6. \A r \in Services \ {s} : srv'[r] = srv[r] /\ write'[r] = write[r]
    BY <2>1 DEF IInv, Types, TypeOK
  <2>7. OneServes'
    BY <1>1, <2>5, <2>6 DEF IInv, OneServes, HoldsMutex
  <2>8. Working'
    BY <2>2, <2>5, <2>6 DEF IInv, Working
  <2>9. Requests'
    <3>1. ASSUME peer[s] \in Workers PROVE job[peer[s]] = "asked"
      BY <2>2, <3>1 DEF IInv, Requests, WorkerJobs, Asks
    <3> QED BY <2>1, <2>5, <2>6, <3>1 DEF IInv, Requests, Asking, Read
  <2>10. \A r \in Services : Allocated(r)' => r # s /\ Allocated(r)
    BY <2>5, <2>6 DEF Allocated
  <2>11. Unreported' /\ Handed'
    BY <2>6, <2>10 DEF IInv, Unreported, Handed, Exists, Read
  <2>12. Pushed'
    BY <2>1, <2>6, <2>10 DEF IInv, Pushed, Behind, Numbered, Read
  <2> QED BY <1>2, <2>4, <2>7, <2>8, <2>9, <2>11, <2>12 DEF IInv
<1> QED BY <1>3, <1>4

-----------------------------------------------------------------------------
LEMMA ResolveFacts ==
  ASSUME IInv, NEW name \in Series \cup {None}
  PROVE  Resolve(name) = None \/ (Resolve(name) \in Series /\ Exists(Resolve(name)))
<1>1. rows \in Seq(Series)
  BY DEF IInv, Types, TypeOK
<1>2. CASE name = None /\ rows # <<>>
  <2>1. Len(rows) \in 1 .. Len(rows) /\ rows[Len(rows)] \in Series
    BY <1>1, <1>2
  <2> QED BY <1>2, <2>1 DEF Resolve, Exists
<1>3. CASE ~(name = None /\ rows # <<>>)
  BY <1>3 DEF Resolve
<1> QED BY <1>2, <1>3

(* What a transaction makes of the counts.                                 *)
LEMMA OutcomeFacts ==
  ASSUME IInv, NEW w \in Writes, w.kind \in Asks, Outcome(w).series # None
  PROVE  LET n == Outcome(w).series  next == Outcome(w).to IN
         /\ n \in Series /\ next \in Nat
         /\ w.kind # "adding" => Exists(n)
         /\ w.kind = "asked" => next = count[n] + 1
         /\ w.kind = "adding" => ~Exists(n)
         /\ w.kind = "padding" => next = count[n]
<1>1. w.series \in Series \cup {None} /\ w.to \in Nat
  BY DEF Writes
<1>2. Resolve(w.series) = None \/ (Resolve(w.series) \in Series /\ Exists(Resolve(w.series)))
  BY <1>1, ResolveFacts
<1>3. \A n \in Series : count[n] \in Nat
  BY DEF IInv, Types, TypeOK
<1>4. CASE w.kind = "asked"
  BY <1>2, <1>3, <1>4 DEF Outcome, AllocateEpisode
<1>5. CASE w.kind = "adding"
  BY <1>1, <1>5 DEF Outcome, AddSeries
<1>6. CASE w.kind = "setting"
  BY <1>1, <1>2, <1>6 DEF Outcome, SetCounter
<1>7. CASE w.kind = "padding"
  BY <1>2, <1>3, <1>7 DEF Outcome, SetPadding
<1> QED BY <1>4, <1>5, <1>6, <1>7 DEF Asks

LEMMA CommitKeeps == ASSUME IInv, NEW s \in Services, Commit(s) PROVE IInv'
<1> USE DEF owning, serving, watching, stored, asking, titling, history
<1>1. /\ srv[s] = "working" /\ HoldsMutex(s)
      /\ write[s].kind \in Asks /\ write[s] \in Writes /\ Outcome(write[s]).series # None
  BY DEF Commit, HoldsMutex, IInv, Working, Types
<1>2. PICK kind \in Asks, n \in Series, next \in Nat :
        kind = write[s].kind /\ n = Outcome(write[s]).series /\ next = Outcome(write[s]).to
  BY <1>1, OutcomeFacts
<1>3. /\ kind # "adding" => Exists(n)
      /\ kind = "asked" => next = count[n] + 1
      /\ kind = "adding" => ~Exists(n)
      /\ kind = "padding" => next = count[n]
  BY <1>1, <1>2, OutcomeFacts
<1>4. /\ srv' = [srv EXCEPT ![s] = "committed"]
      /\ write' = [write EXCEPT ![s] = [kind |-> kind, series |-> n, to |-> next]]
      /\ rows' = IF kind = "adding" THEN Append(rows, n) ELSE rows
      /\ count' = [count EXCEPT ![n] = next]
      /\ given' = [given EXCEPT ![n] = IF kind = "setting" THEN {k \in @ : k < next} ELSE @]
      /\ lowered' = IF next < count[n] THEN lowered \cup {n} ELSE lowered
      /\ UNCHANGED <<owning, owner, orphan, watching, closing, peer, map,
                     asking, titling, titles, items, mishaps>>
  BY <1>2 DEF Commit
<1>5. /\ rows' \in Seq(Series) /\ Exists(n)'
      /\ \A m \in Series : Exists(m)' <=> (Exists(m) \/ (kind = "adding" /\ m = n))
  <2>1. rows \in Seq(Series)
    BY DEF IInv, Types, TypeOK
  <2>2. CASE kind = "adding"
    <3>1. rows' = Append(rows, n)
      BY <1>4, <2>2
    <3>2. /\ rows' \in Seq(Series) /\ Len(rows') = Len(rows) + 1 /\ rows'[Len(rows) + 1] = n
          /\ \A i \in 1 .. Len(rows) : rows'[i] = rows[i]
      BY <1>3, <2>1, <3>1
    <3>3. Len(rows) \in Nat
      BY <2>1
    <3>4. Exists(n)'
      BY <3>2, <3>3 DEF Exists
    <3>5. ASSUME NEW m \in Series PROVE Exists(m)' <=> Exists(m) \/ m = n
      BY <3>2, <3>3 DEF Exists
    <3> QED BY <2>2, <3>2, <3>4, <3>5
  <2>3. CASE kind # "adding"
    <3>1. rows' = rows
      BY <1>4, <2>3
    <3>2. \A m \in Series : Exists(m)' <=> Exists(m)
      BY <3>1 DEF Exists
    <3> QED BY <1>3, <2>1, <2>3, <3>1, <3>2
  <2> QED BY <2>2, <2>3
<1>6. /\ count' \in [Series -> Nat] /\ count'[n] = next
      /\ \A m \in Series \ {n} : count'[m] = count[m] /\ given'[m] = given[m]
      /\ given'[n] = IF kind = "setting" THEN {k \in given[n] : k < next} ELSE given[n]
      /\ given' \in [Series -> SUBSET Nat]
  BY <1>4, <1>3 DEF IInv, Types, TypeOK
<1>7. /\ [kind |-> kind, series |-> n, to |-> next] \in Writes
      /\ srv'[s] = "committed" /\ write'[s] = [kind |-> kind, series |-> n, to |-> next]
      /\ \A r \in Services \ {s} : srv'[r] = srv[r] /\ write'[r] = write[r]
  BY <1>1, <1>4, <1>3 DEF IInv, Types, TypeOK, Writes
<1>8. Types'
  BY <1>4, <1>3, <1>5, <1>6, <1>7 DEF IInv, Types, TypeOK, InSession
<1>9. \A r \in Services : Allocated(r)' => r = s
  BY <1>1, <1>7 DEF IInv, OneServes, HoldsMutex, Allocated
<1>10. Children' /\ OneServes' /\ Working'
  BY <1>1, <1>4, <1>7 DEF IInv, Children, OneServes, Working, HoldsMutex
<1>11. Requests'
  <2>1. write'[s].kind = write[s].kind
    BY <1>2, <1>7
  <2>2. UNCHANGED <<peer, job, reply>>
    BY <1>4
  <2> QED BY <1>1, <1>7, <2>1, <2>2 DEF IInv, Requests, Asking
<1>12. Unreported'
  BY <1>3, <1>5, <1>6, <1>7, <1>9 DEF IInv, Types, TypeOK, Unreported, Allocated
<1>13. Handed'
  <2>1. \A m \in Series \ {n} :
          (\A k \in given'[m] : k < count'[m]) /\ (~Exists(m)' => given'[m] = {})
    BY <1>5, <1>6 DEF IInv, Handed
  <2>2. \A k \in given'[n] : k < count'[n]
    <3>1. CASE kind = "adding"
      BY <1>3, <1>6, <3>1 DEF IInv, Handed
    <3>2. CASE kind = "setting"
      BY <1>6, <3>2
    <3>3. CASE kind = "asked" \/ kind = "padding"
      BY <1>3, <1>6, <3>3 DEF IInv, Handed, Types, TypeOK
    <3>4. kind \in {"asked", "adding", "setting", "padding"}
      BY <1>1 DEF Asks
    <3> QED BY <3>1, <3>2, <3>3, <3>4
  <2> QED BY <1>5, <2>1, <2>2 DEF Handed
<1>14. Pushed'
  <2>1. UNCHANGED <<remote, peer, job, key, number, reply>> /\ remote \in [Series -> Nat]
    BY <1>4 DEF IInv, Types, TypeOK
  <2>2. lowered \subseteq lowered' /\ (next < count[n] => n \in lowered')
    BY <1>4
  <2>3. \A m \in Series : Behind(m, count[m])'
    <3>1. \A m \in Series \ {n} : Behind(m, count[m])'
      BY <1>6, <2>1, <2>2 DEF IInv, Pushed, Behind
    <3>2. CASE next < count[n]
      BY <2>2, <3>1, <3>2 DEF Behind
    <3>3. CASE ~(next < count[n])
      <4>1. remote[n] \in Nat /\ count[n] \in Nat /\ next \in Nat
        BY <1>3, <2>1 DEF IInv, Types, TypeOK
      <4>2. n \in lowered \/ remote[n] <= count[n]
        BY <1>3 DEF IInv, Pushed, Behind
      <4>3. Behind(n, count[n])'
        BY <1>6, <2>1, <2>2, <3>3, <4>1, <4>2 DEF Behind
      <4> QED BY <3>1, <4>3
    <3> QED BY <3>2, <3>3
  <2>4. ASSUME Allocated(s)' PROVE Behind(write[s].series, write[s].to)'
    BY <1>3, <1>6, <1>7, <2>3
  <2>5. ASSUME NEW w \in Workers, Numbered(w)'
        PROVE  /\ key'[w] \in Series /\ Behind(key[w], number[w] + 1)'
               /\ key'[w] \in lowered' \/ number'[w] + 1 <= count'[key'[w]]
    <3>1. /\ key[w] \in Series /\ Behind(key[w], number[w] + 1) /\ number[w] \in Nat
          /\ key[w] \in lowered \/ number[w] + 1 <= count[key[w]]
      BY <2>1, <2>5 DEF IInv, Pushed, Numbered, Types, TypeOK, Clients
    <3>2. key[w] \in lowered' \/ count[key[w]] <= count'[key[w]]
      <4>1. count[key[w]] \in Nat
        BY <3>1 DEF IInv, Types, TypeOK
      <4>2. CASE key[w] = n
        BY <1>2, <1>6, <2>2, <4>1, <4>2
      <4>3. CASE key[w] # n
        BY <1>6, <3>1, <4>1, <4>3
      <4> QED BY <4>2, <4>3
    <3>3. key[w] \in lowered' \/ number[w] + 1 <= count'[key[w]]
      BY <1>6, <2>2, <3>1, <3>2 DEF IInv, Types, TypeOK
    <3>4. key' = key /\ number' = number /\ remote' = remote
      BY <2>1
    <3>5. Behind(key[w], number[w] + 1)'
      BY <2>2, <3>1, <3>4 DEF Behind
    <3> QED BY <2>2, <3>1, <3>3, <3>4, <3>5 DEF Behind
  <2> QED BY <1>9, <2>3, <2>4, <2>5 DEF Pushed
<1> QED BY <1>8, <1>10, <1>11, <1>12, <1>13, <1>14 DEF IInv

LEMMA ReplyKeeps == ASSUME IInv, NEW s \in Services, Reply(s) PROVE IInv'
<1> USE DEF owning, serving, watching, stored, asking, titling, history
<1>1. PICK w \in Writes, c \in Clients \cup Owners \cup {None}, told \in BOOLEAN :
        /\ srv[s] = "committed" /\ HoldsMutex(s) /\ w = write[s] /\ c = peer[s]
        /\ told <=> w.kind = "asked" /\ c # None
  BY DEF Reply, HoldsMutex, IInv, Types, TypeOK
<1>2. /\ srv' = [srv EXCEPT ![s] = "attending"] /\ write' = [write EXCEPT ![s] = NoWrite]
      /\ peer' = [peer EXCEPT ![s] = None]
      /\ reply' = [d \in Clients |-> IF c = d /\ reply[d] = "sent" THEN "ok" ELSE reply[d]]
      /\ UNCHANGED <<owning, owner, orphan, watching, closing, stored, map, job,
                     titling, lowered>>
  BY <1>1 DEF Reply, Answer
<1>3. /\ told => /\ key' = [key EXCEPT ![c] = w.series]
                 /\ number' = [number EXCEPT ![c] = w.to - 1]
                 /\ given' = [given EXCEPT ![w.series] = @ \cup {w.to - 1}]
      /\ ~told => UNCHANGED <<key, number, given>>
  BY <1>1 DEF Reply
<1>4. told => /\ w.series \in Series /\ Exists(w.series) /\ count[w.series] \in Nat
              /\ w.to \in 1 .. count[w.series] /\ w.to - 1 \in Nat
  BY <1>1 DEF IInv, Unreported, Allocated, Types, TypeOK
<1>5. NoWrite \in Writes
  BY DEF NoWrite, Writes
<1>6. \A r \in Services \ {s} : srv'[r] = srv[r] /\ write'[r] = write[r] /\ peer'[r] = peer[r]
  BY <1>2 DEF IInv, Types, TypeOK
<1>7. srv'[s] = "attending" /\ peer'[s] = None
  BY <1>2 DEF IInv, Types, TypeOK
<1>8. /\ key' \in [Clients -> Series \cup {None}] /\ number' \in [Clients -> Nat]
      /\ given' \in [Series -> SUBSET Nat]
  <2>1. CASE told
    <3>1. w.series \in Series /\ w.to - 1 \in Nat
      BY <1>4, <2>1
    <3>2. /\ key' = [key EXCEPT ![c] = w.series] /\ number' = [number EXCEPT ![c] = w.to - 1]
          /\ given' = [given EXCEPT ![w.series] = given[w.series] \cup {w.to - 1}]
      BY <1>3, <2>1
    <3>3. /\ key' \in [Clients -> Series \cup {None}] /\ number' \in [Clients -> Nat]
      BY <3>1, <3>2 DEF IInv, Types, TypeOK
    <3>4. given' \in [Series -> SUBSET Nat]
      BY <3>1, <3>2 DEF IInv, Types, TypeOK
    <3> QED BY <3>3, <3>4
  <2>2. CASE ~told
    BY <1>3, <2>2 DEF IInv, Types, TypeOK
  <2> QED BY <2>1, <2>2
<1>9. Types'
  BY <1>2, <1>5, <1>8 DEF IInv, Types, TypeOK, InSession
<1>10. Children' /\ OneServes' /\ Working'
  BY <1>1, <1>2, <1>6, <1>7 DEF IInv, Children, OneServes, Working, HoldsMutex
<1>11. \A r \in Services : ~Allocated(r)'
  BY <1>1, <1>6, <1>7 DEF IInv, OneServes, HoldsMutex, Allocated
<1>12. Requests'
  <2>1. \A d \in Clients : reply'[d] # "none" => Asking(d)'
    BY <1>2 DEF IInv, Requests, Asking
  <2>2. ASSUME NEW r \in Services, NEW v \in Workers, peer'[r] = v
        PROVE  r # s /\ peer[r] = v /\ c # v
    BY <1>1, <1>6, <1>7, <2>2, NamesAssumption DEF IInv, Requests, Clients
  <2>3. ASSUME NEW r \in Services, NEW v \in Workers, peer'[r] = v
        PROVE  /\ reply'[v] = "sent" /\ \A q \in Services \ {r} : peer'[q] # v
               /\ srv'[r] \in {"working", "committed"} => write'[r].kind = "asked"
    <3>1. reply[v] = "sent" /\ reply'[v] = reply[v]
      BY <1>2, <2>2, <2>3 DEF IInv, Requests, Clients
    <3>2. \A q \in Services \ {r} : peer'[q] # v
      BY <2>2, <2>3 DEF IInv, Requests
    <3>3. srv'[r] = srv[r] /\ write'[r] = write[r]
      BY <1>6, <2>2, <2>3
    <3> QED BY <2>2, <2>3, <3>1, <3>2, <3>3 DEF IInv, Requests
  <2>4. \A v \in Workers : job'[v] \in WorkerJobs
    BY <1>2 DEF IInv, Requests
  <2> QED BY <2>1, <2>3, <2>4 DEF Requests
<1>13. Unreported' /\ Handed'
  <2>1. Unreported'
    BY <1>11 DEF Unreported
  <2>2. CASE told
    <3>1. \A m \in Series :
            given'[m] = IF m = w.series THEN given[m] \cup {w.to - 1} ELSE given[m]
      BY <1>3, <2>2 DEF IInv, Types, TypeOK
    <3>2. w.to - 1 < count[w.series]
      BY <1>4, <2>2
    <3>3. UNCHANGED <<rows, count>>
      BY <1>2
    <3>4. ASSUME NEW m \in Series
          PROVE  (\A k \in given'[m] : k < count'[m]) /\ (~Exists(m)' => given'[m] = {})
      <4>1. Exists(m)' <=> Exists(m)
        BY <3>3 DEF Exists
      <4>2. CASE m = w.series
        <5>1. given'[m] = given[m] \cup {w.to - 1} /\ w.to - 1 < count'[m] /\ Exists(m)
          BY <1>4, <2>2, <3>1, <3>2, <3>3, <4>2
        <5>2. \A k \in given[m] : k < count'[m]
          BY <3>3 DEF IInv, Handed
        <5> QED BY <4>1, <5>1, <5>2
      <4>3. CASE m # w.series
        BY <3>1, <3>3, <4>1, <4>3 DEF IInv, Handed
      <4> QED BY <4>2, <4>3
    <3> QED BY <2>1, <3>4 DEF Handed
  <2>3. CASE ~told
    BY <1>2, <1>3, <2>1, <2>3 DEF IInv, Handed, Exists
  <2> QED BY <2>2, <2>3
<1>14. Pushed'
  <2>1. \A m \in Series : Behind(m, count[m])'
    BY <1>2 DEF IInv, Pushed, Behind
  <2>2. ASSUME NEW v \in Workers, Numbered(v)', c = v
        PROVE  /\ key'[v] \in Series /\ Behind(key[v], number[v] + 1)'
               /\ key'[v] \in lowered' \/ number'[v] + 1 <= count'[key'[v]]
    <3>1. told /\ Behind(w.series, w.to)
      BY <1>1, <2>2, NamesAssumption
      DEF IInv, Requests, Pushed, Allocated, Clients
    <3>2. key'[v] = w.series /\ number'[v] = w.to - 1
      BY <1>3, <2>2, <3>1 DEF IInv, Types, TypeOK, Clients
    <3>3. number'[v] + 1 = w.to /\ w.to <= count'[key'[v]]
      BY <1>2, <1>4, <3>1, <3>2 DEF Writes
    <3> QED BY <1>2, <1>4, <3>1, <3>2, <3>3 DEF Behind
  <2>3. ASSUME NEW v \in Workers, Numbered(v)', c # v
        PROVE  /\ key'[v] \in Series /\ Behind(key[v], number[v] + 1)'
               /\ key'[v] \in lowered' \/ number'[v] + 1 <= count'[key'[v]]
    <3>1. Numbered(v) /\ key'[v] = key[v] /\ number'[v] = number[v]
      BY <1>2, <1>3, <2>3 DEF IInv, Types, TypeOK, Numbered, Clients
    <3> QED BY <1>2, <3>1 DEF IInv, Pushed, Behind
  <2> QED BY <1>11, <2>1, <2>2, <2>3 DEF Pushed
<1> QED BY <1>9, <1>10, <1>12, <1>13, <1>14 DEF IInv

-----------------------------------------------------------------------------
(* Requests, title workers and the items of a tool.                        *)
LEMMA RequestKeeps == ASSUME IInv, NEW c \in Clients, Connect(c) \/ GiveUp(c) PROVE IInv'
<1> USE DEF owning, serving, watching, stored, asking, titling, history
<1>1. Types' /\ Children'
  <2>1. CASE Connect(c)
    BY <2>1 DEF IInv, Types, TypeOK, Children, Connect
  <2>2. CASE GiveUp(c)
    BY <2>2 DEF IInv, Types, TypeOK, Children, GiveUp
  <2> QED BY <2>1, <2>2
<1>2. CASE GiveUp(c)
  <2>1. Requests'
    BY <1>2, NamesAssumption DEF IInv, Types, TypeOK, Requests, GiveUp, Asking, Clients
  <2>2. ServesNoMore /\ \A w \in Workers : Numbered(w)' => Numbered(w)
    BY <1>2 DEF IInv, Types, TypeOK, ServesNoMore, HoldsMutex, Numbered, GiveUp, Clients
  <2> QED BY <1>1, <1>2, <2>1, <2>2, StepKeeps DEF GiveUp
<1>3. CASE Connect(c)
  <2>1. PICK s \in Services : Accepting(s) /\ peer' = [peer EXCEPT ![s] = c]
    BY <1>3 DEF Connect
  <2>2. /\ reply[c] = "none" /\ Asking(c) /\ reply' = [reply EXCEPT ![c] = "sent"]
        /\ srv[s] \in {"created", "listening"}
        /\ UNCHANGED <<srv, write, job>>
    BY <1>3, <2>1 DEF Connect, Accepting
  <2>3. Requests'
    <3>1. \A d \in Clients : reply'[d] # "none" => Asking(d)'
      BY <2>2 DEF IInv, Types, Requests, Asking
    <3>2. ASSUME NEW r \in Services, NEW w \in Workers, peer'[r] = w
          PROVE  /\ reply'[w] = "sent" /\ (r = s <=> c = w)
                 /\ r # s => peer[r] = w
      BY <2>1, <2>2, <3>2 DEF IInv, Types, TypeOK, Requests, Clients
    <3> QED BY <2>2, <3>1, <3>2 DEF IInv, Requests
  <2>4. ServesNoMore
    BY <1>3 DEF ServesNoMore, HoldsMutex, Connect
  <2>5. \A r \in Services, w \in Workers : peer'[r] = w /\ Allocated(r)' => peer[r] = w
    BY <2>1, <2>2 DEF IInv, Types, TypeOK, Allocated
  <2>6. \A w \in Workers : Numbered(w)' => Numbered(w)
    BY <2>2 DEF IInv, Types, Numbered, Clients
  <2> QED BY <1>1, <1>3, <2>3, <2>4, <2>5, <2>6, StepKeeps DEF Connect
<1> QED BY <1>2, <1>3

LEMMA WorkerKeeps ==
  ASSUME IInv, NEW w \in Workers,
         StartTitle(w) \/ TakeLock(w) \/ Ask(w) \/ Answered(w)
  PROVE  IInv'
<1> USE DEF owning, serving, watching, stored, asking, titling, history
<1>1. w \in Clients /\ None \notin Workers
  BY NamesAssumption DEF Clients
<1>2. PICK j \in WorkerJobs, k \in Series \cup {None}, n \in Nat, r \in {"none", reply[w]} :
        /\ job' = [job EXCEPT ![w] = j] /\ key' = [key EXCEPT ![w] = k]
        /\ number' = [number EXCEPT ![w] = n] /\ reply' = [reply EXCEPT ![w] = r]
  <2>1. /\ job = [job EXCEPT ![w] = job[w]] /\ key = [key EXCEPT ![w] = key[w]]
        /\ number = [number EXCEPT ![w] = number[w]] /\ reply = [reply EXCEPT ![w] = reply[w]]
        /\ key[w] \in Series \cup {None} /\ number[w] \in Nat /\ map \in Series \cup {None}
    BY <1>1 DEF IInv, Types, TypeOK
  <2>2. /\ \E j \in WorkerJobs : job' = [job EXCEPT ![w] = j]
        /\ reply' = [reply EXCEPT ![w] = "none"] \/ reply' = reply
    BY <1>1 DEF IInv, Types, StartTitle, TakeLock, Ask, Answered, EndTitle, WorkerJobs
  <2>3. /\ key' = key \/ \E k \in {map, None} : key' = [key EXCEPT ![w] = k]
        /\ number' = number \/ number' = [number EXCEPT ![w] = 0]
    BY <1>1 DEF IInv, Types, StartTitle, TakeLock, Ask, Answered, EndTitle
  <2>4. \E k \in Series \cup {None} : key' = [key EXCEPT ![w] = k]
    BY <2>1, <2>3
  <2>5. \E n \in Nat : number' = [number EXCEPT ![w] = n]
    BY <2>1, <2>3
  <2>6. \E r \in {"none", reply[w]} : reply' = [reply EXCEPT ![w] = r]
    BY <2>1, <2>2
  <2> QED BY <2>2, <2>4, <2>5, <2>6
<1>3. PICK l \in {lock, None, w} : lock' = l
  BY DEF StartTitle, TakeLock, Ask, Answered, EndTitle
<1>4. \A v \in Workers : lock' = v <=> job'[v] \in {"ask", "asked", "push"}
  <2>1. /\ lock' = w <=> job'[w] \in {"ask", "asked", "push"}
        /\ lock' # lock => lock \in {None, w}
    <3>1. job[w] \in WorkerJobs /\ (lock = w <=> job[w] \in {"ask", "asked", "push"})
          /\ job \in [Clients -> WorkerJobs \cup ToolJobs]
      BY DEF IInv, Types, TypeOK, Requests
    <3>2. CASE StartTitle(w) \/ TakeLock(w)
      BY <1>1, <3>1, <3>2 DEF StartTitle, TakeLock
    <3>3. CASE Ask(w)
      BY <1>1, <3>1, <3>3 DEF Ask, EndTitle
    <3>4. CASE Answered(w)
      BY <1>1, <3>1, <3>4 DEF Answered, EndTitle
    <3> QED BY <3>2, <3>3, <3>4
  <2>2. ASSUME NEW v \in Workers \ {w}
        PROVE  lock' = v <=> job'[v] \in {"ask", "asked", "push"}
    <3>1. job'[v] = job[v] /\ (lock = v <=> job[v] \in {"ask", "asked", "push"})
      BY <1>2 DEF IInv, Types, TypeOK, Clients
    <3> QED BY <1>1, <1>3, <2>1, <3>1
  <2> QED BY <2>1, <2>2
<1>5. UNCHANGED <<owning, serving, stored, map, cloud, remote, given, lowered>>
  BY DEF StartTitle, TakeLock, Ask, Answered
<1>6. Types'
  BY <1>1, <1>2, <1>3, <1>4, <1>5 DEF IInv, Types, TypeOK
<1>7. Children'
  BY <1>5 DEF IInv, Children
<1>8. reply[w] # "sent" /\ reply'[w] = "none"
  BY <1>1 DEF IInv, Types, Requests, Asking, StartTitle, TakeLock, Ask, Answered
<1>9. Requests'
  BY <1>1, <1>2, <1>5, <1>8 DEF IInv, Types, Requests, Asking, Clients
<1>10. ServesNoMore
  BY <1>5 DEF ServesNoMore, HoldsMutex
<1>11. Numbered(w)' => Numbered(w) /\ key'[w] = key[w] /\ number'[w] = number[w]
  BY <1>1, <1>8 DEF IInv, Types, TypeOK, Numbered, StartTitle, TakeLock, Ask, Answered, EndTitle
<1>12. \A v \in Workers : Numbered(v)' => Numbered(v) /\ key'[v] = key[v]
                                                       /\ number'[v] = number[v]
  BY <1>2, <1>11 DEF IInv, Types, TypeOK, Numbered, Clients
<1> QED BY <1>5, <1>6, <1>7, <1>9, <1>10, <1>12, StepKeeps

LEMMA PushKeeps == ASSUME IInv, NEW w \in Workers, Push(w) PROVE IInv'
<1> USE DEF owning, serving, watching, stored, asking, titling, history
<1>1. /\ w \in Clients /\ None \notin Workers /\ job[w] = "push" /\ reply[w] = "none"
      /\ lock = w /\ key[w] \in Series /\ number[w] \in Nat
  BY NamesAssumption
  DEF Clients, Push, IInv, Types, TypeOK, Requests, Asking, Pushed, Numbered
<1>2. /\ job' = [job EXCEPT ![w] = "idle"] /\ lock' = None
      /\ key' = [key EXCEPT ![w] = None] /\ number' = [number EXCEPT ![w] = 0]
      /\ UNCHANGED <<owning, serving, stored, map, reply, given, lowered>>
  BY DEF Push, EndTitle
<1>3. /\ remote' = remote \/ remote' = [remote EXCEPT ![key[w]] = number[w] + 1]
      /\ cloud' \in BOOLEAN
  BY DEF Push, CloudPush, IInv, Types, TypeOK
<1>4. remote' \in [Series -> Nat]
  <2>1. number[w] + 1 \in Nat /\ remote \in [Series -> Nat]
    BY <1>1 DEF IInv, Types, TypeOK
  <2> QED BY <1>1, <1>3, <2>1
<1>5. Types'
  BY <1>1, <1>2, <1>3, <1>4 DEF IInv, Types, TypeOK, WorkerJobs, Clients
<1>6. Children' /\ OneServes' /\ Working' /\ Unreported' /\ Handed'
  BY <1>2 DEF IInv, Children, OneServes, HoldsMutex, Working, Unreported, Allocated, Handed,
     Exists
<1>7. Requests'
  BY <1>1, <1>2 DEF IInv, Types, Requests, Asking, WorkerJobs, Clients
<1>8. \A v \in Workers : job'[v] \notin {"asked", "push"}
  BY <1>1, <1>2 DEF IInv, Types, TypeOK, WorkerJobs, Clients
<1>9. Pushed'
  <2>1. \A m \in Series : remote'[m] = remote[m] \/ (m = key[w] /\ remote'[m] = number[w] + 1)
    BY <1>1, <1>3 DEF IInv, Types, TypeOK
  <2>2. key[w] \in lowered \/ number[w] + 1 <= count[key[w]]
    BY <1>1 DEF IInv, Pushed, Numbered
  <2>3. \A m \in Series : Behind(m, count[m])'
    BY <1>2, <2>1, <2>2 DEF IInv, Pushed, Behind
  <2>4. \A s \in Services, v \in Workers : peer'[s] # v
    BY <1>2, <1>7, <1>8, NamesAssumption DEF Requests, Asking, Clients, WorkerJobs
  <2> QED BY <1>8, <2>3, <2>4 DEF Pushed, Numbered
<1> QED BY <1>5, <1>6, <1>7, <1>9 DEF IInv

LEMMA ToolMoves ==
  ASSUME IInv, NEW t \in Tools, ~Asking(t),
         NEW where \in ToolJobs, NEW name \in Series \cup {None}, NEW n \in Nat,
         Move(t, where, name, n), Requested \/ UNCHANGED srv, map' \in Series \cup {None}
  PROVE  IInv'
<1> USE DEF owning, serving, watching, stored, asking, titling, history
<1>1. t \in Clients /\ t \notin Workers /\ Workers \subseteq Clients
  BY NamesAssumption DEF Clients, Owners
<1>2. /\ job' = [job EXCEPT ![t] = where] /\ key' = [key EXCEPT ![t] = name]
      /\ number' = [number EXCEPT ![t] = n]
      /\ UNCHANGED <<owning, owner, orphan, watching, closing, peer, write, stored, reply,
                     titling, given, lowered>>
  BY DEF Move
<1>3. ServesNoMore /\ srv' \in [Services -> Places]
  BY DEF IInv, Types, TypeOK, Requested, Accepting, ServesNoMore, HoldsMutex, Places, Move
<1>4. \A w \in Workers : job'[w] = job[w] /\ key'[w] = key[w] /\ number'[w] = number[w]
  BY <1>1, <1>2 DEF IInv, Types, TypeOK
<1>5. Types'
  <2>1. /\ job' \in [Clients -> WorkerJobs \cup ToolJobs]
        /\ key' \in [Clients -> Series \cup {None}]
        /\ number' \in [Clients -> Nat]
    BY <1>1, <1>2 DEF IInv, Types, TypeOK
  <2> QED BY <1>2, <1>3, <1>4, <2>1 DEF IInv, Types, TypeOK, Places
<1>6. Children'
  BY <1>2 DEF IInv, Children
<1>7. Requests'
  <2>1. reply[t] = "none"
    BY <1>1 DEF IInv, Types, Requests
  <2>2. \A c \in Clients \ {t} : job'[c] = job[c]
    BY <1>2 DEF IInv, Types
  <2> QED BY <1>1, <1>2, <1>3, <1>4, <2>1, <2>2 DEF IInv, Requests, Asking, ServesNoMore
<1>8. \A w \in Workers : Numbered(w)' => Numbered(w)
  BY <1>2, <1>4 DEF Numbered
<1> QED BY <1>2, <1>3, <1>4, <1>5, <1>6, <1>7, <1>8, StepKeeps

LEMMA ToolKeeps ==
  ASSUME IInv, NEW t \in Tools,
         \/ SelectActive(t) \/ SelectNew(t) \/ UpdateSeries(t) \/ Gather(t) \/ Truncate(t)
         \/ WriteMap(t)
  PROVE  IInv'
<1>1. /\ ~Asking(t) /\ t \in Clients /\ 0 \in Nat
      /\ key[t] \in Series \cup {None} /\ map \in Series \cup {None}
  BY DEF Asking, SelectActive, SelectNew, UpdateSeries, Gather, Truncate, WriteMap, Clients,
     IInv, Types, TypeOK
<1>2. Requested \/ UNCHANGED srv
  BY DEF SelectActive, SelectNew, UpdateSeries, Gather, Truncate, WriteMap, NotServed
<1>3. map' \in Series \cup {None}
  BY <1>1 DEF SelectActive, SelectNew, UpdateSeries, Gather, Truncate, WriteMap
<1>4. {"idle", "resolve", "setting", "padding", "truncate", "write"} \subseteq ToolJobs
  BY DEF ToolJobs
<1>5. Resolve(None) \in Series \cup {None}
  BY ResolveFacts
<1>6. \E where \in ToolJobs, name \in Series \cup {None}, n \in Nat : Move(t, where, name, n)
  <2>1. CASE SelectActive(t)
    BY <1>1, <1>4, <2>1 DEF SelectActive
  <2>2. CASE SelectNew(t)
    BY <1>1, <1>4, <2>2 DEF SelectNew
  <2>3. CASE UpdateSeries(t)
    <3>1. CASE \E v \in Counts : Move(t, "setting", key[t], v)
      BY <1>1, <1>4, <3>1, BoundsAssumption
    <3>2. CASE Move(t, "padding", key[t], 0) \/ Move(t, "idle", None, 0)
      BY <1>1, <1>4, <3>2
    <3> QED BY <2>3, <3>1, <3>2 DEF UpdateSeries
  <2>4. CASE Gather(t)
    <3> DEFINE candidate == IF key[t] = None THEN map ELSE key[t]
               found == IF Exists(candidate) THEN candidate ELSE Resolve(None)
    <3>1. found \in Series \cup {None}
      BY <1>1, <1>5
    <3>2. Move(t, "truncate", found, 0) \/ Move(t, "idle", None, 0)
      BY <2>4 DEF Gather
    <3> HIDE DEF found
    <3> QED BY <1>1, <1>4, <3>1, <3>2
  <2>5. CASE Truncate(t)
    BY <1>1, <1>4, <2>5 DEF Truncate
  <2>6. CASE WriteMap(t)
    BY <1>1, <1>4, <2>6 DEF WriteMap
  <2> QED BY <2>1, <2>2, <2>3, <2>4, <2>5, <2>6
<1> QED BY <1>1, <1>2, <1>3, <1>6, ToolMoves

LEMMA ItemKeeps ==
  ASSUME IInv, (\E t \in Tools : Choose(t) \/ Written(t)) \/ EditActive PROVE IInv'
<1> USE DEF owning, serving, watching, stored, asking, titling, history
<1>1. /\ UNCHANGED <<owning, serving, stored, titling, given, lowered>>
      /\ map' \in Series \cup {None}
  BY DEF Choose, Written, EditActive, IInv, Types, TypeOK
<1>2. PICK c \in Clients \cup {None} : c \notin Workers /\
        \A d \in Clients \ {c} : /\ job'[d] = job[d] /\ key'[d] = key[d]
                                 /\ number'[d] = number[d] /\ reply'[d] = reply[d]
  <2>1. ASSUME NEW t \in Tools, Choose(t) \/ Written(t)
        PROVE  t \in Clients /\ t \notin Workers /\
               \A d \in Clients \ {t} : /\ job'[d] = job[d] /\ key'[d] = key[d]
                                        /\ number'[d] = number[d] /\ reply'[d] = reply[d]
    BY <2>1, NamesAssumption DEF IInv, Types, TypeOK, Choose, Written, Clients, Owners
  <2>2. CASE EditActive
    BY <2>2, NamesAssumption DEF EditActive, Clients
  <2> QED BY <2>1, <2>2
<1> DEFINE Typed == /\ job \in [Clients -> WorkerJobs \cup ToolJobs]
                    /\ key \in [Clients -> Series \cup {None}] /\ number \in [Clients -> Nat]
                    /\ reply \in [Clients -> {"none", "sent", "ok", "unknown", "failed"}]
<1>3. Typed'
  <2>1. ASSUME NEW t \in Tools, Choose(t) PROVE Typed'
    <3>1. t \in Clients /\ UNCHANGED <<number, reply>>
      BY <2>1 DEF Choose, Clients
    <3>2. /\ \E what \in ToolJobs : job' = [job EXCEPT ![t] = what]
          /\ key' = key \/ \E n \in Series : key' = [key EXCEPT ![t] = n]
      BY <2>1 DEF Choose, ToolJobs
    <3> QED BY <3>1, <3>2 DEF IInv, Types, TypeOK
  <2>2. ASSUME NEW t \in Tools, Written(t) PROVE Typed'
    BY <2>2 DEF IInv, Types, TypeOK, Written, ToolJobs
  <2>3. CASE EditActive
    BY <2>3 DEF IInv, Types, TypeOK, EditActive
  <2> QED BY <2>1, <2>2, <2>3
<1>4. \A d \in Clients : reply'[d] # "none" => Asking(d)'
  <2>1. ASSUME NEW t \in Tools, Choose(t) \/ Written(t) PROVE reply'[t] = "none"
    BY <2>1 DEF IInv, Types, Requests, Asking, Choose, Written, Clients
  <2> QED BY <1>2, <2>1 DEF IInv, Types, Requests, Asking, EditActive, Choose, Written
<1>5. Workers \subseteq Clients
  BY DEF Clients
<1>6. \A w \in Workers : /\ job'[w] = job[w] /\ key'[w] = key[w]
                         /\ number'[w] = number[w] /\ reply'[w] = reply[w]
  BY <1>2, <1>5
<1>7. Types'
  BY <1>1, <1>3, <1>6 DEF IInv, Types, TypeOK
<1>8. Children' /\ ServesNoMore
  BY <1>1 DEF IInv, Children, ServesNoMore, HoldsMutex
<1>9. Requests'
  BY <1>1, <1>4, <1>6 DEF IInv, Requests
<1>10. \A w \in Workers : Numbered(w)' => Numbered(w)
  BY <1>6 DEF Numbered
<1> QED BY <1>1, <1>6, <1>7, <1>8, <1>9, <1>10, StepKeeps

-----------------------------------------------------------------------------
LEMMA InitHolds == Init => IInv
<1> SUFFICES ASSUME Init PROVE IInv
  OBVIOUS
<1>1. Types
  <2>1. rows \in Seq(Series) /\ map \in Series
    BY NamesAssumption DEF Init
  <2>2. write \in [Services -> Writes]
    BY DEF Init, Writes, NoWrite
  <2>3. owner \in [Services -> Owners]
    BY DEF Init, Owners
  <2> QED BY <2>1, <2>2, <2>3, NamesAssumption
          DEF Init, Types, TypeOK, WorkerJobs, Clients
<1>2. Children /\ Requests /\ OneServes /\ Working
  BY NamesAssumption
  DEF Init, Children, Requests, OneServes, HoldsMutex, Working, Clients, WorkerJobs
<1>3. Unreported /\ Handed /\ Pushed
  BY DEF Init, Unreported, Allocated, Handed, Pushed, Behind, Numbered, Clients
<1> QED BY <1>1, <1>2, <1>3 DEF IInv

LEMMA StepsKeep == IInv /\ [Next]_vars => IInv'
<1> SUFFICES ASSUME IInv, [Next]_vars PROVE IInv'
  OBVIOUS
<1>1. CASE UNCHANGED vars
  <2>1. Types' /\ Children' /\ Requests' /\ ServesNoMore
    BY <1>1 DEF vars, owning, serving, watching, stored, asking, titling, history,
       IInv, Types, TypeOK, Children, Requests, Asking, ServesNoMore, HoldsMutex
  <2> QED BY <1>1, <2>1, StepKeeps DEF vars, owning, serving, watching, stored, asking,
          titling, history, Numbered
<1>2. ASSUME NEW o \in Owners,
             CreateService(o) \/ CreateFails(o) \/ BeginStop(o) \/ OwnerSteps(o) \/ Die(o)
      PROVE  IInv'
  BY <1>2, OwnerKeeps, CreateKeeps, GoneKeeps DEF OwnerSteps, Exit, Die
<1>3. ASSUME NEW s \in Services,
             ServeSteps(s) \/ WatchSteps(s) \/ CommitFails(s) \/ ReplyFails(s) \/ Crash(s)
      PROVE  IInv'
  BY <1>3, ServeKeeps, ClaimKeeps, ReadKeeps, CommitKeeps, ReplyKeeps DEF ServeSteps, WatchSteps
<1>4. ASSUME NEW w \in Workers, StartTitle(w) \/ WorkerSteps(w) PROVE IInv'
  BY <1>4, WorkerKeeps, PushKeeps DEF WorkerSteps
<1>5. ASSUME NEW t \in Tools, Choose(t) \/ ToolSteps(t) PROVE IInv'
  BY <1>5, ToolKeeps, ItemKeeps DEF ToolSteps
<1> QED BY <1>1, <1>2, <1>3, <1>4, <1>5, RequestKeeps, ItemKeeps DEF Next

(* Every variable keeps its type.                                          *)
THEOREM TypeCorrect == Spec => []TypeOK
<1>1. IInv => TypeOK
  BY DEF IInv, Types
<1> QED BY <1>1, InitHolds, StepsKeep, PTL DEF Spec

(* No number of a series is given twice, unless a user sets the count back *)
(* (AllocateEpisode of the database, its clients and their mishaps).       *)
THEOREM NoNumberTwice == Spec => []AheadOfGiven
<1>1. IInv => AheadOfGiven
  BY DEF IInv, Handed, AheadOfGiven
<1> QED BY <1>1, InitHolds, StepsKeep, PTL DEF Spec

-----------------------------------------------------------------------------
LEMMA OnlyPush ==
  ASSUME [Next]_vars, remote' # remote PROVE \E w \in Workers : Push(w)
<1> USE DEF titling
<1>1. ASSUME NEW o \in Owners,
             CreateService(o) \/ CreateFails(o) \/ BeginStop(o) \/ OwnerSteps(o) \/ Die(o)
      PROVE  FALSE
  BY <1>1 DEF CreateService, CreateFails, BeginStop, OwnerSteps, Die, Exit, Gone, Probe,
     ProbeFails, CheckExited, AskShutdown, ShutdownFails, WaitExit
<1>2. ASSUME NEW s \in Services,
             ServeSteps(s) \/ WatchSteps(s) \/ CommitFails(s) \/ ReplyFails(s) \/ Crash(s)
      PROVE  FALSE
  BY <1>2 DEF ServeSteps, WatchSteps, CommitFails, ReplyFails, Crash, Claim, Loop, Listen,
     Greet, Attend, Read, Refuse, Commit, Reply, Tell, StopDispatcher, Cancel
<1>3. ASSUME NEW w \in Workers, StartTitle(w) \/ WorkerSteps(w) PROVE Push(w)
  BY <1>3 DEF StartTitle, WorkerSteps, TakeLock, Ask, Answered
<1>4. ASSUME NEW t \in Tools, Choose(t) \/ ToolSteps(t) PROVE FALSE
  BY <1>4 DEF Choose, ToolSteps, SelectActive, SelectNew, UpdateSeries, Written, Gather,
     Truncate, WriteMap, Move
<1>5. ~EditActive /\ ~UNCHANGED vars /\ \A c \in Clients : ~Connect(c) /\ ~GiveUp(c)
  BY DEF EditActive, vars, Connect, GiveUp
<1> QED BY <1>1, <1>2, <1>3, <1>4, <1>5 DEF Next

(* The count in the cloud never falls, unless a user sets the count back:  *)
(* title_action_mutex is held from the request to the push                 *)
(* (start_title_action of the journal component).                          *)
THEOREM CloudNeverFalls == Spec => RemoteFollows
<1>1. ASSUME IInv, [Next]_vars
      PROVE  \A n \in Series \ lowered : remote'[n] >= remote[n]
  <2> TAKE n \in Series \ lowered
  <2>1. remote[n] \in Nat
    BY <1>1 DEF IInv, Types, TypeOK
  <2>2. ASSUME NEW w \in Workers, Push(w) PROVE remote'[n] >= remote[n]
    <3>1. /\ remote' = remote \/ remote' = [remote EXCEPT ![key[w]] = number[w] + 1]
          /\ Numbered(w) /\ number[w] \in Nat
      BY <1>1, <2>2 DEF Push, CloudPush, Numbered, IInv, Types, TypeOK, Clients
    <3>2. key[w] \in Series /\ Behind(key[w], number[w] + 1)
      BY <1>1, <3>1 DEF IInv, Pushed
    <3>3. remote \in [Series -> Nat]
      BY <1>1 DEF IInv, Types, TypeOK
    <3> QED BY <2>1, <3>1, <3>2, <3>3 DEF Behind
  <2>3. CASE remote' = remote
    BY <2>1, <2>3
  <2>4. CASE remote' # remote
    <3>1. \E w \in Workers : Push(w)
      BY <1>1, <2>4, OnlyPush
    <3> QED BY <2>2, <3>1
  <2> QED BY <2>3, <2>4
<1> QED BY <1>1, InitHolds, StepsKeep, PTL DEF Spec, RemoteFollows

=============================================================================
