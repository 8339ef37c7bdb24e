--------------------------- MODULE SpotifyTokens ---------------------------
(***************************************************************************)
(* The Spotify component: the three threads of spotify_ac.exe (the command *)
(* loop, the song monitor, the device requests), the authorization they    *)
(* share, the file tokens.map, the two ways spotify_oauth.exe is started   *)
(* and the end of the component.                                           *)
(*                                                                         *)
(* Every call of the web service starts with refresh_tokens().  It runs    *)
(* under a mutex of the process; a refresh reads, presents and stores the  *)
(* tokens under a mutex of the machine, which spotify_oauth.exe also takes *)
(* to save a new sign-in.  The monitor calls it while it holds the lock    *)
(* the command loop needs to tell it to stop.                              *)
(*                                                                         *)
(* A token is the sign-in it comes from, how often that sign-in's refresh  *)
(* token has been replaced, the time it was issued and the time the        *)
(* sign-in ends.  Time counts periods of `timerate' (55) minutes.          *)
(***************************************************************************)
EXTENDS Naturals

CONSTANTS
  Main, Monitor, Devices,  \* the threads of spotify_ac.exe
  Launched, ByHand,        \* spotify_oauth.exe, by who starts it
  None,
  AutoLaunch,    \* auto_launch_oauth
  Commands,      \* the commands that are invoked
  Lifetime,      \* how long a sign-in lasts (179 days in the code)
  MaxTime, MaxGrants, MaxRotations, MaxMishaps  \* mishaps

Threads == {Main, Monitor, Devices}
Oauths == {Launched, ByHand}

ASSUME NamesAssumption ==
  /\ Main # Monitor /\ Main # Devices /\ Monitor # Devices
  /\ Launched # ByHand /\ Threads \cap Oauths = {}
  /\ None \notin Threads \cup Oauths
ASSUME BoundsAssumption ==
  /\ Lifetime \in Nat /\ MaxTime \in Nat /\ MaxGrants \in Nat \ {0}
  /\ MaxRotations \in Nat \ {0} /\ MaxMishaps \in Nat

VARIABLES
  now,        \* the clock
  current,    \* the accounts service: the rotation it accepts, per sign-in
  client,     \* client.id names a client
  file,       \* tokens.map as load() parses it; None when missing or cut
  lock,       \* who holds Local\AutoCoreSpotifyTokens
  mem,        \* the Spotify object's tokens and its three flags
  refresh,    \* refresh_token_mutex: its holder, where that is, which pass
  oauth,      \* the instances of spotify_oauth.exe
  pc,         \* where each thread is
  call,       \* the request of the command loop that is being made
  change,     \* spotify_playback_state_change
  ending,     \* Spotify::end_thread
  deviceStop, \* device_stop
  lost,       \* the token the service accepts was never saved
  mishaps

account == <<now, current, client>>
flags == <<change, ending, deviceStop>>
vars == <<account, file, lock, mem, refresh, oauth, pc, call, flags,
          lost, mishaps>>

Grants == 1 .. MaxGrants
TokenState == [grant : Grants, rotation : 1 .. MaxRotations,
               at : 0 .. MaxTime, until : 0 .. MaxTime + Lifetime]
ASSUME NoneAssumption == None \notin TokenState
Free == [by |-> None, at |-> "free", pass |-> 0]
Signed(g) == [grant |-> g, rotation |-> 1, at |-> now,
              until |-> now + Lifetime]

(* The Spotify constructor, with what tokens.map holds. *)
Constructed(tokens) == [tokens |-> tokens, reauthorize |-> FALSE,
                        reread |-> FALSE, attempted |-> FALSE]
Started == [t \in Threads |-> CASE t = Main    -> "attending"
                                [] t = Monitor -> "napping"
                                [] t = Devices -> "listening"]

Init ==
  /\ now = 0 /\ client = TRUE
  /\ file \in {None} \cup [grant : {1}, rotation : {1}, at : {0},
                           until : 1 .. Lifetime]
  /\ current = [g \in Grants |-> IF g = 1 /\ file # None THEN 1 ELSE 0]
  /\ lock = None
  /\ mem = Constructed(file) /\ refresh = Free
  /\ oauth = [o \in Oauths |-> [at |-> "out", tokens |-> None]]
  /\ pc = Started /\ call = None
  /\ change = FALSE /\ ending = FALSE /\ deviceStop = FALSE
  /\ lost = FALSE /\ mishaps = 0

Mishap == mishaps < MaxMishaps /\ mishaps' = mishaps + 1

(* TokenSession waits for the mutex without a limit; an abandoned one will   *)
(* do.  store() ends with the one step that shows the new file.             *)
TokenSession(who) == lock = None /\ lock' = who
ReplaceFile(tokens) == file' = tokens /\ lock' = None

-----------------------------------------------------------------------------
(* The tokens a thread decides about. *)

(* check_refresh_token_expiration, check_timerate. *)
Expired(s) == s.until <= now
Aged(s) == now # s.at
Accepted(s) == current[s.grant] = s.rotation

(* load_tokens_from_disk. *)
Loaded(m) == IF file = None THEN [m EXCEPT !.tokens = None]
             ELSE [m EXCEPT !.tokens = file, !.reauthorize = FALSE]
Checked(m) == IF m.tokens = None \/ m.reauthorize THEN m
              ELSE [m EXCEPT !.reauthorize = Expired(m.tokens)]

(* What attempt_token_refresh makes of them, before it asks the service. *)
Decision(m) ==
  IF m.tokens = None \/ m.reauthorize THEN "interactive"
  ELSE IF Aged(m.tokens) THEN "refresh" ELSE "ready"

-----------------------------------------------------------------------------
(* What a thread does with the answer of refresh_tokens. *)

StartPlayback(ready) == {"done"} \cup (IF ready THEN {"last"} ELSE {})
SwitchPlayer(ready) ==
  IF ready THEN {"play_pause", "last", "done"} ELSE {"done"}

(* The request that follows a request of the command loop; the service's    *)
(* answer is any.  "desktop" is start_playback_on_desktop where              *)
(* start_spotify_desktop_playback calls it; "last" is a request that none    *)
(* follows: pause_song, get_current_song, get_user_queue, a transfer.        *)
Follow(c, ready) ==
  CASE c = "play_pause" ->
         IF ready THEN {"is_spotify_playing"} ELSE {"done"}
    [] c = "is_spotify_playing" ->
         IF ready THEN {"last", "play_song"} ELSE {"play_song"}
    [] c = "play_song" ->
         {"start_playback", "desktop"} \cup (IF ready THEN {"done"} ELSE {})
    [] c = "start_playback" -> StartPlayback(ready)
    [] c = "desktop" ->
         {"last"} \cup (IF ready THEN {"transfer_desktop"} ELSE {})
    [] c = "transfer_desktop" -> {"last"}
    [] c = "switch_player" -> SwitchPlayer(ready)
    [] c = "next_song" -> {"signal"}
    [] c = "last" -> {"done"}

(* device_request_loop, back at its head; or its client has a list to read  *)
(* that the buffer of the pipe does not hold.                               *)
DeviceLoop == IF deviceStop THEN "ended" ELSE "listening"
Served(ready) == {DeviceLoop} \cup (IF ready THEN {"replying"} ELSE {})

Resume(t, ready) ==
  CASE t = Main ->
         /\ \E c \in Follow(call, ready) :
              IF c \in {"done", "signal"}
              THEN /\ pc' = [pc EXCEPT ![Main] =
                               IF c = "done" THEN "attending" ELSE "signaling"]
                   /\ call' = None
              ELSE call' = c /\ UNCHANGED pc
         /\ UNCHANGED flags
    [] t = Monitor ->
         /\ pc' = [pc EXCEPT ![Monitor] = "waiting"]
         /\ change' = FALSE
         /\ UNCHANGED <<call, ending, deviceStop>>
    [] t = Devices ->
         /\ \E place \in Served(ready) : pc' = [pc EXCEPT ![Devices] = place]
         /\ UNCHANGED <<call, flags>>

-----------------------------------------------------------------------------
(* refresh_tokens. *)

At(t, where) == refresh.by = t /\ refresh.at = where
Goto(where) == refresh' = [refresh EXCEPT !.at = where]
Stay == UNCHANGED <<pc, call, flags>>

Refuse(t) == refresh' = Free /\ Resume(t, FALSE)

(* The three outcomes of an attempt, with the memory m it leaves. *)
Ready(t, m) ==
  /\ mem' = [m EXCEPT !.attempted = FALSE]
  /\ refresh' = Free /\ Resume(t, TRUE)
Interactive(t, m) ==
  IF AutoLaunch /\ ~m.attempted
  THEN mem' = [m EXCEPT !.attempted = TRUE] /\ Goto("launching") /\ Stay
  ELSE mem' = m /\ Refuse(t)
Transient(t) == Refuse(t)

(* The mutex, and the one reread of a file that was missing at the start. *)
BeginRefresh(t) ==
  /\ pc[t] = "asking" /\ refresh.by = None
  /\ refresh' = [by |-> t, at |-> "checking", pass |-> 0]
  /\ mem' = IF mem.tokens = None /\ ~mem.reread
            THEN [Loaded(mem) EXCEPT !.reread = TRUE] ELSE mem
  /\ Stay
  /\ UNCHANGED <<account, file, lock, oauth, lost, mishaps>>

Settle(t, m) ==
  \/ Decision(m) = "ready" /\ Ready(t, m)
  \/ Decision(m) = "interactive" /\ Interactive(t, m)

CheckMemory(t) ==
  /\ At(t, "checking")
  /\ \/ Settle(t, Checked(mem))
     \/ /\ Decision(Checked(mem)) = "refresh"
        /\ mem' = Checked(mem) /\ Goto("locking") /\ Stay
  /\ UNCHANGED <<account, file, lock, oauth, lost, mishaps>>

(* Mutant of Reread: the tokens in memory are trusted under the lock. *)
RereadNothing == Checked(mem)
Reread == Checked(Loaded(mem))

(* TokenSession, the reread of tokens.map and the second check. *)
TakeLock(t) ==
  /\ At(t, "locking")
  /\ \/ Settle(t, Reread) /\ lock = None /\ UNCHANGED lock
     \/ /\ TokenSession(t) /\ Decision(Reread) = "refresh"
        /\ mem' = Reread /\ Goto("posting") /\ Stay
  /\ UNCHANGED <<account, file, oauth, lost, mishaps>>

LockFails(t) ==
  /\ At(t, "locking") /\ Mishap /\ Transient(t)
  /\ UNCHANGED <<account, file, lock, mem, oauth, lost>>

NoClient(t) ==
  /\ At(t, "posting") /\ ~client /\ lock' = None /\ Interactive(t, mem)
  /\ UNCHANGED <<account, file, oauth, lost, mishaps>>

(* The service may hand out a new refresh token, which replaces the old. *)
Rotations(r) == {k \in {r, r + 1} : k <= MaxRotations}

(* Mutant of Renewed: the refresh token of the answer is not taken. *)
RenewedInPart(s, k) == [s EXCEPT !.at = now]
Renewed(s, k) == [s EXCEPT !.rotation = k, !.at = now]

Granted(t) ==
  /\ At(t, "posting") /\ client /\ Accepted(mem.tokens)
  /\ \E k \in Rotations(mem.tokens.rotation) :
       /\ current' = [current EXCEPT ![mem.tokens.grant] = k]
       /\ mem' = [mem EXCEPT !.tokens = Renewed(mem.tokens, k)]
  /\ Goto("storing") /\ Stay
  /\ UNCHANGED <<now, client, file, lock, oauth, lost, mishaps>>

Rejected(t) ==
  /\ At(t, "posting") /\ client /\ ~Accepted(mem.tokens)
  /\ lock' = None
  /\ Interactive(t, [mem EXCEPT !.reauthorize = TRUE])
  /\ UNCHANGED <<account, file, oauth, lost, mishaps>>

(* A rate limit, an error of the service, or an answer that never arrives,  *)
(* or without a token, although the service may have replaced the token.    *)
Unanswered ==
  \E k \in {current[mem.tokens.grant]}
             \cup (IF Accepted(mem.tokens)
                   THEN Rotations(mem.tokens.rotation) ELSE {}) :
    /\ current' = [current EXCEPT ![mem.tokens.grant] = k]
    /\ lost' = (lost \/ k # current[mem.tokens.grant])

(* Mutant of NoAnswer: a rate limit asks the user to sign in. *)
NoAnswerPrompts(t) ==
  /\ At(t, "posting") /\ client /\ Mishap /\ Unanswered
  /\ lock' = None /\ Interactive(t, mem)
  /\ UNCHANGED <<now, client, file, oauth>>
NoAnswer(t) ==
  /\ At(t, "posting") /\ client /\ Mishap /\ Unanswered
  /\ lock' = None
  /\ \/ Transient(t) /\ UNCHANGED mem
     \/ Ready(t, mem)  \* 200 without an access_token
  /\ UNCHANGED <<now, client, file, oauth>>

(* replace_file: tokens.map.new is written and flushed, and then renamed.   *)
(* What is seen of the writing is only that the program may end before the  *)
(* renaming.                                                                *)
Rename(t) ==
  /\ At(t, "storing") /\ ReplaceFile(mem.tokens)
  /\ Ready(t, mem)
  /\ UNCHANGED <<account, oauth, lost, mishaps>>

Unsaved == refresh.at = "storing"
             /\ file # None /\ mem.tokens.rotation # file.rotation

StoreFails(t) ==
  /\ At(t, "storing") /\ Mishap
  /\ lost' = (lost \/ Unsaved) /\ lock' = None /\ Transient(t)
  /\ UNCHANGED <<account, file, mem, oauth>>

(* launch_spotify_oauth waits for the program without a limit; then the     *)
(* file is read again and the second pass begins.                           *)
Launch(t) ==
  /\ At(t, "launching") /\ oauth[Launched].at = "out"
  /\ oauth' = [oauth EXCEPT ![Launched].at = "menu"]
  /\ Goto("waiting") /\ Stay
  /\ UNCHANGED <<account, file, lock, mem, lost, mishaps>>

SecondPass(t) ==
  /\ mem' = [Loaded(mem) EXCEPT !.reread = TRUE]
  /\ IF refresh.pass = 0
     THEN refresh' = [refresh EXCEPT !.at = "checking", !.pass = 1] /\ Stay
     ELSE Refuse(t)

OauthEnded(t) ==
  /\ At(t, "waiting") /\ oauth[Launched].at = "ended"
  /\ oauth' = [oauth EXCEPT ![Launched].at = "out"]
  /\ SecondPass(t)
  /\ UNCHANGED <<account, file, lock, lost, mishaps>>

LaunchFails(t) ==
  /\ At(t, "launching") /\ Mishap /\ SecondPass(t)
  /\ UNCHANGED <<account, file, lock, oauth, lost>>

RefreshSteps(t) ==
  \/ CheckMemory(t) \/ NoClient(t) \/ Granted(t) \/ Rejected(t)
  \/ Rename(t) \/ Launch(t) \/ OauthEnded(t)
RefreshMishaps(t) ==
  LockFails(t) \/ NoAnswer(t) \/ StoreFails(t) \/ LaunchFails(t)

-----------------------------------------------------------------------------
(* The song monitor. *)

MonitorHolds == pc[Monitor] = "asking"  \* spotify_mtx
ThreadStep == UNCHANGED <<account, file, lock, mem, refresh, oauth,
                          lost>>
Step(t, from, to) == pc[t] = from /\ pc' = [pc EXCEPT ![t] = to]

Nap == /\ Step(Monitor, "napping", "asking")
       /\ ThreadStep /\ UNCHANGED <<call, flags, mishaps>>

Timeout == /\ ~change /\ Step(Monitor, "waiting", "asking")
           /\ ThreadStep /\ UNCHANGED <<call, flags, mishaps>>

Wake == /\ change
        /\ Step(Monitor, "waiting", IF ending THEN "ended" ELSE "asking")
        /\ ThreadStep /\ UNCHANGED <<call, flags, mishaps>>

-----------------------------------------------------------------------------
(* The device requests of spotify_editor.exe. *)

(* A client connects; after a stop the loop ends.  Else the hello and the   *)
(* command are read, without a limit and without a way to cancel it.        *)
Connect ==
  /\ Step(Devices, "listening", IF deviceStop THEN "ended" ELSE "serving")
  /\ ThreadStep /\ UNCHANGED <<call, flags, mishaps>>

(* The client of this protocol asks for the list; any other, or one that    *)
(* has read its list or is gone, is left.                                   *)
ListDevices ==
  /\ Step(Devices, "serving", "asking")
  /\ ThreadStep /\ UNCHANGED <<call, flags, mishaps>>
LeaveClient ==
  /\ \E place \in {"serving", "replying"} : Step(Devices, place, DeviceLoop)
  /\ ThreadStep /\ UNCHANGED <<call, flags, mishaps>>

(* create_pipe_server fails: the thread is over.                            *)
ListenFails ==
  /\ Step(Devices, "listening", "ended") /\ Mishap
  /\ ThreadStep /\ UNCHANGED <<call, flags>>

-----------------------------------------------------------------------------
(* The command loop and the end of the component. *)

Invoke ==
  /\ Step(Main, "attending", "asking")
  /\ call' \in Commands
  /\ ThreadStep /\ UNCHANGED <<flags, mishaps>>

Signal ==
  /\ ~MonitorHolds /\ Step(Main, "signaling", "attending")
  /\ change' = TRUE
  /\ ThreadStep /\ UNCHANGED <<call, ending, deviceStop, mishaps>>

(* shutdown, a broken pipe, or a hello or a connection that fails. *)
BeginStop == /\ Step(Main, "attending", "stopping")
             /\ ThreadStep /\ UNCHANGED <<call, flags, mishaps>>

StopMonitor ==
  /\ ~MonitorHolds /\ Step(Main, "stopping", "joining")
  /\ ending' = TRUE /\ change' = TRUE
  /\ ThreadStep /\ UNCHANGED <<call, deviceStop, mishaps>>

StopDevices ==
  /\ pc[Monitor] = "ended" /\ Step(Main, "joining", "poking")
  /\ deviceStop' = TRUE
  /\ ThreadStep /\ UNCHANGED <<call, change, ending, mishaps>>

(* Mutant of Poke: the device thread is left in ConnectNamedPipe. *)
PokeNothing == Step(Main, "poking", "parting")
                 /\ ThreadStep /\ UNCHANGED <<call, flags, mishaps>>
(* The poke reaches a listening pipe; a busy one is looked for in vain. *)
Poke ==
  /\ pc[Main] = "poking"
  /\ pc' = [pc EXCEPT ![Main] = "parting",
                      ![Devices] = IF @ = "listening" THEN "ended" ELSE @]
  /\ ThreadStep /\ UNCHANGED <<call, flags, mishaps>>

(* The memory of the process is gone with it. *)
Gone ==
  /\ pc' = [t \in Threads |-> "out"] /\ call' = None
  /\ mem' = Constructed(None) /\ refresh' = Free
  /\ change' = FALSE /\ ending' = FALSE /\ deviceStop' = FALSE

Exit ==
  /\ pc[Main] = "parting" /\ pc[Devices] = "ended" /\ Gone
  /\ UNCHANGED <<account, file, lock, oauth, lost, mishaps>>

(* The host ends the job, and an instance the component started with it;    *)
(* or an answer that is no JSON leaves the command loop or the device       *)
(* thread as an exception nobody catches.  A mutex is left abandoned.       *)
Kill ==
  /\ pc[Main] # "out" /\ Mishap /\ Gone
  /\ oauth' = [oauth EXCEPT ![Launched] = [at |-> "out", tokens |-> None]]
  /\ lock' = IF lock = ByHand THEN lock ELSE None
  /\ lost' = (lost \/ Unsaved)
  /\ UNCHANGED <<account, file>>

(* The same exception in the monitor is caught outside its loop. *)
MonitorCrash ==
  /\ At(Monitor, "posting") /\ Mishap /\ Unanswered
  /\ pc' = [pc EXCEPT ![Monitor] = "ended"]
  /\ refresh' = Free /\ lock' = None
  /\ UNCHANGED <<now, client, file, mem, oauth, call, flags>>

Restart ==
  /\ pc[Main] = "out"
  /\ pc' = Started /\ mem' = Constructed(file)
  /\ UNCHANGED <<account, file, lock, refresh, oauth, call, flags, lost,
                 mishaps>>

-----------------------------------------------------------------------------
(* spotify_oauth.exe. *)

InOauth(o, where) == oauth[o].at = where
Running(o) == oauth[o].at \notin {"out", "ended"}
OauthStep == UNCHANGED <<now, client, mem, refresh, pc, call, flags,
                         mishaps>>
Ended(o) == oauth' = [oauth EXCEPT ![o] =
              [at |-> IF o = Launched THEN "ended" ELSE "out",
               tokens |-> None]]

StartByHand ==
  /\ InOauth(ByHand, "out") /\ oauth' = [oauth EXCEPT ![ByHand].at = "menu"]
  /\ OauthStep /\ UNCHANGED <<current, file, lock, lost>>

NewGrant(g) == /\ \A h \in Grants : (h < g) <=> (current[h] # 0)
               /\ current' = [current EXCEPT ![g] = 1]

(* Authorize Spotify: the callback server listens, the user approves in the *)
(* browser, the callback brings a code that is exchanged for tokens.  The   *)
(* user may take any time, and no other program sees a step of it.          *)
Authorize(o) ==
  /\ InOauth(o, "menu") /\ client
  /\ \E g \in Grants :
       /\ NewGrant(g)
       /\ oauth' = [oauth EXCEPT ![o] = [at |-> "granted",
                                         tokens |-> Signed(g)]]
  /\ OauthStep /\ UNCHANGED <<file, lock, lost>>

Save(o) ==
  /\ InOauth(o, "granted") /\ TokenSession(o)
  /\ oauth' = [oauth EXCEPT ![o].at = "writing"]
  /\ OauthStep /\ UNCHANGED <<current, file, lost>>

SaveRename(o) ==
  /\ InOauth(o, "writing")
  /\ ReplaceFile(oauth[o].tokens) /\ lost' = FALSE /\ Ended(o)
  /\ OauthStep /\ UNCHANGED current

(* Abort, a denied or invalid callback, a failed exchange or save, and the  *)
(* console closed at any moment, which ends the process where it stands.    *)
Leave(o) ==
  /\ Running(o) /\ Ended(o)
  /\ lock' = IF lock = o THEN None ELSE lock
  /\ OauthStep /\ UNCHANGED <<current, file, lost>>

UserSteps(o) == Authorize(o) \/ Leave(o)

-----------------------------------------------------------------------------
Tick == /\ now < MaxTime /\ now' = now + 1
        /\ UNCHANGED <<current, client, file, lock, mem, refresh,
                       oauth, pc, call, flags, lost, mishaps>>

(* The clock is set back; spotify_editor.exe writes client.id. *)
SetClockBack == /\ now > 0 /\ now' = now - 1 /\ Mishap
                /\ UNCHANGED <<current, client, file, lock, mem,
                               refresh, oauth, pc, call, flags, lost>>
EditClient == /\ client' = ~client /\ Mishap
              /\ UNCHANGED <<now, current, file, lock, mem, refresh,
                             oauth, pc, call, flags, lost>>

Next ==
  \/ \E t \in Threads : \/ BeginRefresh(t) \/ TakeLock(t)
                        \/ RefreshSteps(t) \/ RefreshMishaps(t)
  \/ Nap \/ Timeout \/ Wake
  \/ Connect \/ ListDevices \/ LeaveClient \/ ListenFails
  \/ Invoke \/ Signal \/ BeginStop \/ StopMonitor \/ StopDevices \/ Poke
  \/ Exit \/ Kill \/ MonitorCrash \/ Restart
  \/ StartByHand
  \/ \E o \in Oauths : UserSteps(o) \/ Save(o) \/ SaveRename(o)
  \/ Tick \/ SetClockBack \/ EditClient

Spec == Init /\ [][Next]_vars

(* Threads run, requests are answered, what a refresh may wait for goes on, *)
(* and the two waits for a mutex that is freed again and again end: the     *)
(* monitor's for refresh_token_mutex and the stop's for spotify_mtx.        *)
(* Nothing makes the user sign in, invoke, edit or stop, nor a device       *)
(* client connect, speak, read or leave.                                    *)
RefreshGoesOn ==
  \/ \E t \in Threads : RefreshSteps(t) \/ TakeLock(t)
  \/ BeginRefresh(Devices)
  \/ Save(Launched) \/ \E o \in Oauths : SaveRename(o)
ThreadGoesOn == Nap \/ Timeout \/ Wake \/ StopDevices \/ Poke \/ Exit
Fairness ==
  /\ WF_vars(RefreshGoesOn) /\ WF_vars(ThreadGoesOn)
  /\ SF_vars(BeginRefresh(Monitor)) /\ SF_vars(StopMonitor)
FairSpec == Spec /\ Fairness

-----------------------------------------------------------------------------
TypeOK ==
  /\ now \in 0 .. MaxTime /\ client \in BOOLEAN
  /\ current \in [Grants -> 0 .. MaxRotations]
  /\ file \in TokenState \cup {None}
  /\ lock \in Threads \cup Oauths \cup {None}
  /\ mem.tokens \in TokenState \cup {None}
  /\ refresh.by \in Threads \cup {None} /\ refresh.pass \in 0 .. 1
  /\ \A t \in Threads : refresh.by = t => pc[t] = "asking"
  /\ lost \in BOOLEAN

(* Between refreshes and saves the refresh token in tokens.map is the one   *)
(* the service accepts: two writers and a token each refresh replaces never *)
(* leave the file behind, unless an answer or a store was lost on the way.  *)
FileAccepted == file # None /\ lock = None /\ ~lost => Accepted(file)

(* tokens.map is never cut short, whenever a program ends, and a refresh    *)
(* never writes the tokens of one sign-in over those of another, which the  *)
(* user may complete while the component waits for the lock.                *)
KeepsSignIn ==
  [][file' # file => /\ file' # None
                     /\ lock \in Threads => /\ file # None
                                            /\ file'.grant = file.grant]_vars

(* The component opens the sign-in only when the authorization it knows is  *)
(* incomplete, past its end or rejected, or when tokens.map holds another   *)
(* one than it knows; never for a failure that passes.                      *)
PromptIsNeeded ==
  [][refresh.at # "launching" /\ refresh'.at = "launching" =>
       \/ ~client \/ file = None \/ Expired(file) \/ ~Accepted(file)
       \/ file # mem.tokens]_vars

(* A stop that the monitor has erased: it was made before the monitor first *)
(* held the lock, and the loop then reset the flag.                         *)
Erased == ending /\ ~change

(* Two waits of the code for somebody outside it, neither with a limit: for *)
(* a sign-in the component opened, and for a device client that is          *)
(* connected and neither speaks, reads nor leaves.                          *)
Prompting == refresh.at = "waiting" /\ InOauth(Launched, "menu")
Silent == pc[Devices] \in {"serving", "replying"}

(* A component that is told to end ends, however its threads, the refreshes *)
(* and its device clients interleave, provided no sign-in it opened is left *)
(* unanswered for ever and no device client holds its pipe for ever; the    *)
(* stop neither ends the one nor cancels the other's read.                  *)
StopEnds ==
  []<>~Prompting /\ []<>~Silent =>
    (pc[Main] = "stopping" ~> (pc[Main] = "out" \/ Erased))
=============================================================================
