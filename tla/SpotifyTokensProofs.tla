------------------------ MODULE SpotifyTokensProofs -------------------------
(***************************************************************************)
(* Two facts about tokens.map, for any number of sign-ins, replacements    *)
(* and mishaps: it holds the refresh token the service accepts, and a      *)
(* refresh does not write over another sign-in.  Both rest on the lock:    *)
(* while a thread holds it, its tokens are those of the file or their      *)
(* replacement, and a sign-in that is not saved yet is one that no refresh *)
(* has presented.                                                          *)
(***************************************************************************)
EXTENDS SpotifyTokens, TLAPS

Tokens == TokenState \cup {None}
MemState == [tokens : Tokens, reauthorize : BOOLEAN, reread : BOOLEAN,
             attempted : BOOLEAN]
Outside == {"free", "checking", "locking", "launching", "waiting"}
Inside == {"posting", "storing"}
RefreshState == [by : Threads \cup {None}, at : Outside \cup Inside,
                 pass : 0 .. 1]
Places == {"out", "attending", "asking", "signaling", "stopping", "joining",
           "poking", "parting", "napping", "waiting", "ended", "listening",
           "serving", "replying"}
OauthState == [at : {"out", "menu", "granted", "writing", "ended"},
               tokens : Tokens]

Types ==
  /\ now \in 0 .. MaxTime
  /\ current \in [Grants -> 0 .. MaxRotations]
  /\ file \in Tokens /\ mem \in MemState
  /\ refresh \in RefreshState /\ oauth \in [Oauths -> OauthState]
  /\ pc \in [Threads -> Places] /\ lost \in BOOLEAN

(* Only a thread that asks refreshes, and the monitor is joined before the *)
(* component ends.                                                         *)
Asked ==
  /\ \A t \in Threads : refresh.by = t => pc[t] = "asking"
  /\ pc[Main] \in {"poking", "parting"} => pc[Monitor] = "ended"

(* Nothing is asked of a component that is not there.                      *)
OutIsFree ==
  /\ Asked
  /\ refresh.by = None => refresh.at = "free"
  /\ pc[Main] = "out" => refresh.by = None /\ \A t \in Threads : pc[t] = "out"

(* Who holds the mutex of the machine.                                     *)
Holders ==
  /\ refresh.at \in Inside => lock = refresh.by
  /\ lock \in Threads => refresh.at \in Inside
  /\ \A o \in Oauths : lock = o <=> oauth[o].at = "writing"

(* What the holder has read and been given.                                *)
UnderLock ==
  /\ refresh.at \in Inside => /\ file # None /\ mem.tokens # None
                              /\ mem.tokens.grant = file.grant
  /\ refresh.at = "posting" => mem.tokens = file
  /\ refresh.at = "storing" => Accepted(mem.tokens)

(* The sign-in in the file has been granted.                               *)
Granting == file # None => current[file.grant] # 0

(* A sign-in not saved yet is in no other program's hands.                 *)
Pending(o) == oauth[o].at \in {"granted", "writing"}
Fresh ==
  \A o \in Oauths : Pending(o) =>
    /\ oauth[o].tokens # None /\ oauth[o].tokens.rotation = 1
    /\ current[oauth[o].tokens.grant] = 1
    /\ file # None => file.grant # oauth[o].tokens.grant
    /\ \A q \in Oauths \ {o} :
         Pending(q) => oauth[q].tokens.grant # oauth[o].tokens.grant

Kept == (file # None /\ ~lost /\ refresh.at # "storing") => Accepted(file)

IInv == /\ Types /\ OutIsFree /\ Holders /\ UnderLock /\ Granting
        /\ Fresh /\ Kept

-----------------------------------------------------------------------------
(* Every step after which nobody holds the mutex for a refresh, and that   *)
(* leaves the file alone.                                                  *)
LEMMA OutsideKeeps ==
  ASSUME IInv, Types', OutIsFree', Holders', UNCHANGED file,
         refresh'.at \in Outside,
         \A o \in Oauths : Pending(o)' => oauth'[o] = oauth[o],
         \/ UNCHANGED current
         \/ /\ refresh.at \in Inside
            /\ \E k \in 1 .. MaxRotations :
                 current' = [current EXCEPT ![mem.tokens.grant] = k],
         lost => lost',
         (~lost' /\ file # None) => Accepted(file)'
  PROVE  IInv'
<1>1. ~(refresh'.at \in Inside)
  BY DEF Outside, Inside
<1>2. UnderLock' /\ Kept'
  BY <1>1 DEF UnderLock, Kept, Inside
<1>3. Granting'
  BY DEF IInv, Types, Granting, UnderLock, Tokens, TokenState, MemState
<1>4. Fresh'
  BY DEF IInv, Types, Fresh, UnderLock, Tokens, TokenState, MemState, Pending,
     OauthState
<1> QED BY <1>2, <1>3, <1>4 DEF IInv

(* A step that only moves threads, the clock or client.id.                 *)
LEMMA ThreadsKeep ==
  ASSUME IInv, UNCHANGED <<current, file, lock, mem, refresh, oauth, lost>>,
         now' \in 0 .. MaxTime, pc' \in [Threads -> Places],
         pc' = pc \/ (pc[Main] # "out" /\ pc'[Main] # "out"), Asked'
  PROVE  IInv'
BY DEF IInv, Types, OutIsFree, Holders, UnderLock, Accepted, Granting, Fresh,
       Pending, Kept

-----------------------------------------------------------------------------
(* What an attempt leaves.                                                 *)

LEMMA MemFacts ==
  ASSUME Types, NEW m \in MemState, NEW b \in BOOLEAN
  PROVE  /\ [m EXCEPT !.attempted = b] \in MemState
         /\ [m EXCEPT !.reauthorize = b] \in MemState
         /\ [m EXCEPT !.reread = b] \in MemState
         /\ [m EXCEPT !.attempted = b].tokens = m.tokens
         /\ [m EXCEPT !.reauthorize = b].tokens = m.tokens
         /\ [m EXCEPT !.reread = b].tokens = m.tokens
BY DEF MemState

LEMMA LoadedFacts ==
  ASSUME Types, NEW m \in MemState
  PROVE  Loaded(m) \in MemState /\ Loaded(m).tokens = file
BY DEF Types, Loaded, MemState, Tokens

LEMMA CheckedFacts ==
  ASSUME Types, NEW m \in MemState
  PROVE  Checked(m) \in MemState /\ Checked(m).tokens = m.tokens
<1>1. Expired(m.tokens) \in BOOLEAN
  BY DEF Expired
<1> QED BY <1>1, MemFacts DEF Checked

(* The thread t is inside refresh_tokens.                                  *)
Busy(t) == Types /\ Asked /\ pc[Main] # "out" /\ refresh.by = t

(* The refresh is over or goes on outside the lock.                        *)
Result ==
  /\ Asked'
  /\ refresh' \in RefreshState /\ refresh'.at \in Outside
  /\ refresh'.by = None => refresh'.at = "free"
  /\ pc' \in [Threads -> Places] /\ pc'[Main] # "out"

LEMMA ResumeFacts ==
  ASSUME NEW t \in Threads, Busy(t), NEW ready, Resume(t, ready),
         refresh' = Free
  PROVE  pc' \in [Threads -> Places] /\ pc'[Main] # "out" /\ Asked'
<1> USE NamesAssumption DEF Types, Threads, Places, Busy, Asked, Free
<1>1. CASE t = Main
  BY <1>1 DEF Resume
<1>2. CASE t = Monitor
  BY <1>2 DEF Resume
<1>3. CASE t = Devices
  BY <1>3 DEF Resume, Served, DeviceLoop
<1> QED BY <1>1, <1>2, <1>3

LEMMA FreeFacts == Free \in RefreshState /\ Free.at = "free"
BY DEF Free, RefreshState, Outside

LEMMA RefuseFacts ==
  ASSUME NEW t \in Threads, Busy(t), Refuse(t)
  PROVE  Result
BY ResumeFacts, FreeFacts DEF Refuse, Result, Outside

LEMMA GotoFacts ==
  ASSUME NEW t \in Threads, Busy(t), NEW where \in Outside \cup Inside,
         Goto(where)
  PROVE  /\ refresh' \in RefreshState /\ refresh'.at = where
         /\ refresh'.by = t
BY DEF Busy, Types, RefreshState, Goto

LEMMA StayFacts ==
  ASSUME NEW t \in Threads, Busy(t), Stay, refresh'.by = t
  PROVE  pc' \in [Threads -> Places] /\ pc'[Main] # "out" /\ Asked'
BY DEF Busy, Types, Stay, Asked

LEMMA OnwardFacts ==
  ASSUME NEW t \in Threads, Busy(t), NEW where \in Outside, Goto(where), Stay
  PROVE  Result
BY GotoFacts, StayFacts, NamesAssumption DEF Result

LEMMA ReadyFacts ==
  ASSUME NEW t \in Threads, Busy(t), NEW m \in MemState, Ready(t, m)
  PROVE  Result /\ mem' \in MemState
<1>1. Types
  BY DEF Busy
<1> QED BY <1>1, ResumeFacts, FreeFacts, MemFacts DEF Ready, Result, Outside

LEMMA InteractiveFacts ==
  ASSUME NEW t \in Threads, Busy(t), NEW m \in MemState, Interactive(t, m)
  PROVE  Result /\ mem' \in MemState
<1>1. CASE mem' = [m EXCEPT !.attempted = TRUE] /\ Goto("launching") /\ Stay
  <2>1. Types /\ "launching" \in Outside
    BY DEF Busy, Outside
  <2> QED BY <1>1, <2>1, OnwardFacts, MemFacts
<1>2. CASE mem' = m /\ Refuse(t)
  BY <1>2, RefuseFacts
<1> QED BY <1>1, <1>2 DEF Interactive

LEMMA SettleFacts ==
  ASSUME NEW t \in Threads, Busy(t), NEW m \in MemState, Settle(t, m)
  PROVE  Result /\ mem' \in MemState
BY ReadyFacts, InteractiveFacts DEF Settle

LEMMA SecondPassFacts ==
  ASSUME NEW t \in Threads, Busy(t), SecondPass(t)
  PROVE  Result /\ mem' \in MemState
<1> Types
  BY DEF Busy
<1>1. mem' \in MemState
  <2>1. Loaded(mem) \in MemState
    BY LoadedFacts DEF Types
  <2> QED BY <2>1, MemFacts DEF SecondPass
<1>2. CASE refresh' = [refresh EXCEPT !.at = "checking", !.pass = 1] /\ Stay
  <2>1. [refresh EXCEPT !.at = "checking", !.pass = 1] \in RefreshState
    BY 1 \in 0 .. 1 DEF Types, RefreshState, Outside
  <2>2. refresh'.at = "checking" /\ refresh'.by = t
    BY <1>2 DEF Types, RefreshState, Busy
  <2> QED BY <1>1, <1>2, <2>1, <2>2, StayFacts, NamesAssumption
          DEF Result, Outside
<1>3. CASE Refuse(t)
  BY <1>1, <1>3, RefuseFacts
<1> QED BY <1>2, <1>3 DEF SecondPass

LEMMA AtFacts ==
  ASSUME IInv, NEW t \in Threads, NEW where, At(t, where)
  PROVE  /\ Busy(t) /\ refresh.at = where /\ t # None
         /\ pc[Main] # "out" /\ Types /\ mem \in MemState
BY NamesAssumption DEF IInv, OutIsFree, At, Busy, Types

(* An attempt that ends, or goes on outside the lock, with the file as it   *)
(* was.                                                                    *)
LEMMA AttemptEnds ==
  ASSUME IInv, Result, mem' \in MemState, lost' \in BOOLEAN,
         UNCHANGED <<now, file, oauth>>,
         \/ refresh.at \in Outside /\ UNCHANGED <<lock, current>>
         \/ /\ refresh.at \in Inside /\ lock' = None
            /\ \/ UNCHANGED current
               \/ \E k \in 1 .. MaxRotations :
                    current' = [current EXCEPT ![mem.tokens.grant] = k],
         lost => lost',
         (~lost' /\ file # None) => Accepted(file)'
  PROVE  IInv'
<1>1. current' \in [Grants -> 0 .. MaxRotations]
  BY BoundsAssumption DEF IInv, Types
<1>2. Types'
  BY <1>1 DEF IInv, Types, Result
<1>3. OutIsFree'
  BY DEF OutIsFree, Result
<1>4. Holders'
  <2>1. CASE refresh.at \in Outside /\ UNCHANGED <<lock, current>>
    BY <2>1 DEF IInv, Holders, Result, Outside, Inside
  <2>2. CASE refresh.at \in Inside /\ lock' = None
    <3>1. lock = refresh.by /\ refresh.by \in Threads \cup {None}
      BY <2>2 DEF IInv, Holders, Types, RefreshState
    <3>2. \A o \in Oauths : oauth[o].at # "writing"
      BY <3>1, NamesAssumption DEF IInv, Holders
    <3> QED BY <2>2, <3>2, NamesAssumption DEF Holders, Result, Outside, Inside
  <2> QED BY <2>1, <2>2
<1> QED BY <1>2, <1>3, <1>4, OutsideKeeps DEF Result

(* The same, where neither the service nor `lost' changes.                 *)
LEMMA AttemptEndsQuietly ==
  ASSUME IInv, Result, mem' \in MemState,
         UNCHANGED <<now, current, file, oauth, lost>>,
         refresh.at # "storing",
         \/ refresh.at \in Outside /\ UNCHANGED lock
         \/ refresh.at \in Inside /\ lock' = None
  PROVE  IInv'
<1>1. lost' \in BOOLEAN
  BY DEF IInv, Types
<1>2. (~lost' /\ file # None) => Accepted(file)'
  BY DEF IInv, Kept, Accepted
<1> QED BY <1>1, <1>2, AttemptEnds

-----------------------------------------------------------------------------
(* The steps of refresh_tokens.                                            *)

LEMMA BeginRefreshKeeps ==
  ASSUME IInv, NEW t \in Threads, BeginRefresh(t)
  PROVE  IInv'
<1>1. Types /\ pc[Main] # "out" /\ refresh.at = "free"
  BY DEF IInv, OutIsFree, BeginRefresh
<1>2. /\ refresh' \in RefreshState /\ refresh'.at = "checking"
      /\ refresh'.by = t
  BY DEF BeginRefresh, RefreshState, Outside
<1>3. Result
  BY <1>1, <1>2, NamesAssumption
  DEF Result, BeginRefresh, Stay, Outside, Types, IInv, OutIsFree, Asked
<1>4. mem' \in MemState
  <2>1. mem \in MemState /\ Loaded(mem) \in MemState
    BY <1>1, LoadedFacts DEF Types
  <2> QED BY <1>1, <2>1, MemFacts DEF BeginRefresh
<1> QED BY <1>1, <1>3, <1>4, AttemptEndsQuietly
        DEF BeginRefresh, account, Outside

LEMMA CheckMemoryKeeps ==
  ASSUME IInv, NEW t \in Threads, CheckMemory(t)
  PROVE  IInv'
<1>1. /\ Busy(t) /\ refresh.at = "checking" /\ t # None
      /\ pc[Main] # "out" /\ Types /\ mem \in MemState
  BY AtFacts DEF CheckMemory
<1>2. Checked(mem) \in MemState
  BY <1>1, CheckedFacts DEF Types
<1>3. Result /\ mem' \in MemState
  <2>1. CASE Settle(t, Checked(mem))
    BY <1>1, <1>2, <2>1, SettleFacts
  <2>2. CASE mem' = Checked(mem) /\ Goto("locking") /\ Stay
    <3>1. "locking" \in Outside
      BY DEF Outside
    <3> QED BY <1>1, <1>2, <2>2, <3>1, GotoFacts, StayFacts DEF Result
  <2> QED BY <2>1, <2>2 DEF CheckMemory
<1> QED BY <1>1, <1>3, AttemptEndsQuietly DEF CheckMemory, account, Outside

LEMMA LockFailsKeeps ==
  ASSUME IInv, NEW t \in Threads, LockFails(t)
  PROVE  IInv'
<1>1. /\ Busy(t) /\ refresh.at = "locking" /\ t # None
      /\ pc[Main] # "out" /\ Types /\ mem \in MemState
  BY AtFacts DEF LockFails
<1>2. Result
  BY <1>1, RefuseFacts DEF LockFails, Transient
<1>3. mem' \in MemState
  BY <1>1 DEF LockFails, Types
<1> QED BY <1>1, <1>2, <1>3, AttemptEndsQuietly
        DEF LockFails, account, Outside

LEMMA NoClientKeeps ==
  ASSUME IInv, NEW t \in Threads, NoClient(t)
  PROVE  IInv'
<1>1. /\ Busy(t) /\ refresh.at = "posting" /\ t # None
      /\ pc[Main] # "out" /\ Types /\ mem \in MemState
  BY AtFacts DEF NoClient
<1>2. Result /\ mem' \in MemState
  BY <1>1, InteractiveFacts DEF NoClient
<1> QED BY <1>1, <1>2, AttemptEndsQuietly DEF NoClient, account, Inside

LEMMA RejectedKeeps ==
  ASSUME IInv, NEW t \in Threads, Rejected(t)
  PROVE  IInv'
<1>1. /\ Busy(t) /\ refresh.at = "posting" /\ t # None
      /\ pc[Main] # "out" /\ Types /\ mem \in MemState
  BY AtFacts DEF Rejected
<1>2. [mem EXCEPT !.reauthorize = TRUE] \in MemState
  BY <1>1, MemFacts
<1>3. Result /\ mem' \in MemState
  BY <1>1, <1>2, InteractiveFacts DEF Rejected
<1> QED BY <1>1, <1>3, AttemptEndsQuietly DEF Rejected, account, Inside

LEMMA LaunchFailsKeeps ==
  ASSUME IInv, NEW t \in Threads, LaunchFails(t)
  PROVE  IInv'
<1>1. /\ Busy(t) /\ refresh.at = "launching" /\ t # None
      /\ pc[Main] # "out" /\ Types /\ mem \in MemState
  BY AtFacts DEF LaunchFails
<1>2. Result /\ mem' \in MemState
  BY <1>1, SecondPassFacts DEF LaunchFails
<1> QED BY <1>1, <1>2, AttemptEndsQuietly DEF LaunchFails, account, Outside

(* What the service has done when no answer came.                          *)
LEMMA UnansweredFacts ==
  ASSUME IInv, refresh.at = "posting", Unanswered
  PROVE  /\ \/ UNCHANGED current
            \/ \E k \in 1 .. MaxRotations :
                 current' = [current EXCEPT ![mem.tokens.grant] = k]
         /\ lost' \in BOOLEAN /\ (lost => lost')
         /\ ~lost' => UNCHANGED current
<1>1. /\ file \in TokenState /\ mem.tokens = file
      /\ current \in [Grants -> 0 .. MaxRotations] /\ lost \in BOOLEAN
  BY DEF IInv, UnderLock, Types, Inside, Tokens
<1>2. /\ mem.tokens.grant \in Grants
      /\ mem.tokens.rotation \in 1 .. MaxRotations
  BY <1>1 DEF TokenState
<1>3. current[mem.tokens.grant] \in 1 .. MaxRotations
  BY <1>1, <1>2, BoundsAssumption, NoneAssumption DEF IInv, Granting, Grants
<1>4. PICK k \in {current[mem.tokens.grant]}
                   \cup (IF Accepted(mem.tokens)
                         THEN Rotations(mem.tokens.rotation) ELSE {}) :
        /\ current' = [current EXCEPT ![mem.tokens.grant] = k]
        /\ lost' = (lost \/ k # current[mem.tokens.grant])
  BY DEF Unanswered
<1>5. k \in 1 .. MaxRotations
  BY <1>2, <1>3, <1>4, BoundsAssumption DEF Rotations
<1>6. k = current[mem.tokens.grant] => current' = current
  BY <1>1, <1>2, <1>4
<1>7. lost' \in BOOLEAN
  BY <1>4
<1>8. lost => lost'
  BY <1>4
<1>9. ~lost' => k = current[mem.tokens.grant]
  BY <1>4
<1> QED BY <1>4, <1>5, <1>6, <1>7, <1>8, <1>9

LEMMA NoAnswerKeeps ==
  ASSUME IInv, NEW t \in Threads, NoAnswer(t)
  PROVE  IInv'
<1>1. /\ Busy(t) /\ refresh.at = "posting" /\ t # None
      /\ pc[Main] # "out" /\ Types /\ mem \in MemState
  BY AtFacts DEF NoAnswer
<1>2. Result /\ mem' \in MemState
  BY <1>1, RefuseFacts, ReadyFacts DEF NoAnswer, Transient
<1>3. (~lost' /\ file # None) => Accepted(file)'
  BY <1>1, UnansweredFacts DEF NoAnswer, IInv, Kept, Accepted
<1> QED BY <1>1, <1>2, <1>3, UnansweredFacts, AttemptEnds DEF NoAnswer, Inside

LEMMA StoreFailsKeeps ==
  ASSUME IInv, NEW t \in Threads, StoreFails(t)
  PROVE  IInv'
<1>1. /\ Busy(t) /\ refresh.at = "storing" /\ t # None
      /\ pc[Main] # "out" /\ Types /\ mem \in MemState
  BY AtFacts DEF StoreFails
<1>2. Result /\ mem' \in MemState
  BY <1>1, RefuseFacts DEF StoreFails, Transient
<1>3. lost' \in BOOLEAN /\ (lost => lost') /\ (Unsaved => lost')
  BY DEF StoreFails
<1>4. (~lost' /\ file # None) => Accepted(file)'
  BY <1>1, <1>3 DEF StoreFails, account, Unsaved, IInv, UnderLock, Inside,
     Accepted
<1> QED BY <1>1, <1>2, <1>3, <1>4, AttemptEnds DEF StoreFails, account, Inside

LEMMA LaunchKeeps ==
  ASSUME IInv, NEW t \in Threads, Launch(t)
  PROVE  IInv'
<1>1. /\ Busy(t) /\ refresh.at = "launching" /\ t # None
      /\ pc[Main] # "out" /\ Types /\ mem \in MemState
  BY AtFacts DEF Launch
<1>2. Result
  BY <1>1, "waiting" \in Outside, OnwardFacts DEF Launch, Outside
<1>4. /\ oauth' \in [Oauths -> OauthState]
      /\ oauth'[Launched].at = "menu"
      /\ \A o \in Oauths \ {Launched} : oauth'[o] = oauth[o]
  BY <1>1 DEF Launch, Types, OauthState, Oauths
<1>5. Types'
  BY <1>2, <1>4 DEF IInv, Types, Launch, account, Result
<1>6. OutIsFree'
  BY <1>2 DEF OutIsFree, Result
<1>7. Holders'
  BY <1>1, <1>2, <1>4 DEF IInv, Holders, Launch, Inside, Outside, Result
<1>8. \A o \in Oauths : Pending(o)' => oauth'[o] = oauth[o]
  BY <1>4 DEF Pending
<1> QED BY <1>1, <1>2, <1>5, <1>6, <1>7, <1>8, OutsideKeeps
        DEF Launch, account, Outside, IInv, Kept, Accepted, Result

LEMMA OauthEndedKeeps ==
  ASSUME IInv, NEW t \in Threads, OauthEnded(t)
  PROVE  IInv'
<1>1. /\ Busy(t) /\ refresh.at = "waiting" /\ t # None
      /\ pc[Main] # "out" /\ Types /\ mem \in MemState
  BY AtFacts DEF OauthEnded
<1>2. Result /\ mem' \in MemState
  BY <1>1, SecondPassFacts DEF OauthEnded
<1>4. /\ oauth' \in [Oauths -> OauthState]
      /\ oauth'[Launched].at = "out"
      /\ \A o \in Oauths \ {Launched} : oauth'[o] = oauth[o]
  BY <1>1 DEF OauthEnded, Types, OauthState, Oauths
<1>5. Types'
  BY <1>2, <1>4 DEF IInv, Types, OauthEnded, account, Result
<1>6. OutIsFree'
  BY <1>2 DEF OutIsFree, Result
<1>7. Holders'
  BY <1>1, <1>2, <1>4 DEF IInv, Holders, OauthEnded, Inside, Outside, Result
<1>8. \A o \in Oauths : Pending(o)' => oauth'[o] = oauth[o]
  BY <1>4 DEF Pending
<1> QED BY <1>1, <1>2, <1>5, <1>6, <1>7, <1>8, OutsideKeeps
        DEF OauthEnded, account, Outside, IInv, Kept, Accepted, Result

-----------------------------------------------------------------------------
(* The steps under the lock.                                               *)

LEMMA TakeLockKeeps ==
  ASSUME IInv, NEW t \in Threads, TakeLock(t)
  PROVE  IInv'
<1>1. /\ Busy(t) /\ refresh.at = "locking" /\ t # None
      /\ pc[Main] # "out" /\ Types /\ mem \in MemState
  BY AtFacts DEF TakeLock
<1>2. /\ Loaded(mem) \in MemState /\ Loaded(mem).tokens = file
      /\ Reread \in MemState /\ Reread.tokens = file
  BY <1>1, LoadedFacts, CheckedFacts DEF Reread
<1>3. CASE Settle(t, Reread) /\ lock = None /\ UNCHANGED lock
  BY <1>1, <1>2, <1>3, SettleFacts, AttemptEndsQuietly
  DEF TakeLock, account, Outside
<1>4. CASE /\ TokenSession(t) /\ Decision(Reread) = "refresh"
           /\ mem' = Reread /\ Goto("posting") /\ Stay
  <2>1. mem' \in MemState /\ mem'.tokens = file /\ file # None
    BY <1>2, <1>4 DEF Decision
  <2>2. /\ refresh' \in RefreshState /\ refresh'.at = "posting"
        /\ refresh'.by = t
    BY <1>1, <1>4, GotoFacts, "posting" \in Outside \cup Inside DEF Inside
  <2>3. pc' \in [Threads -> Places] /\ pc'[Main] # "out" /\ Asked'
    BY <1>1, <1>4, <2>2, StayFacts
  <2>4. /\ UNCHANGED <<now, current, file, oauth, lost>>
        /\ lock' = t /\ lock = None
    BY <1>4 DEF TakeLock, account, TokenSession
  <2>5. Types'
    BY <1>1, <2>1, <2>2, <2>3, <2>4 DEF Types
  <2>6. OutIsFree'
    BY <1>1, <2>2, <2>3 DEF OutIsFree
  <2>7. Holders'
    BY <2>2, <2>4, NamesAssumption DEF IInv, Holders, Inside
  <2>8. UnderLock'
    BY <2>1, <2>2, <2>4 DEF UnderLock
  <2>9. Granting' /\ Fresh' /\ Kept'
    BY <1>1, <2>2, <2>4 DEF IInv, Granting, Fresh, Pending, Kept, Accepted
  <2> QED BY <2>5, <2>6, <2>7, <2>8, <2>9 DEF IInv
<1> QED BY <1>3, <1>4 DEF TakeLock

LEMMA GrantedKeeps ==
  ASSUME IInv, NEW t \in Threads, Granted(t)
  PROVE  IInv'
<1>1. /\ Busy(t) /\ refresh.at = "posting" /\ t # None
      /\ pc[Main] # "out" /\ Types /\ mem \in MemState
  BY AtFacts DEF Granted
<1>2. mem.tokens = file /\ file # None /\ file \in TokenState /\ lock = t
  BY <1>1 DEF IInv, UnderLock, Inside, Types, Tokens, Holders, Busy
<1>3. PICK k \in Rotations(file.rotation) :
        /\ current' = [current EXCEPT ![file.grant] = k]
        /\ mem' = [mem EXCEPT !.tokens = Renewed(file, k)]
  BY <1>2 DEF Granted
<1>4. k \in 1 .. MaxRotations
  BY <1>2, BoundsAssumption DEF Rotations, TokenState
<1>5. /\ Renewed(file, k) \in TokenState /\ Renewed(file, k).grant = file.grant
      /\ Renewed(file, k).rotation = k
  BY <1>1, <1>2, <1>4 DEF Renewed, TokenState, Types
<1>6. mem' \in MemState /\ mem'.tokens = Renewed(file, k)
  BY <1>1, <1>3, <1>5 DEF MemState, Tokens
<1>7. /\ current' \in [Grants -> 0 .. MaxRotations] /\ current'[file.grant] = k
      /\ \A g \in Grants \ {file.grant} : current'[g] = current[g]
      /\ file.grant \in Grants
  BY <1>1, <1>2, <1>3, <1>4, BoundsAssumption DEF Types, TokenState
<1>8. /\ refresh' \in RefreshState /\ refresh'.at = "storing"
      /\ refresh'.by = t
  BY <1>1, GotoFacts, "storing" \in Outside \cup Inside DEF Granted, Inside
<1>9. pc' \in [Threads -> Places] /\ pc'[Main] # "out" /\ Asked'
  BY <1>1, <1>8, StayFacts DEF Granted
<1>10. UNCHANGED <<now, file, lock, oauth, lost>>
  BY DEF Granted
<1>11. Types'
  BY <1>1, <1>6, <1>7, <1>8, <1>9, <1>10 DEF Types
<1>12. OutIsFree'
  BY <1>1, <1>8, <1>9 DEF OutIsFree
<1>13. Holders'
  BY <1>1, <1>2, <1>8, <1>10 DEF IInv, Holders, Inside
<1>14. UnderLock'
  <2>1. mem.tokens' # None
    BY <1>5, <1>6, NoneAssumption
  <2>2. Accepted(mem.tokens)'
    BY <1>5, <1>6, <1>7 DEF Accepted
  <2> QED BY <1>2, <1>5, <1>6, <1>8, <1>10, <2>1, <2>2 DEF UnderLock
<1>15. Granting' /\ Kept'
  BY <1>4, <1>7, <1>8, <1>10 DEF Granting, Kept
<1>16. Fresh'
  <2>1. ASSUME NEW o \in Oauths, Pending(o)
        PROVE  /\ oauth[o].tokens.grant \in Grants \ {file.grant}
    BY <1>1, <1>2, <2>1 DEF IInv, Fresh, Types, OauthState, Tokens, TokenState
  <2> QED BY <1>7, <1>10, <2>1 DEF IInv, Fresh, Pending
<1> QED BY <1>11, <1>12, <1>13, <1>14, <1>15, <1>16 DEF IInv

LEMMA RenameKeeps ==
  ASSUME IInv, NEW t \in Threads, Rename(t)
  PROVE  IInv'
<1>1. /\ Busy(t) /\ refresh.at = "storing" /\ t # None
      /\ pc[Main] # "out" /\ Types /\ mem \in MemState
  BY AtFacts DEF Rename
<1>2. /\ mem.tokens # None /\ mem.tokens \in TokenState /\ file # None
      /\ mem.tokens.grant = file.grant /\ Accepted(mem.tokens) /\ lock = t
  BY <1>1 DEF IInv, UnderLock, Inside, MemState, Tokens, Holders, Busy
<1>3. /\ file' = mem.tokens /\ lock' = None
      /\ UNCHANGED <<now, current, oauth, lost>>
  BY DEF Rename, ReplaceFile, account
<1>4. Result /\ mem' \in MemState
  BY <1>1, ReadyFacts DEF Rename
<1>5. refresh'.at \in Outside /\ ~(refresh'.at \in Inside)
  BY <1>4 DEF Result, Outside, Inside
<1>6. Types'
  BY <1>1, <1>2, <1>3, <1>4 DEF Types, Result, Tokens
<1>7. OutIsFree'
  BY <1>4 DEF OutIsFree, Result
<1>8. Holders'
  BY <1>2, <1>3, <1>5, NamesAssumption DEF IInv, Holders
<1>9. UnderLock' /\ Kept'
  BY <1>2, <1>3, <1>5 DEF UnderLock, Kept, Inside, Accepted
<1>10. Granting' /\ Fresh'
  BY <1>2, <1>3 DEF IInv, Granting, Fresh, Pending
<1> QED BY <1>6, <1>7, <1>8, <1>9, <1>10 DEF IInv

-----------------------------------------------------------------------------
(* The end of the component and its start.                                 *)

LEMMA GoneFacts ==
  ASSUME Types, Gone
  PROVE  /\ pc' \in [Threads -> Places] /\ \A t \in Threads : pc'[t] = "out"
         /\ mem' \in MemState /\ refresh' \in RefreshState
         /\ refresh'.at = "free" /\ refresh'.by = None /\ OutIsFree'
<1>1. /\ pc' \in [Threads -> Places] /\ \A t \in Threads : pc'[t] = "out"
  BY DEF Gone, Places
<1>2. mem' \in MemState
  BY DEF Gone, Constructed, MemState, Tokens
<1>3. refresh' \in RefreshState /\ refresh'.at = "free" /\ refresh'.by = None
  BY FreeFacts DEF Gone, Free
<1>4. OutIsFree'
  BY <1>1, <1>3, NamesAssumption DEF OutIsFree, Asked, Threads
<1> QED BY <1>1, <1>2, <1>3, <1>4

LEMMA ExitKeeps ==
  ASSUME IInv, Exit
  PROVE  IInv'
<1>1. /\ Types /\ refresh.by = None /\ refresh.at = "free"
  BY NamesAssumption DEF IInv, OutIsFree, Asked, Types, RefreshState, Exit,
     Threads
<1>2. UNCHANGED <<now, current, file, lock, oauth, lost>>
  BY DEF Exit, account
<1>3. Types'
  BY <1>1, <1>2, GoneFacts DEF Types, Exit
<1>4. Holders'
  BY <1>1, <1>2, GoneFacts DEF Exit, IInv, Holders, Inside
<1> QED BY <1>1, <1>2, <1>3, <1>4, GoneFacts, OutsideKeeps
        DEF Exit, Outside, IInv, Kept, Accepted

LEMMA KillKeeps ==
  ASSUME IInv, Kill
  PROVE  IInv'
<1>1. Types /\ Gone
  BY DEF IInv, Kill
<1>2. UNCHANGED <<now, current, file>>
  BY DEF Kill, account
<1>3. /\ oauth' \in [Oauths -> OauthState] /\ oauth'[Launched].at = "out"
      /\ \A o \in Oauths \ {Launched} : oauth'[o] = oauth[o]
  BY <1>1 DEF Types, Kill, OauthState, Tokens, Oauths
<1>4. lost' \in BOOLEAN /\ (lost => lost') /\ (Unsaved => lost')
  BY DEF Kill
<1>5. Types'
  BY <1>1, <1>2, <1>3, <1>4, GoneFacts DEF Types
<1>6. Holders'
  <2>1. refresh'.at \notin Inside
    BY <1>1, GoneFacts DEF Inside
  <2>2. CASE lock = ByHand /\ UNCHANGED lock
    BY <1>3, <2>1, <2>2, NamesAssumption DEF IInv, Holders, Oauths
  <2>3. CASE lock # ByHand /\ lock' = None
    BY <1>3, <2>1, <2>3, NamesAssumption DEF IInv, Holders, Oauths
  <2> QED BY <2>2, <2>3 DEF Kill
<1>7. \A o \in Oauths : Pending(o)' => oauth'[o] = oauth[o]
  BY <1>3 DEF Pending
<1>8. (~lost' /\ file # None) => Accepted(file)'
  BY <1>2, <1>4 DEF IInv, Kept, Accepted, Unsaved, UnderLock, Inside
<1> QED BY <1>1, <1>2, <1>4, <1>5, <1>6, <1>7, <1>8, GoneFacts, OutsideKeeps
        DEF Outside

LEMMA MonitorCrashKeeps ==
  ASSUME IInv, MonitorCrash
  PROVE  IInv'
<1>1. /\ Busy(Monitor) /\ refresh.at = "posting"
      /\ pc[Main] # "out" /\ Types /\ mem \in MemState
  BY AtFacts DEF MonitorCrash, Threads
<1>2. Result
  BY <1>1, FreeFacts, NamesAssumption
  DEF MonitorCrash, Result, Busy, Types, Asked, Free, Places, Threads, Outside
<1>3. (~lost' /\ file # None) => Accepted(file)'
  BY <1>1, UnansweredFacts DEF MonitorCrash, IInv, Kept, Accepted
<1> QED BY <1>1, <1>2, <1>3, UnansweredFacts, AttemptEnds
        DEF MonitorCrash, Inside

LEMMA RestartKeeps ==
  ASSUME IInv, Restart
  PROVE  IInv'
<1>1. Types /\ refresh.by = None /\ refresh.at = "free"
  BY DEF IInv, OutIsFree, Restart
<1>2. UNCHANGED <<now, current, file, lock, refresh, oauth, lost>>
  BY DEF Restart, account
<1>3. pc' \in [Threads -> Places] /\ pc'[Main] = "attending"
  BY NamesAssumption DEF Restart, Started, Threads, Places
<1>4. mem' \in MemState
  BY <1>1 DEF Restart, Constructed, MemState, Types, Tokens
<1>5. Types'
  BY <1>1, <1>2, <1>3, <1>4 DEF Types
<1>6. OutIsFree'
  BY <1>1, <1>2, <1>3, NamesAssumption DEF OutIsFree, Asked
<1>7. Holders'
  BY <1>1, <1>2 DEF IInv, Holders
<1> QED BY <1>1, <1>2, <1>5, <1>6, <1>7, OutsideKeeps
        DEF Outside, IInv, Pending, Kept, Accepted

-----------------------------------------------------------------------------
(* spotify_oauth.exe.                                                      *)

LEMMA StartByHandKeeps ==
  ASSUME IInv, StartByHand
  PROVE  IInv'
<1>1. Types
  BY DEF IInv
<1>2. UNCHANGED <<now, current, file, lock, mem, refresh, pc, lost>>
  BY DEF StartByHand, OauthStep
<1>3. /\ oauth' \in [Oauths -> OauthState] /\ oauth'[ByHand].at = "menu"
      /\ oauth[ByHand].at = "out"
      /\ \A o \in Oauths \ {ByHand} : oauth'[o] = oauth[o]
  BY <1>1 DEF Types, StartByHand, InOauth, OauthState, Oauths
<1>4. Types'
  BY <1>1, <1>2, <1>3 DEF Types
<1>5. Holders'
  BY <1>2, <1>3 DEF IInv, Holders
<1>6. Fresh'
  BY <1>2, <1>3 DEF IInv, Fresh, Pending
<1> QED BY <1>2, <1>4, <1>5, <1>6
        DEF IInv, OutIsFree, Asked, UnderLock, Granting, Kept, Accepted

LEMMA LeaveKeeps ==
  ASSUME IInv, NEW o \in Oauths, Leave(o)
  PROVE  IInv'
<1>1. Types
  BY DEF IInv
<1>2. UNCHANGED <<now, current, file, mem, refresh, pc, lost>>
  BY DEF Leave, OauthStep
<1>3. /\ oauth' \in [Oauths -> OauthState] /\ oauth'[o].at \in {"ended", "out"}
      /\ \A q \in Oauths \ {o} : oauth'[q] = oauth[q]
  BY <1>1 DEF Types, Leave, Ended, OauthState, Tokens
<1>4. lock' = IF lock = o THEN None ELSE lock
  BY DEF Leave
<1>5. Types'
  BY <1>1, <1>2, <1>3 DEF Types
<1>6. Holders'
  <2>1. o \notin Threads \cup {None}
    BY NamesAssumption
  <2>2. refresh.at \in Inside => lock # o
    BY <1>1, <2>1 DEF IInv, Holders, Types, RefreshState
  <2>3. \A q \in Oauths : lock' = q <=> oauth'[q].at = "writing"
    BY <1>3, <1>4, NamesAssumption DEF IInv, Holders
  <2> QED BY <1>2, <1>4, <2>1, <2>2, <2>3, NamesAssumption DEF IInv, Holders
<1>7. Fresh'
  <2>1. \A q \in Oauths : Pending(q)' => oauth'[q] = oauth[q] /\ Pending(q)
    BY <1>3 DEF Pending
  <2> QED BY <1>2, <2>1 DEF IInv, Fresh
<1> QED BY <1>2, <1>5, <1>6, <1>7
        DEF IInv, OutIsFree, Asked, UnderLock, Granting, Kept, Accepted

LEMMA AuthorizeKeeps ==
  ASSUME IInv, NEW o \in Oauths, Authorize(o)
  PROVE  IInv'
<1>1. Types
  BY DEF IInv
<1>2. UNCHANGED <<now, file, lock, mem, refresh, pc, lost>>
  BY DEF Authorize, OauthStep
<1>3. PICK g \in Grants :
        /\ NewGrant(g)
        /\ oauth' = [oauth EXCEPT ![o] = [at |-> "granted",
                                          tokens |-> Signed(g)]]
  BY DEF Authorize
<1>4. /\ current[g] = 0 /\ current' \in [Grants -> 0 .. MaxRotations]
      /\ current'[g] = 1
      /\ \A h \in Grants \ {g} : current'[h] = current[h]
  BY <1>1, <1>3, BoundsAssumption DEF NewGrant, Types, Grants
<1>5. /\ Signed(g) \in TokenState /\ Signed(g).grant = g
      /\ Signed(g).rotation = 1
  BY <1>1, <1>3, BoundsAssumption DEF Signed, TokenState, Types
<1>6. /\ oauth' \in [Oauths -> OauthState] /\ oauth'[o].at = "granted"
      /\ oauth'[o].tokens = Signed(g) /\ oauth[o].at = "menu"
      /\ \A q \in Oauths \ {o} : oauth'[q] = oauth[q]
  BY <1>1, <1>3, <1>5 DEF Types, Authorize, InOauth, OauthState, Tokens
<1>7. file # None => file.grant \in Grants \ {g}
  BY <1>1, <1>4 DEF IInv, Granting, Types, Tokens, TokenState
<1>8. Types'
  BY <1>1, <1>2, <1>4, <1>6 DEF Types
<1>9. Holders'
  BY <1>2, <1>6 DEF IInv, Holders
<1>10. UnderLock' /\ Granting' /\ Kept'
  <2>1. file # None => current'[file.grant] = current[file.grant]
    BY <1>4, <1>7
  <2>2. UnderLock'
    BY <1>2, <2>1 DEF IInv, UnderLock, Accepted, Inside
  <2>3. Granting' /\ Kept'
    BY <1>2, <2>1 DEF IInv, Granting, Kept, Accepted
  <2> QED BY <2>2, <2>3
<1>11. Fresh'
  <2>1. \A q \in Oauths \ {o} : Pending(q) =>
          oauth[q].tokens.grant \in Grants \ {g}
    BY <1>1, <1>4 DEF IInv, Fresh, Types, OauthState, Tokens, TokenState,
       Pending
  <2>2. \A q \in Oauths \ {o} : Pending(q)' => Pending(q)
    BY <1>6 DEF Pending
  <2>3. Signed(g) # None
    BY <1>5, NoneAssumption
  <2> QED BY <1>2, <1>4, <1>5, <1>6, <1>7, <2>1, <2>2, <2>3 DEF IInv, Fresh
<1> QED BY <1>2, <1>8, <1>9, <1>10, <1>11 DEF IInv, OutIsFree, Asked

LEMMA SaveKeeps ==
  ASSUME IInv, NEW o \in Oauths, Save(o)
  PROVE  IInv'
<1>1. Types
  BY DEF IInv
<1>2. UNCHANGED <<now, current, file, mem, refresh, pc, lost>>
  BY DEF Save, OauthStep
<1>3. /\ oauth' \in [Oauths -> OauthState] /\ oauth'[o].at = "writing"
      /\ oauth[o].at = "granted" /\ oauth'[o].tokens = oauth[o].tokens
      /\ \A q \in Oauths \ {o} : oauth'[q] = oauth[q]
  BY <1>1 DEF Types, Save, InOauth, OauthState
<1>4. lock = None /\ lock' = o
  BY DEF Save, TokenSession
<1>5. Types'
  BY <1>1, <1>2, <1>3 DEF Types
<1>6. Holders'
  <2>1. refresh.at \notin Inside
    BY <1>1, <1>4, NamesAssumption
    DEF IInv, OutIsFree, Holders, Types, RefreshState, Inside
  <2> QED BY <1>2, <1>3, <1>4, <2>1, NamesAssumption DEF IInv, Holders
<1>7. Fresh'
  <2>1. \A q \in Oauths : (Pending(q)' => Pending(q))
          /\ oauth'[q].tokens = oauth[q].tokens
    BY <1>3 DEF Pending
  <2> QED BY <1>2, <2>1 DEF IInv, Fresh
<1> QED BY <1>2, <1>5, <1>6, <1>7
        DEF IInv, OutIsFree, Asked, UnderLock, Granting, Kept, Accepted

LEMMA SaveRenameKeeps ==
  ASSUME IInv, NEW o \in Oauths, SaveRename(o)
  PROVE  IInv'
<1>1. Types
  BY DEF IInv
<1>2. UNCHANGED <<now, current, mem, refresh, pc>> /\ lost' = FALSE
  BY DEF SaveRename, OauthStep
<1>3. /\ oauth' \in [Oauths -> OauthState] /\ oauth'[o].at \in {"ended", "out"}
      /\ oauth[o].at = "writing"
      /\ \A q \in Oauths \ {o} : oauth'[q] = oauth[q]
  BY <1>1 DEF Types, SaveRename, InOauth, Ended, OauthState, Tokens
<1>4. file' = oauth[o].tokens /\ lock' = None /\ lock = o
  BY <1>3 DEF SaveRename, ReplaceFile, IInv, Holders
<1>5. /\ oauth[o].tokens \in TokenState /\ oauth[o].tokens # None
      /\ oauth[o].tokens.rotation = 1
      /\ current[oauth[o].tokens.grant] = 1
  BY <1>1, <1>3 DEF IInv, Fresh, Pending, Types, OauthState, Tokens
<1>6. Types'
  BY <1>1, <1>2, <1>3, <1>4, <1>5 DEF Types, Tokens
<1>7. refresh.at \notin Inside
  BY <1>1, <1>4, NamesAssumption DEF IInv, Holders, Types, RefreshState
<1>8. Holders'
  BY <1>2, <1>3, <1>4, <1>7, NamesAssumption DEF IInv, Holders
<1>9. UnderLock'
  BY <1>2, <1>7 DEF UnderLock, Inside
<1>10. Granting' /\ Kept'
  BY <1>2, <1>4, <1>5 DEF Granting, Kept, Accepted
<1>11. Fresh'
  <2>1. \A q \in Oauths : Pending(q)' =>
          Pending(q) /\ oauth'[q] = oauth[q] /\ q # o
    BY <1>3 DEF Pending
  <2>2. Pending(o)
    BY <1>3 DEF Pending
  <2> QED BY <1>2, <1>4, <2>1, <2>2 DEF IInv, Fresh
<1> QED BY <1>2, <1>6, <1>8, <1>9, <1>10, <1>11 DEF IInv, OutIsFree, Asked

-----------------------------------------------------------------------------
(* The steps that only move a thread, the clock or client.id.              *)

LEMMA StepFacts ==
  ASSUME IInv, NEW t \in Threads, NEW from \in Places, NEW to \in Places,
         Step(t, from, to), ThreadStep,
         from \notin {"asking", "out", "ended"}, to # "out",
         to \in {"poking", "parting"} => pc[Monitor] = "ended" /\ t = Main
  PROVE  IInv'
<1>1. Types /\ pc' \in [Threads -> Places]
  BY DEF IInv, Types, Step
<1>2. pc[t] = from /\ pc'[t] = to /\ \A u \in Threads \ {t} : pc'[u] = pc[u]
  BY <1>1 DEF Step, Types
<1>3. pc[Main] # "out" /\ pc'[Main] # "out"
  BY <1>2 DEF IInv, OutIsFree, Threads
<1>4. UNCHANGED <<now, current, file, lock, mem, refresh, oauth, lost>>
  BY DEF ThreadStep, account
<1>5. Asked'
  BY <1>2, <1>4, NamesAssumption DEF IInv, OutIsFree, Asked, Threads
<1> QED BY <1>1, <1>3, <1>4, <1>5, ThreadsKeep DEF Types

LEMMA PokeKeeps ==
  ASSUME IInv, Poke
  PROVE  IInv'
<1>1. Types
  BY DEF IInv
<1>2. /\ pc' \in [Threads -> Places] /\ pc'[Main] = "parting"
      /\ pc'[Monitor] = pc[Monitor]
      /\ pc'[Devices] = IF pc[Devices] = "listening" THEN "ended"
                        ELSE pc[Devices]
  BY <1>1, NamesAssumption DEF Types, Poke, Threads, Places
<1>3. UNCHANGED <<now, current, file, lock, mem, refresh, oauth, lost>>
  BY DEF Poke, ThreadStep, account
<1>4. pc[Main] = "poking"
  BY DEF Poke
<1>5. Asked'
  BY <1>2, <1>3, <1>4 DEF IInv, OutIsFree, Asked, Threads
<1> QED BY <1>1, <1>2, <1>3, <1>4, <1>5, ThreadsKeep DEF Types

DeviceMoves == Connect \/ ListDevices \/ LeaveClient \/ ListenFails
LEMMA DeviceMovesKeep ==
  ASSUME IInv, DeviceMoves
  PROVE  IInv'
<1> USE DEF Places, Threads
<1>1. CASE Connect
  BY <1>1, StepFacts, NamesAssumption DEF Connect
<1>2. CASE ListDevices
  BY <1>2, StepFacts DEF ListDevices
<1>3. CASE LeaveClient
  BY <1>3, StepFacts, NamesAssumption DEF LeaveClient, DeviceLoop
<1>4. CASE ListenFails
  BY <1>4, StepFacts, NamesAssumption DEF ListenFails
<1> QED BY <1>1, <1>2, <1>3, <1>4 DEF DeviceMoves

ThreadMoves == Nap \/ Timeout \/ Wake \/ DeviceMoves \/ Invoke \/ Signal
                 \/ BeginStop \/ StopMonitor \/ StopDevices
LEMMA ThreadMovesKeep ==
  ASSUME IInv, ThreadMoves
  PROVE  IInv'
<1> USE DEF Places, Threads
<1>1. CASE Nap
  BY <1>1, StepFacts, NamesAssumption DEF Nap
<1>2. CASE Timeout
  BY <1>2, StepFacts, NamesAssumption DEF Timeout
<1>3. CASE Wake
  BY <1>3, StepFacts, NamesAssumption DEF Wake
<1>4. CASE DeviceMoves
  BY <1>4, DeviceMovesKeep
<1>5. CASE Invoke
  BY <1>5, StepFacts DEF Invoke
<1>6. CASE Signal
  BY <1>6, StepFacts DEF Signal
<1>7. CASE BeginStop
  BY <1>7, StepFacts DEF BeginStop
<1>8. CASE StopMonitor
  BY <1>8, StepFacts DEF StopMonitor
<1>9. CASE StopDevices
  BY <1>9, StepFacts DEF StopDevices
<1> QED BY <1>1, <1>2, <1>3, <1>4, <1>5, <1>6, <1>7, <1>8, <1>9
        DEF ThreadMoves

ClockMoves == Tick \/ SetClockBack \/ EditClient
LEMMA ClockMovesKeep ==
  ASSUME IInv, ClockMoves
  PROVE  IInv'
<1>1. UNCHANGED <<current, file, lock, mem, refresh, oauth, lost, pc>>
  BY DEF ClockMoves, Tick, SetClockBack, EditClient
<1>2. now' \in 0 .. MaxTime
  BY BoundsAssumption DEF ClockMoves, Tick, SetClockBack, EditClient, IInv,
     Types
<1>3. Asked' /\ pc' \in [Threads -> Places]
  BY <1>1 DEF IInv, OutIsFree, Asked, Types
<1> QED BY <1>1, <1>2, <1>3, ThreadsKeep

-----------------------------------------------------------------------------
LEMMA InitHolds == Init => IInv
<1> SUFFICES ASSUME Init PROVE IInv
  OBVIOUS
<1>1. file = None \/ (file \in TokenState /\ file.grant = 1
                        /\ file.rotation = 1)
  BY BoundsAssumption DEF Init, TokenState, Grants
<1>2. /\ current \in [Grants -> 0 .. MaxRotations] /\ 1 \in Grants
      /\ file # None => current[1] = 1
  BY BoundsAssumption DEF Init, Grants
<1>3. mem \in MemState
  BY <1>1 DEF Init, Constructed, MemState, Tokens
<1>4. refresh \in RefreshState /\ refresh.at = "free" /\ refresh.by = None
  BY FreeFacts DEF Init, Free
<1>5. /\ oauth \in [Oauths -> OauthState]
      /\ \A o \in Oauths : oauth[o].at = "out"
  BY DEF Init, OauthState, Tokens
<1>6. pc \in [Threads -> Places] /\ pc[Main] = "attending"
  BY NamesAssumption DEF Init, Started, Threads, Places
<1>7. now \in 0 .. MaxTime /\ lock = None /\ lost = FALSE
  BY BoundsAssumption DEF Init
<1>8. Types
  BY <1>1, <1>2, <1>3, <1>4, <1>5, <1>6, <1>7 DEF Types, Tokens
<1>9. OutIsFree /\ Holders /\ UnderLock
  BY <1>4, <1>5, <1>6, <1>7, NamesAssumption
  DEF OutIsFree, Asked, Holders, UnderLock, Inside
<1>10. Granting /\ Fresh /\ Kept
  BY <1>1, <1>2, <1>5 DEF Granting, Fresh, Pending, Kept, Accepted
<1> QED BY <1>8, <1>9, <1>10 DEF IInv

LEMMA StepKeeps == IInv /\ [Next]_vars => IInv'
<1> SUFFICES ASSUME IInv, [Next]_vars PROVE IInv'
  OBVIOUS
<1>1. ASSUME NEW t \in Threads,
             BeginRefresh(t) \/ TakeLock(t) \/ RefreshSteps(t)
               \/ RefreshMishaps(t)
      PROVE  IInv'
  BY <1>1, BeginRefreshKeeps, TakeLockKeeps, CheckMemoryKeeps, NoClientKeeps,
     GrantedKeeps, RejectedKeeps, RenameKeeps, LaunchKeeps, OauthEndedKeeps,
     LockFailsKeeps, NoAnswerKeeps, StoreFailsKeeps, LaunchFailsKeeps
  DEF RefreshSteps, RefreshMishaps
<1>2. CASE ThreadMoves \/ Poke \/ ClockMoves
  BY <1>2, ThreadMovesKeep, PokeKeeps, ClockMovesKeep
<1>3. CASE Exit \/ Kill \/ MonitorCrash \/ Restart
  BY <1>3, ExitKeeps, KillKeeps, MonitorCrashKeeps, RestartKeeps
<1>4. ASSUME NEW o \in Oauths, UserSteps(o) \/ Save(o) \/ SaveRename(o)
      PROVE  IInv'
  BY <1>4, AuthorizeKeeps, LeaveKeeps, SaveKeeps, SaveRenameKeeps
  DEF UserSteps
<1>5. CASE StartByHand
  BY <1>5, StartByHandKeeps
<1>6. CASE UNCHANGED vars
  BY <1>6 DEF vars, account, IInv, Types, OutIsFree, Asked, Holders, UnderLock,
     Granting, Fresh, Pending, Kept, Accepted
<1> QED BY <1>1, <1>2, <1>3, <1>4, <1>5, <1>6
        DEF Next, ThreadMoves, DeviceMoves, ClockMoves

(* The refresh token in tokens.map is the one the service accepts, whoever *)
(* refreshes or signs in (TokenSession of shared/token_store.ixx).         *)
THEOREM AlwaysAccepted == Spec => []FileAccepted
<1>1. IInv => FileAccepted
  BY NamesAssumption
  DEF IInv, Types, RefreshState, OutIsFree, Kept, Holders, Inside, FileAccepted
<1> QED BY <1>1, InitHolds, StepKeeps, PTL DEF Spec

-----------------------------------------------------------------------------
(* Which steps touch the file.                                             *)
LEMMA FileSteps ==
  ASSUME [Next]_vars, file' # file
  PROVE  \/ \E t \in Threads : Rename(t)
         \/ \E o \in Oauths : SaveRename(o)
<1>1. ASSUME NEW t \in Threads,
             BeginRefresh(t) \/ TakeLock(t) \/ RefreshSteps(t)
               \/ RefreshMishaps(t)
      PROVE  Rename(t)
  BY <1>1 DEF BeginRefresh, TakeLock, RefreshSteps, RefreshMishaps, account,
     CheckMemory, NoClient, Granted, Rejected, Launch, OauthEnded, LockFails,
     NoAnswer, StoreFails, LaunchFails
<1>2. ~(ThreadMoves \/ Poke \/ ClockMoves)
  BY DEF ThreadMoves, Poke, ClockMoves, Nap, Timeout, Wake, DeviceMoves,
     Connect, ListDevices, LeaveClient, ListenFails, Invoke,
     Signal, BeginStop, StopMonitor, StopDevices, Tick, SetClockBack,
     EditClient, ThreadStep
<1>3. ~(Exit \/ Kill \/ MonitorCrash \/ Restart \/ StartByHand)
  BY DEF Exit, Kill, MonitorCrash, Restart, StartByHand
<1>4. ASSUME NEW o \in Oauths, UserSteps(o) \/ Save(o) \/ SaveRename(o)
      PROVE  SaveRename(o)
  BY <1>4 DEF UserSteps, Authorize, Leave, Save
<1>5. ~(UNCHANGED vars)
  BY DEF vars
<1> QED BY <1>1, <1>2, <1>3, <1>4, <1>5
        DEF Next, ThreadMoves, DeviceMoves, ClockMoves

(* A refresh only replaces the tokens of the sign-in it read under the     *)
(* lock, and nothing leaves tokens.map without tokens.                     *)
THEOREM SignInIsKept == Spec => KeepsSignIn
<1>1. ASSUME IInv, [Next]_vars, file' # file
      PROVE  /\ file' # None
             /\ lock \in Threads => file # None /\ file'.grant = file.grant
  <2>1. ASSUME NEW t \in Threads, Rename(t)
        PROVE  /\ file' # None /\ file # None /\ file'.grant = file.grant
    <3>1. refresh.at = "storing" /\ file' = mem.tokens
      BY <2>1 DEF Rename, At, ReplaceFile
    <3> QED BY <1>1, <3>1 DEF IInv, UnderLock, Inside
  <2>2. ASSUME NEW o \in Oauths, SaveRename(o)
        PROVE  file' # None /\ lock = o
    <3>1. oauth[o].at = "writing" /\ file' = oauth[o].tokens
      BY <2>2 DEF SaveRename, InOauth, ReplaceFile
    <3> QED BY <1>1, <3>1 DEF IInv, Holders, Fresh, Pending
  <2> QED BY <1>1, <2>1, <2>2, FileSteps, NamesAssumption
<1> QED BY <1>1, InitHolds, StepKeeps, PTL DEF Spec, KeepsSignIn

-----------------------------------------------------------------------------
(* When the component opens the sign-in.                                   *)

(* An authorization that is known to have ended has been offered to the    *)
(* user already, unless that is switched off, and no refresh that presents *)
(* tokens believes them ended.                                             *)
Offered(m) == m.reauthorize => ~AutoLaunch \/ m.attempted
Presenting == {"locking", "posting", "storing"}
Offers == Offered(mem) /\ (refresh.at \in Presenting => ~mem.reauthorize)

(* An attempt that opens the sign-in, and one that does not.               *)
Opens(m) == AutoLaunch /\ ~m.attempted /\ refresh'.at = "launching"
Elsewhere == refresh'.at \notin Presenting \cup {"launching"}

LEMMA FlagFacts ==
  ASSUME Types, NEW m \in MemState, NEW b \in BOOLEAN
  PROVE  /\ [m EXCEPT !.attempted = b].attempted = b
         /\ [m EXCEPT !.attempted = b].reauthorize = m.reauthorize
         /\ [m EXCEPT !.reauthorize = b].reauthorize = b
         /\ [m EXCEPT !.reauthorize = b].attempted = m.attempted
         /\ [m EXCEPT !.reread = b].reauthorize = m.reauthorize
         /\ [m EXCEPT !.reread = b].attempted = m.attempted
BY DEF MemState

LEMMA LoadedFlags ==
  ASSUME Types, NEW m \in MemState
  PROVE  /\ Loaded(m).attempted = m.attempted
         /\ Loaded(m).reauthorize => m.reauthorize
BY DEF Loaded, MemState

LEMMA CheckedFlags ==
  ASSUME Types, NEW m \in MemState
  PROVE  /\ Checked(m).attempted = m.attempted
         /\ Checked(m).reauthorize =>
              m.reauthorize \/ (m.tokens # None /\ Expired(m.tokens))
<1>1. Expired(m.tokens) \in BOOLEAN
  BY DEF Expired
<1> QED BY <1>1, FlagFacts DEF Checked

LEMMA RefuseOffers ==
  ASSUME NEW t \in Threads, Refuse(t)
  PROVE  Elsewhere
BY FreeFacts DEF Refuse, Elsewhere, Presenting

LEMMA InteractiveOffers ==
  ASSUME NEW t \in Threads, Busy(t), NEW m \in MemState, Interactive(t, m)
  PROVE  Offered(mem') /\ (Elsewhere \/ Opens(m))
<1>1. CASE AutoLaunch /\ ~m.attempted
  <2>1. mem' = [m EXCEPT !.attempted = TRUE] /\ refresh'.at = "launching"
    BY <1>1, GotoFacts DEF Interactive, Outside
  <2>2. mem'.attempted
    BY <2>1, FlagFacts DEF Busy
  <2> QED BY <1>1, <2>1, <2>2 DEF Offered, Opens
<1>2. CASE ~(AutoLaunch /\ ~m.attempted)
  BY <1>2, RefuseOffers DEF Interactive, Offered
<1> QED BY <1>1, <1>2

(* Tokens that are complete and not ended open nothing.                    *)
LEMMA SettleOffers ==
  ASSUME NEW t \in Threads, Busy(t), NEW m \in MemState, Settle(t, m)
  PROVE  /\ Offered(mem')
         /\ \/ Elsewhere
            \/ Opens(m) /\ (m.tokens = None \/ m.reauthorize)
<1>1. CASE Decision(m) = "ready" /\ Ready(t, m)
  <2>1. ~m.reauthorize
    BY <1>1 DEF Decision
  <2>2. ~mem'.reauthorize
    BY <1>1, <2>1, FlagFacts DEF Busy, Ready
  <2>3. Elsewhere
    BY <1>1, FreeFacts DEF Ready, Elsewhere, Presenting
  <2> QED BY <2>2, <2>3 DEF Offered
<1>2. CASE Decision(m) = "interactive" /\ Interactive(t, m)
  BY <1>2, InteractiveOffers DEF Decision
<1> QED BY <1>1, <1>2 DEF Settle

LEMMA SecondPassOffers ==
  ASSUME NEW t \in Threads, Busy(t), Offered(mem), SecondPass(t)
  PROVE  Offered(mem') /\ Elsewhere
<1>1. Types /\ mem \in MemState
  BY DEF Busy, Types
<1>2. Loaded(mem) \in MemState
  BY <1>1, LoadedFacts
<1>3. /\ mem'.reauthorize => mem.reauthorize
      /\ mem'.attempted = mem.attempted
  BY <1>1, <1>2, LoadedFlags, FlagFacts DEF SecondPass
<1>4. CASE refresh' = [refresh EXCEPT !.at = "checking", !.pass = 1]
  BY <1>1, <1>3, <1>4 DEF Offered, Elsewhere, Presenting, Types, RefreshState
<1>5. CASE Refuse(t)
  BY <1>3, <1>5, RefuseOffers DEF Offered
<1> QED BY <1>4, <1>5 DEF SecondPass

(* The cause of a prompt, as the step that opens it finds it.              *)
Cause == \/ ~client \/ file = None \/ Expired(file) \/ ~Accepted(file)
         \/ file # mem.tokens
Prompts == refresh.at # "launching" /\ refresh'.at = "launching"
Justified == Offers' /\ (Prompts => Cause)

LEMMA CheckMemoryOffers ==
  ASSUME IInv, Offers, NEW t \in Threads, CheckMemory(t)
  PROVE  Justified
<1>1. Busy(t) /\ Types /\ mem \in MemState
  BY AtFacts DEF CheckMemory
<1>2. /\ Checked(mem) \in MemState /\ Checked(mem).tokens = mem.tokens
      /\ Checked(mem).attempted = mem.attempted
      /\ Checked(mem).reauthorize =>
           mem.reauthorize \/ (mem.tokens # None /\ Expired(mem.tokens))
  BY <1>1, CheckedFacts, CheckedFlags
<1>3. CASE Settle(t, Checked(mem))
  <2>1. /\ Offered(mem')
        /\ \/ Elsewhere
           \/ /\ Opens(Checked(mem))
              /\ Checked(mem).tokens = None \/ Checked(mem).reauthorize
    BY <1>1, <1>2, <1>3, SettleOffers
  <2>2. Opens(Checked(mem)) => ~mem.reauthorize
    BY <1>2 DEF Opens, Offers, Offered
  <2>3. Prompts => Cause
    BY <1>2, <2>1, <2>2 DEF Prompts, Elsewhere, Cause
  <2> QED BY <2>1, <2>3 DEF Justified, Offers, Elsewhere, Opens, Presenting
<1>4. CASE /\ Decision(Checked(mem)) = "refresh"
           /\ mem' = Checked(mem) /\ Goto("locking")
  <2>1. ~mem'.reauthorize
    BY <1>4 DEF Decision
  <2>2. refresh'.at = "locking"
    BY <1>1, <1>4, GotoFacts DEF Outside
  <2> QED BY <2>1, <2>2 DEF Justified, Offers, Offered, Prompts
<1> QED BY <1>3, <1>4 DEF CheckMemory

LEMMA TakeLockOffers ==
  ASSUME IInv, Offers, NEW t \in Threads, TakeLock(t)
  PROVE  Justified
<1>1. Busy(t) /\ Types /\ mem \in MemState /\ refresh.at = "locking"
  BY AtFacts DEF TakeLock
<1>2. ~mem.reauthorize
  BY <1>1 DEF Offers, Presenting
<1>3. /\ Loaded(mem) \in MemState /\ Loaded(mem).tokens = file
      /\ ~Loaded(mem).reauthorize
  BY <1>1, <1>2, LoadedFacts, LoadedFlags
<1>4. /\ Reread \in MemState /\ Reread.tokens = file
      /\ Reread.reauthorize => file # None /\ Expired(file)
  BY <1>1, <1>3, CheckedFacts, CheckedFlags DEF Reread
<1>5. CASE Settle(t, Reread)
  <2>1. /\ Offered(mem')
        /\ \/ Elsewhere
           \/ /\ Opens(Reread)
              /\ Reread.tokens = None \/ Reread.reauthorize
    BY <1>1, <1>4, <1>5, SettleOffers
  <2>2. Prompts => Cause
    BY <1>4, <2>1 DEF Prompts, Elsewhere, Cause
  <2> QED BY <2>1, <2>2 DEF Justified, Offers, Elsewhere, Opens, Presenting
<1>6. CASE /\ Decision(Reread) = "refresh"
           /\ mem' = Reread /\ Goto("posting")
  <2>1. ~mem'.reauthorize
    BY <1>6 DEF Decision
  <2>2. refresh'.at = "posting"
    BY <1>1, <1>6, GotoFacts DEF Inside
  <2> QED BY <2>1, <2>2 DEF Justified, Offers, Offered, Prompts
<1> QED BY <1>5, <1>6 DEF TakeLock

(* The other steps of a refresh.                                           *)
LEMMA RefreshOffers ==
  ASSUME IInv, Offers, NEW t \in Threads,
         BeginRefresh(t) \/ NoClient(t) \/ Granted(t) \/ Rejected(t)
           \/ Rename(t) \/ Launch(t) \/ OauthEnded(t) \/ RefreshMishaps(t)
  PROVE  Justified
<1>1. Types /\ mem \in MemState
  BY DEF IInv, Types
<1>2. CASE BeginRefresh(t)
  <2>1. refresh'.at = "checking"
    BY <1>2 DEF BeginRefresh
  <2>2. Loaded(mem) \in MemState
    BY <1>1, LoadedFacts
  <2>3. Offered(mem')
    BY <1>1, <1>2, <2>2, LoadedFlags, FlagFacts DEF BeginRefresh, Offers,
       Offered
  <2> QED BY <2>1, <2>3 DEF Justified, Offers, Prompts, Presenting
<1>3. CASE NoClient(t)
  <2>1. Busy(t)
    BY <1>3, AtFacts DEF NoClient
  <2>2. Offered(mem') /\ refresh'.at \notin Presenting
    BY <1>1, <1>3, <2>1, InteractiveOffers
    DEF NoClient, Elsewhere, Opens, Presenting
  <2> QED BY <1>3, <2>2 DEF NoClient, Justified, Offers, Cause
<1>4. CASE Granted(t)
  <2>1. Busy(t) /\ refresh.at = "posting"
    BY <1>4, AtFacts DEF Granted
  <2>2. refresh'.at = "storing"
    BY <1>4, <2>1, GotoFacts DEF Granted, Inside
  <2>3. mem'.reauthorize = mem.reauthorize /\ ~mem.reauthorize
    BY <1>1, <1>4, <2>1 DEF Granted, Offers, Presenting, MemState
  <2> QED BY <2>2, <2>3 DEF Justified, Offers, Offered, Prompts
<1>5. CASE Rejected(t)
  <2>1. Busy(t) /\ refresh.at = "posting"
    BY <1>5, AtFacts DEF Rejected
  <2>2. [mem EXCEPT !.reauthorize = TRUE] \in MemState
    BY <1>1, MemFacts
  <2>3. Offered(mem') /\ refresh'.at \notin Presenting
    BY <1>5, <2>1, <2>2, InteractiveOffers
    DEF Rejected, Elsewhere, Opens, Presenting
  <2>4. Cause
    BY <1>5, <2>1 DEF Rejected, IInv, UnderLock, Cause
  <2> QED BY <2>3, <2>4 DEF Justified, Offers
<1>6. CASE Rename(t)
  <2>1. refresh.at = "storing" /\ Ready(t, mem)
    BY <1>6 DEF Rename, At
  <2>2. ~mem'.reauthorize
    BY <1>1, <2>1, FlagFacts DEF Ready, Offers, Presenting
  <2>3. refresh'.at = "free"
    BY <2>1, FreeFacts DEF Ready
  <2> QED BY <2>2, <2>3 DEF Justified, Offers, Offered, Prompts
<1>7. CASE Launch(t)
  <2>1. Busy(t)
    BY <1>7, AtFacts DEF Launch
  <2>2. refresh'.at = "waiting" /\ mem' = mem
    BY <1>7, <2>1, GotoFacts DEF Launch, Outside
  <2> QED BY <2>2 DEF Justified, Offers, Offered, Prompts, Presenting
<1>8. CASE OauthEnded(t) \/ LaunchFails(t)
  <2>1. Busy(t)
    BY <1>8, AtFacts DEF OauthEnded, LaunchFails
  <2>2. Offered(mem') /\ Elsewhere
    BY <1>8, <2>1, SecondPassOffers DEF OauthEnded, LaunchFails, Offers
  <2> QED BY <2>2 DEF Justified, Offers, Prompts, Elsewhere
<1>9. CASE \/ LockFails(t) \/ StoreFails(t)
           \/ NoAnswer(t) /\ Transient(t) /\ mem' = mem
  <2>1. Elsewhere /\ mem' = mem
    BY <1>9, RefuseOffers DEF LockFails, StoreFails, Transient
  <2> QED BY <2>1 DEF Justified, Offers, Offered, Prompts, Elsewhere
<1>10. CASE NoAnswer(t) /\ Ready(t, mem)
  <2>1. refresh.at = "posting"
    BY <1>10 DEF NoAnswer, At
  <2>2. ~mem'.reauthorize
    BY <1>1, <1>10, <2>1, FlagFacts DEF Ready, Offers, Presenting
  <2>3. refresh'.at = "free"
    BY <1>10, FreeFacts DEF Ready
  <2> QED BY <2>2, <2>3 DEF Justified, Offers, Offered, Prompts
<1>11. CASE NoAnswer(t)
  BY <1>9, <1>10, <1>11 DEF NoAnswer
<1> QED BY <1>2, <1>3, <1>4, <1>5, <1>6, <1>7, <1>8, <1>9, <1>11
        DEF RefreshMishaps

(* The steps that end or start the component, and those of others.         *)
LEMMA OthersOffer ==
  ASSUME IInv, Offers,
         \/ ThreadMoves \/ Poke \/ ClockMoves \/ StartByHand
         \/ Exit \/ Kill \/ MonitorCrash \/ Restart \/ UNCHANGED vars
         \/ \E o \in Oauths : UserSteps(o) \/ Save(o) \/ SaveRename(o)
  PROVE  Justified
<1>1. CASE UNCHANGED <<mem, refresh>>
  BY <1>1 DEF Justified, Offers, Offered, Prompts
<1>2. CASE Exit \/ Kill
  <2>1. ~mem'.reauthorize
    BY <1>2 DEF Exit, Kill, Gone, Constructed
  <2>2. refresh'.at = "free"
    BY <1>2, FreeFacts DEF Exit, Kill, Gone
  <2> QED BY <2>1, <2>2 DEF Justified, Offers, Offered, Prompts
<1>3. CASE MonitorCrash
  <2>1. refresh'.at = "free" /\ mem' = mem
    BY <1>3, FreeFacts DEF MonitorCrash
  <2> QED BY <2>1 DEF Justified, Offers, Offered, Prompts, Presenting
<1>4. CASE Restart
  <2>1. ~mem'.reauthorize /\ refresh' = refresh
    BY <1>4 DEF Restart, Constructed
  <2> QED BY <2>1 DEF Justified, Offers, Offered, Prompts
<1>5. CASE ThreadMoves \/ Poke \/ ClockMoves \/ StartByHand
  BY <1>1, <1>5
  DEF ThreadMoves, ClockMoves, Poke, Nap, Timeout, Wake, DeviceMoves, Connect,
     ListDevices, LeaveClient, ListenFails,
     Invoke, Signal, BeginStop, StopMonitor, StopDevices, Tick, SetClockBack,
     EditClient, StartByHand, ThreadStep, OauthStep
<1>6. CASE \E o \in Oauths : UserSteps(o) \/ Save(o) \/ SaveRename(o)
  BY <1>1, <1>6 DEF UserSteps, Authorize, Leave, Save, SaveRename, OauthStep
<1> QED BY <1>1, <1>2, <1>3, <1>4, <1>5, <1>6 DEF vars

LEMMA StepJustified == IInv /\ Offers /\ [Next]_vars => Justified
BY CheckMemoryOffers, TakeLockOffers, RefreshOffers, OthersOffer
   DEF Next, RefreshSteps, ThreadMoves, DeviceMoves, ClockMoves

LEMMA InitOffers == Init => Offers
BY FreeFacts DEF Init, Constructed, Offers, Offered, Presenting

(* The sign-in is opened for a missing, ended or rejected authorization, a *)
(* missing client or a file another program has changed, and never because *)
(* a request, the lock or the store failed (refresh_tokens and             *)
(* attempt_token_refresh of spotify_auth.cxx).                             *)
THEOREM PromptOnlyWhenNeeded == Spec => PromptIsNeeded
<1>1. IInv /\ Offers /\ [Next]_vars =>
        (refresh.at # "launching" /\ refresh'.at = "launching" =>
           \/ ~client \/ file = None \/ Expired(file) \/ ~Accepted(file)
           \/ file # mem.tokens)
  BY StepJustified DEF Justified, Prompts, Cause
<1>2. IInv /\ Offers /\ [Next]_vars => Offers'
  BY StepJustified DEF Justified
<1> QED BY <1>1, <1>2, InitHolds, InitOffers, StepKeeps, PTL
        DEF Spec, PromptIsNeeded

-----------------------------------------------------------------------------
LEMMA LockType ==
  ASSUME IInv, client \in BOOLEAN, lock \in Threads \cup Oauths \cup {None},
         [Next]_vars
  PROVE  client' \in BOOLEAN /\ lock' \in Threads \cup Oauths \cup {None}
<1>1. ASSUME NEW t \in Threads,
             BeginRefresh(t) \/ TakeLock(t) \/ RefreshSteps(t)
               \/ RefreshMishaps(t)
      PROVE  UNCHANGED client /\ lock' \in {lock, None, t}
  BY <1>1 DEF BeginRefresh, TakeLock, TokenSession, RefreshSteps, CheckMemory,
     NoClient, Granted, Rejected, Rename, ReplaceFile, Launch, OauthEnded,
     RefreshMishaps, LockFails, NoAnswer, StoreFails, LaunchFails, account
<1>2. CASE ThreadMoves \/ Poke \/ ClockMoves \/ StartByHand \/ UNCHANGED vars
  BY <1>2 DEF ThreadMoves, Poke, ClockMoves, Nap, Timeout, Wake, DeviceMoves,
     Connect, ListDevices, LeaveClient, ListenFails,
     Invoke, Signal, BeginStop, StopMonitor, StopDevices, Tick, SetClockBack,
     EditClient, StartByHand, ThreadStep, OauthStep, account, vars
<1>3. CASE Exit \/ Kill \/ MonitorCrash \/ Restart
  BY <1>3 DEF Exit, Kill, MonitorCrash, Restart, account
<1>4. ASSUME NEW o \in Oauths, UserSteps(o) \/ Save(o) \/ SaveRename(o)
      PROVE  UNCHANGED client /\ lock' \in {lock, None, o}
  BY <1>4 DEF UserSteps, Authorize, Leave, Save, TokenSession, SaveRename,
     ReplaceFile, OauthStep
<1> QED BY <1>1, <1>2, <1>3, <1>4 DEF Next, ThreadMoves, DeviceMoves, ClockMoves

(* What the clock, the service, the file, the two mutexes and the Spotify  *)
(* object can hold, and that only a thread that asks refreshes.            *)
THEOREM TypeCorrect == Spec => []TypeOK
<1> DEFINE Locks == /\ client \in BOOLEAN
                    /\ lock \in Threads \cup Oauths \cup {None}
<1>1. Init => Locks
  BY DEF Init
<1>2. IInv /\ Locks /\ [Next]_vars => Locks'
  BY LockType
<1>3. IInv /\ Locks => TypeOK
  BY DEF IInv, Types, OutIsFree, Asked, Tokens, MemState, RefreshState, TypeOK
<1> QED BY <1>1, <1>2, <1>3, InitHolds, StepKeeps, PTL DEF Spec

=============================================================================
