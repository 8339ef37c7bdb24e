----------------------------- MODULE ConfigOwner ----------------------------
(***************************************************************************)
(* The program that owns one INI file: <name>_config.exe, for each <name>  *)
(* of ConfigPrograms.  It is started plain (a menu), with --init (ask for  *)
(* every setting of a new file), with --seed (defaults, nothing asked) or  *)
(* with both; logging_policy_config.exe also with --disable.  Instances    *)
(* are consoles of the same program; no lock keeps them apart.             *)
(*                                                                         *)
(* An edit reads every setting back, changes one and writes the whole file *)
(* again: open and truncate, then the text.  A setting is its row number   *)
(* in the table, the file a text for each row; a truncated file lacks      *)
(* every key.                                                              *)
(*                                                                         *)
(* With its INI file there, a launch runs the owners of the other files of *)
(* the component, one after the other, in its console; StorePrograms says  *)
(* what each does.  A store file is missing, cut ("part"), blank or whole. *)
(***************************************************************************)
EXTENDS Naturals, ConfigPrograms

CONSTANTS Instances,     \* consoles that may run the program at once
          Subjects,      \* the programs looked at
          MaxLaunches,   \* bound: launches
          MaxEdits,      \* bound: values a user enters
          MaxMishaps,     \* bound: failing calls and ended processes
          SharedLogging  \* component_logging_default of logging_policy.ini

ASSUME SubjectsAssumption == Subjects \subseteq DOMAIN Programs
ASSUME BoundsAssumption ==
  /\ MaxLaunches \in Nat /\ MaxEdits \in Nat /\ MaxMishaps \in Nat
ASSUME SharedAssumption == SharedLogging \in OnOff

VARIABLES prog,     \* the program
          present,  \* its INI file exists
          file,     \* the text of each row
          stores,   \* what each store file holds
          temps,    \* what its temporary file holds
          session,  \* what each instance is doing
          chosen,   \* the value last stored in each row, or None
          raced,    \* two edits overlapped
          cut,      \* a write was cut off after the truncation
          unread,   \* an edit went on without the other settings
          spoiled,  \* store files whose writing was cut or crossed
          launches, edits, mishaps

disk == <<present, file, stores, temps>>
ownerMarks == <<chosen, raced, cut, unread, spoiled>>
bounds == <<launches, edits, mishaps>>
ownerVars == <<prog, disk, session, ownerMarks, bounds>>

None == "none"
Rows == Programs[prog].settings
Plan == Programs[prog].launch
Keys == 1..Len(Rows)
LaunchModes == {"plain", "init", "seed", "both"}
           \cup (IF prog = "logging_policy" THEN {"disable"} ELSE {})

(* The store files of the program.                                         *)
Sequels == {Plan.before, Plan.after, Plan.seed, Plan.init, Plan.both}
StoreFiles ==
  UNION {UNION {FilesOf(steps[n].owner) : n \in DOMAIN steps} :
            steps \in Sequels}

Idle == [pc |-> "idle", mode |-> "plain", kind |-> "none", at |-> 0,
         key |-> 0, value |-> None, next |-> <<>>, todo |-> <<>>,
         then |-> "ended", touched |-> FALSE, bad |-> FALSE, code |-> 0]

(* What the program takes for row k of a file it could read.               *)
Resolve(value) == IF value = SharedPolicy THEN SharedLogging ELSE value
Taken(k) ==
  LET text == file[k]
  IN Resolve(CASE text = Missing -> Rows[k].missing
               [] text = Junk    -> Rows[k].junk
               [] OTHER          -> text)

(* logging_policy_config --disable writes the defaults with one change.    *)
Defaults(mode) ==
  [k \in Keys |-> IF mode = "disable" /\ Rows[k].key = "disable_all"
                  THEN "on" ELSE Rows[k].first]

(* The file as a user or an earlier version may have left it.              *)
Files ==
  LET other == [k \in Keys |-> CHOOSE text \in Rows[k].values :
                                  text # Rows[k].first]
  IN {other} \cup {[k \in Keys |-> text] : text \in {Missing, Junk}}

OwnerInit ==
  /\ prog \in Subjects
  /\ \/ present = FALSE /\ file = [k \in Keys |-> Missing]
     \/ present = TRUE /\ file \in Files
  /\ stores = [s \in StoreFiles |-> "none"]
  /\ temps = stores /\ spoiled = {}
  /\ session = [i \in Instances |-> Idle]
  /\ chosen = [k \in Keys |-> IF file[k] \in Rows[k].values
                              THEN file[k] ELSE None]
  /\ raced = FALSE /\ cut = FALSE /\ unread = FALSE
  /\ launches = 0 /\ edits = 0 /\ mishaps = 0

-----------------------------------------------------------------------------
(* Steps of one instance.                                                  *)

Is(i, pc) == session[i].pc = pc
Move(i, to) == session' = [session EXCEPT ![i] = to]
GoesTo(i, pc) == Move(i, [session[i] EXCEPT !.pc = pc])
Fresh(i, pc) == [Idle EXCEPT !.pc = pc, !.mode = session[i].mode]
LaunchEnds(i, code) == Move(i, [Fresh(i, "ended") EXCEPT !.code = code])
Follow(i, steps, then) ==
  Move(i, [Fresh(i, "steps") EXCEPT
             !.todo = steps, !.then = then,
             !.touched = session[i].touched \/ session[i].kind = "create"])
CallFails == mishaps < MaxMishaps /\ mishaps' = mishaps + 1
CallWorks == UNCHANGED mishaps
Holds(i) == session[i].pc \in {"write", "fill"}
Overlap(i) == \E j \in Instances \ {i} : Holds(j)

(* parse_config_launch: both flags may be given.                           *)
Launch(i, mode) ==
  /\ session[i].pc \in {"idle", "ended"}
  /\ launches < MaxLaunches /\ launches' = launches + 1
  /\ Move(i, [Idle EXCEPT !.pc = "inspect", !.mode = mode])
  /\ UNCHANGED <<prog, disk, ownerMarks, edits, mishaps>>

(* Where a launch goes once the file is there.                             *)
Proceed(i, mode) ==
  CASE mode = "plain"   -> Follow(i, Plan.before, "menu")
    [] mode = "init"    -> Follow(i, Plan.init, "ended")
    [] mode = "seed"    -> Follow(i, Plan.seed, "ended")
    [] mode = "both"    -> Follow(i, Plan.both, "ended")
    [] mode = "disable" -> LaunchEnds(i, 0)

Write(i, kind, next) ==
  Move(i, [session[i] EXCEPT !.pc = "write", !.kind = kind, !.next = next])

(* main() looks for the file; a check or a read that fails ends it.        *)
Inspect(i) ==
  /\ Is(i, "inspect")
  /\ \/ CallFails /\ LaunchEnds(i, 1)
     \/ CallWorks /\ present /\ Proceed(i, session[i].mode)
     \/ CallWorks /\ ~present
        /\ Write(i, "create", Defaults(session[i].mode))
  /\ raced' = (raced \/ (session'[i].pc = "write" /\ Overlap(i)))
  /\ UNCHANGED <<prog, disk, chosen, cut, unread, spoiled, launches, edits>>

(* synchronize_installed_version: the text is read as it stands and, when  *)
(* its version line is not the compiled one, written back with it.         *)
SynchronizeVersion(i) ==
  /\ Is(i, "inspect") /\ present /\ Plan.syncs
  /\ \/ CallFails /\ LaunchEnds(i, 1) /\ UNCHANGED raced
     \/ /\ CallWorks /\ Write(i, "sync", file)
        /\ raced' = (raced \/ Overlap(i))
  /\ UNCHANGED <<prog, disk, chosen, cut, unread, spoiled, launches, edits>>

(* Mutant of Truncate: a launch goes on when the file cannot be opened.    *)
TruncateUnchecked(i) ==
  /\ Is(i, "write")
  /\ \/ CallFails /\ Proceed(i, session[i].mode)
        /\ UNCHANGED <<present, file, raced>>
     \/ /\ CallWorks /\ GoesTo(i, "fill")
        /\ present' = TRUE
        /\ file' = [k \in Keys |-> Missing]
        /\ raced' = (raced \/ Overlap(i))
  /\ UNCHANGED <<prog, stores, temps, chosen, cut, unread, spoiled,
                 launches, edits>>

(* The first half of write_bytes: the directory and the truncating open.   *)
Truncate(i) ==
  /\ Is(i, "write")
  /\ \/ CallFails /\ LaunchEnds(i, 1) /\ UNCHANGED <<present, file, raced>>
     \/ /\ CallWorks /\ GoesTo(i, "fill")
        /\ present' = TRUE
        /\ file' = [k \in Keys |-> Missing]
        /\ raced' = (raced \/ Overlap(i))
  /\ UNCHANGED <<prog, stores, temps, chosen, cut, unread, spoiled,
                 launches, edits>>

(* Where a launch goes once its text is written.                           *)
Written(i) ==
  LET s == session[i]
      To(pc, at) == Move(i, [Fresh(i, pc) EXCEPT !.at = at, !.touched = TRUE])
  IN CASE s.kind = "edit" /\ s.mode = "init"   -> To("ask", s.at + 1)
       [] s.kind = "edit" /\ s.mode # "init"   -> To("menu", 0)
       [] s.kind = "create" /\ s.mode = "init" -> To("ask", 1)
       [] s.kind = "create" /\ s.mode = "plain" /\ Plan.offers ->
            To("offer", 0)
       [] OTHER -> Proceed(i, s.mode)

(* The second half: output.write and output.close.  A failure leaves the   *)
(* truncated file and ends the launch with 1.                              *)
Fill(i) ==
  LET s == session[i] IN
  /\ Is(i, "fill")
  /\ \/ /\ CallFails /\ LaunchEnds(i, 1)
        /\ cut' = TRUE /\ UNCHANGED <<file, chosen>>
     \/ /\ CallWorks /\ Written(i)
        /\ file' = s.next
        /\ chosen' = IF s.kind = "edit"
                     THEN [chosen EXCEPT ![s.key] = s.value] ELSE chosen
        /\ UNCHANGED cut
  /\ UNCHANGED <<prog, present, stores, temps, raced, unread, spoiled,
                 launches, edits>>

-----------------------------------------------------------------------------
(* The user.                                                               *)

Quiet == UNCHANGED <<prog, disk, ownerMarks, launches, edits, mishaps>>

(* End of input at any question.                                           *)
EndOfInput(i) ==
  /\ session[i].pc \in {"menu", "ask", "offer"}
  /\ LaunchEnds(i, 1)
  /\ Quiet

(* A value is entered for row k: in the menu, or for the row asked about.  *)
Enter(i, k, value) ==
  /\ \/ Is(i, "menu")
     \/ Is(i, "ask") /\ k = session[i].at
  /\ edits < MaxEdits /\ edits' = edits + 1
  /\ Move(i, [session[i] EXCEPT !.pc = "read", !.key = k, !.value = value])
  /\ UNCHANGED <<prog, disk, ownerMarks, launches, mishaps>>

(* A blank line keeps the bracketed value and stores nothing.              *)
Keep(i) ==
  /\ Is(i, "ask") /\ session[i].at <= Len(Rows)
  /\ Move(i, [session[i] EXCEPT !.at = @ + 1])
  /\ Quiet

(* run_menu returns at 0; components_policy_config then offers a sync of   *)
(* the list when the file is new or changed.                               *)
Leave(i) ==
  /\ Is(i, "menu")
  /\ IF session[i].touched THEN Follow(i, Plan.after, "ended")
     ELSE LaunchEnds(i, 0)
  /\ Quiet

(* offer_configuration: 1 opens the menu, 0 leaves.                        *)
Offered(i) ==
  /\ Is(i, "offer")
  /\ GoesTo(i, "menu") \/ LaunchEnds(i, 0)
  /\ Quiet

(* prompt_settings has walked every row.                                   *)
Asked(i) ==
  /\ Is(i, "ask") /\ session[i].at > Len(Rows)
  /\ Proceed(i, "init")
  /\ Quiet

-----------------------------------------------------------------------------
(* apply_setting: read the other rows back.                                *)

(* Some reader of this program tells "unreadable" from "defaults", and     *)
(* the edit is given up.                                                   *)
Gives(k) == \E other \in Keys \ {k} : Rows[other].unread = Fail

Changed(i, others) == [others EXCEPT ![session[i].key] = session[i].value]

(* Mutant of Read: an unreadable file counts as one with the defaults.     *)
ReadUnguarded(i) ==
  LET first == [k \in Keys |-> Rows[k].first] IN
  /\ Is(i, "read")
  /\ \/ /\ CallWorks /\ UNCHANGED unread
        /\ Write(i, "edit", Changed(i, [k \in Keys |-> Taken(k)]))
     \/ /\ CallFails
        /\ Write(i, "edit", Changed(i, first))
        /\ unread' = (unread \/ ~Gives(session[i].key))
  /\ raced' = (raced \/ Overlap(i))
  /\ UNCHANGED <<prog, disk, chosen, cut, spoiled, launches, edits>>

Read(i) ==
  LET s == session[i]
      assumed == [k \in Keys |-> Resolve(Rows[k].unread)]
  IN
  /\ Is(i, "read")
  /\ \/ /\ CallWorks /\ UNCHANGED unread
        /\ Write(i, "edit", Changed(i, [k \in Keys |-> Taken(k)]))
     \/ CallFails /\ Gives(s.key) /\ LaunchEnds(i, 1) /\ UNCHANGED unread
     \/ /\ CallFails /\ ~Gives(s.key)
        /\ Write(i, "edit", Changed(i, assumed))
        /\ unread' = TRUE
  /\ raced' = (raced \/ Overlap(i))
  /\ UNCHANGED <<prog, disk, chosen, cut, spoiled, launches, edits>>

-----------------------------------------------------------------------------
(* The owners a launch runs, in their order.                               *)

NextStep(i) == Head(session[i].todo)
StepDue(i) == Is(i, "steps") /\ session[i].todo # <<>>
Pass(i) == Move(i, [session[i] EXCEPT !.pc = "steps", !.todo = Tail(@)])
Exists(s) == stores[s] # "none"
Usable(s) == stores[s] \notin {"none", "blank"}
Needed(i) == \A s \in NextStep(i).needs : Usable(s)
Made(i) == \A s \in FilesOf(NextStep(i).owner) : Usable(s)

(* Nothing is left to run.                                                 *)
Complete(i) ==
  /\ Is(i, "steps") /\ session[i].todo = <<>>
  /\ IF session[i].then = "menu" THEN GoesTo(i, "menu") ELSE LaunchEnds(i, 0)
  /\ Quiet

(* The file of the owner is there already, or only looked for; the look    *)
(* itself can fail.                                                        *)
Skip(i) ==
  /\ StepDue(i) /\ Needed(i)
  /\ NextStep(i).once \/ NextStep(i).look
  /\ \/ CallFails /\ LaunchEnds(i, 1)
     \/ CallWorks /\ (NextStep(i).look \/ Made(i)) /\ Pass(i)
  /\ UNCHANGED <<prog, disk, ownerMarks, launches, edits>>

(* Authorization is not finished: reported, not failed.                    *)
Unfinished(i) ==
  /\ StepDue(i) /\ ~Needed(i)
  /\ LaunchEnds(i, 0)
  /\ Quiet

(* The user declines the owner, or ends the input.                         *)
Decline(i) ==
  /\ StepDue(i) /\ Needed(i) /\ NextStep(i).ask
  /\ ~(NextStep(i).once /\ Made(i))
  /\ Pass(i) \/ LaunchEnds(i, 1)
  /\ Quiet

(* launch_owner: the program is missing, does not start, or runs.          *)
StartOwner(i) ==
  /\ StepDue(i) /\ Needed(i) /\ ~NextStep(i).look
  /\ ~(NextStep(i).once /\ Made(i))
  /\ \/ CallFails /\ LaunchEnds(i, 1)
     \/ /\ CallWorks
        /\ Move(i, [session[i] EXCEPT !.pc = "store", !.at = 1, !.bad = FALSE])
  /\ UNCHANGED <<prog, disk, ownerMarks, launches, edits>>

(* run_and_wait has the owner's code; the launch fails with it unless the  *)
(* owner is one it can do without.                                         *)
GiveUp(i) == IF NextStep(i).soft THEN Pass(i) ELSE LaunchEnds(i, 1)
OwnerReturns(i) ==
  /\ Is(i, "store")
  /\ session[i].at > Len(Stores[NextStep(i).owner].files)
  /\ IF session[i].bad THEN GiveUp(i) ELSE Pass(i)
  /\ Quiet

-----------------------------------------------------------------------------
(* An owner makes its files, one after the other.                          *)

Store(i) == Stores[NextStep(i).owner]
Slot(i) == Store(i).files[session[i].at]
Name(i) == Slot(i).name
AtFile(i, pc) == Is(i, pc) /\ session[i].at <= Len(Store(i).files)
NextFile(i) == Move(i, [session[i] EXCEPT !.pc = "store", !.at = @ + 1])

(* Mutant of Fails: a program that goes on forgets the file it missed.     *)
FailsForgotten(i) == IF Store(i).goes THEN NextFile(i) ELSE GiveUp(i)
Fails(i) ==
  IF Store(i).goes
  THEN Move(i, [session[i] EXCEPT !.pc = "store", !.at = @ + 1, !.bad = TRUE])
  ELSE GiveUp(i)

StoreRest == UNCHANGED <<prog, present, file, chosen, raced, cut, unread,
                         launches, edits>>
Spoil(s) == spoiled' = spoiled \cup {s}

(* The file is looked at: a failing call, a store it needs and has not,    *)
(* or one that is there already.                                           *)
Look(i) ==
  LET f == Slot(i)
      ready == /\ \A s \in f.wants : Exists(s)
               /\ \A s \in f.reads : stores[s] = "whole"
  IN
  /\ AtFile(i, "store")
  /\ \/ CallFails /\ Fails(i)
     \/ CallWorks /\ ~ready /\ ~(f.wants # {} /\ Exists(f.name)) /\ Fails(i)
     \/ CallWorks /\ Exists(f.name) /\ f.when # "always" /\ NextFile(i)
     \/ /\ CallWorks /\ ready
        /\ ~Exists(f.name) \/ f.when \in {"always", "may"}
        /\ GoesTo(i, "make")
  /\ UNCHANGED <<stores, temps, spoiled>> /\ StoreRest

(* The question about the file is answered with the end of input, or the   *)
(* file is left out or left as it is.                                      *)
Answer(i) ==
  LET asks == Slot(i).asks IN
  /\ AtFile(i, "make")
  /\ \/ "end" \in asks /\ GiveUp(i)
     \/ "leave" \in asks /\ NextFile(i)
     \/ "blank" \in asks /\ Usable(Name(i)) /\ NextFile(i)
     \/ Slot(i).when = "missing_twice" /\ Exists(Name(i)) /\ NextFile(i)
  /\ Quiet

(* A file written in place: opened empty, ...                              *)
OpenStore(i) ==
  LET f == Slot(i) IN
  /\ AtFile(i, "make")
  /\ f.how \in {"place", "unchecked", "database", "folder"}
  /\ ~(f.when = "missing_twice" /\ Exists(f.name))
  /\ \/ CallFails /\ Fails(i) /\ UNCHANGED stores
     \/ /\ CallWorks /\ f.how = "folder" /\ NextFile(i)
        /\ stores' = [stores EXCEPT ![f.name] = "whole"]
     \/ /\ CallWorks /\ f.how # "folder" /\ GoesTo(i, "storing")
        /\ stores' = [stores EXCEPT ![f.name] =
             IF f.how = "database" /\ Exists(f.name) THEN @ ELSE "part"]
  /\ UNCHANGED <<temps, spoiled>> /\ StoreRest

(* ... then filled and closed.                                             *)
FillStore(i) ==
  LET f == Slot(i) IN
  /\ AtFile(i, "storing")
  /\ \/ /\ CallWorks /\ NextFile(i) /\ UNCHANGED spoiled
        /\ stores' = [stores EXCEPT ![f.name] = f.leaves]
     \/ /\ CallFails /\ Spoil(f.name) /\ UNCHANGED stores
        /\ IF f.how = "unchecked" THEN NextFile(i) ELSE Fails(i)
  /\ UNCHANGED temps /\ StoreRest

(* A file that is replaced: the temporary one is opened empty, ...         *)
Crossed(i, pcs) == \E j \in Instances \ {i} :
                     session[j].pc \in pcs /\ Name(j) = Name(i)
OpenTemp(i) ==
  LET f == Slot(i)
      shut == f.how \in {"locked", "timed"} /\ Crossed(i, {"temp", "moving"})
  IN
  /\ AtFile(i, "make")
  /\ f.how \in {"replace", "keep", "claim", "locked", "timed"}
  /\ \/ CallFails /\ Fails(i) /\ UNCHANGED <<temps, spoiled>>
     \/ /\ CallWorks /\ shut /\ f.how = "timed" /\ Fails(i)
        /\ UNCHANGED <<temps, spoiled>>
     \/ /\ CallWorks /\ ~shut /\ GoesTo(i, "temp")
        /\ temps' = [temps EXCEPT ![f.name] = "part"]
        /\ IF Crossed(i, {"moving"}) THEN Spoil(f.name) ELSE UNCHANGED spoiled
  /\ UNCHANGED stores /\ StoreRest

(* ... filled and closed, or removed, ...                                  *)
FillTemp(i) ==
  /\ AtFile(i, "temp")
  /\ \/ /\ CallFails /\ Fails(i)
        /\ temps' = IF Crossed(i, {"temp"}) THEN temps
                    ELSE [temps EXCEPT ![Name(i)] = "none"]
     \/ CallWorks /\ GoesTo(i, "moving")
        /\ temps' = [temps EXCEPT ![Name(i)] = "whole"]
  /\ UNCHANGED <<stores, spoiled>> /\ StoreRest

(* ... and moved over the file.  MoveFileEx fails when the temporary file  *)
(* is open elsewhere or gone; then it is removed, if it can be.            *)
Place(i) ==
  LET f == Slot(i)
      held == Crossed(i, {"temp"})
      taken == f.how \in {"keep", "claim"} /\ Exists(f.name)
      lost == held \/ temps[f.name] = "none" \/ taken
      kept == f.how = "keep" /\ Exists(f.name)
  IN
  /\ AtFile(i, "moving")
  /\ \/ /\ \/ CallFails
           \/ CallWorks /\ lost
        /\ IF kept THEN NextFile(i) ELSE Fails(i)
        /\ temps' = IF held THEN temps ELSE [temps EXCEPT ![f.name] = "none"]
        /\ UNCHANGED stores
     \/ /\ CallWorks /\ ~lost /\ NextFile(i)
        /\ \E answer \in {f.leaves} \cup (f.asks \cap {"blank"}) :
             stores' = [stores EXCEPT ![f.name] =
               IF temps[f.name] = "whole" THEN answer ELSE "part"]
        /\ temps' = [temps EXCEPT ![f.name] = "none"]
  /\ UNCHANGED spoiled /\ StoreRest

-----------------------------------------------------------------------------
(* The surroundings.                                                       *)

(* The console is closed.                                                  *)
Kill(i) ==
  /\ session[i].pc \notin {"idle", "ended"}
  /\ CallFails
  /\ LaunchEnds(i, 1)
  /\ cut' = (cut \/ Is(i, "fill"))
  /\ IF AtFile(i, "storing") THEN Spoil(Name(i)) ELSE UNCHANGED spoiled
  /\ UNCHANGED <<prog, disk, chosen, raced, unread, launches, edits>>

OwnerNext ==
  \E i \in Instances :
    \/ \E mode \in LaunchModes : Launch(i, mode)
    \/ \E k \in Keys : \E value \in Rows[k].values : Enter(i, k, value)
    \/ Inspect(i) \/ SynchronizeVersion(i) \/ Truncate(i) \/ Fill(i)
    \/ Read(i) \/ Kill(i)
    \/ EndOfInput(i) \/ Keep(i) \/ Asked(i) \/ Leave(i) \/ Offered(i)
    \/ Complete(i) \/ Skip(i) \/ Unfinished(i) \/ Decline(i)
    \/ StartOwner(i) \/ OwnerReturns(i) \/ Look(i) \/ Answer(i)
    \/ OpenStore(i) \/ FillStore(i)
    \/ OpenTemp(i) \/ FillTemp(i) \/ Place(i)

OwnerSpec == OwnerInit /\ [][OwnerNext]_ownerVars

-----------------------------------------------------------------------------
OwnerTypeOK ==
  /\ prog \in Subjects /\ present \in BOOLEAN
  /\ DOMAIN file = Keys /\ DOMAIN chosen = Keys
  /\ \A k \in Keys :
       /\ file[k] \in Rows[k].values \cup {Missing, Junk}
       /\ chosen[k] \in Rows[k].values \cup {None}
  /\ DOMAIN stores = StoreFiles /\ DOMAIN temps = StoreFiles
  /\ \A s \in StoreFiles :
       /\ stores[s] \in {"none", "part", "blank", "whole"}
       /\ temps[s] \in {"none", "part", "whole"}
  /\ spoiled \subseteq StoreFiles
  /\ \A i \in Instances :
       Holds(i) => \A k \in Keys : session[i].next[k] \in
                     Rows[k].values \cup
                       (IF session[i].kind = "sync" THEN {Missing, Junk}
                        ELSE {})

(* As long as no two instances overlap in an edit, no write is cut off     *)
(* and no unreadable file is edited, what a user stored stays stored: an   *)
(* edit of one setting, a second launch with --seed or --init, and the     *)
(* new version line touch no other setting.  A program that gives the edit *)
(* up when it cannot read the file needs no readable file for that.        *)
StoredStays ==
  (~raced /\ ~cut /\ ~unread /\ ~\E i \in Instances : Is(i, "fill")) =>
    \A k \in Keys : chosen[k] # None => present /\ file[k] = chosen[k]

(* A launch that ends with 0 leaves the INI file and every file of the     *)
(* owners it must run, and none of them cut short, except by a write in    *)
(* place that failed or was ended, or by two consoles whose temporary file *)
(* is the same one.  The initialisers rely on the code alone.              *)
Demanded(steps) ==
  UNION {Promised(steps[n].owner) : n \in {m \in DOMAIN steps :
     ~steps[m].ask /\ ~steps[m].soft /\ ~steps[m].look /\ steps[m].needs = {}}}
Owed(mode) == CASE mode = "seed" -> Demanded(Plan.seed)
                [] mode = "both" -> Demanded(Plan.both)
                [] mode = "init" -> Demanded(Plan.init)
                [] mode = "plain" -> Demanded(Plan.before)
                [] OTHER -> {}
Filling(s) == \E i \in Instances : AtFile(i, "storing") /\ Name(i) = s
ZeroIsDone ==
  \A i \in Instances :
    Is(i, "ended") /\ session[i].code = 0 =>
      /\ present
      /\ \A s \in Owed(session[i].mode) :
           Exists(s) /\ (stores[s] = "part" => s \in spoiled \/ Filling(s))

(* The program keeps the promise the initialisers rely on.                 *)
Running(i) == CASE session[i].pc = "idle" -> "idle"
            [] session[i].pc = "ended" ->
                 IF session[i].code = 0 THEN "zero" ELSE "failed"
            [] OTHER -> "running"
Contract == INSTANCE OwnerContract
  WITH here <- present, run <- [i \in Instances |-> Running(i)]
KeepsContract == Contract!Spec
=============================================================================
