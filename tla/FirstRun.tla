------------------------------ MODULE FirstRun ------------------------------
(***************************************************************************)
(* The first run of Auto Core: auto_core.exe finds no config/auto_core.ini *)
(* and runs auto_core_init.exe, which runs the program that owns each file *)
(* in a fixed order.  auto_core.ini is written first and is the sentinel   *)
(* of the whole sequence: a run that found it absent removes it again when *)
(* a later program fails.  A user can also start auto_core_init.exe by     *)
(* hand.  Each owner keeps OwnerContract; no lock is held over the files.  *)
(***************************************************************************)
EXTENDS Naturals, Sequences

CONSTANTS Main,          \* the auto_core_init.exe that Main starts
          Hand,          \* one a user starts
          Components,    \* discovered components: <name>_ac.exe in bin
          Configurable,  \* those with a <name>_config.exe
          Taskbar,       \* the component that is configured first
          MaxStarts,     \* bound: starts of Main and of a run by hand
          MaxFaults      \* bound: ended processes and failing file calls

ASSUME FirstRunAssumption ==
  /\ Main # Hand /\ Configurable \subseteq Components
  /\ MaxStarts \in Nat /\ MaxFaults \in Nat

VARIABLES here,        \* owned files that exist
          configured,  \* components whose INI file exists
          listed,      \* names in components.list
          main,        \* what auto_core.exe is doing
          init,        \* what each auto_core_init.exe is doing
          apart,       \* no launch has begun while a run was going on
          torn,        \* a run ended before it could remove its sentinel
          starts, faults

files == <<here, configured, listed>>
marks == <<apart, torn, faults>>
vars == <<files, main, init, marks, starts>>

Inits == {Main, Hand}

(* Mutant of Steps: the list is made before the components are configured. *)
StepsListFirst == << "auto_core", "components_policy", "shutdown",
                     "crash_recovery", "startup", "warnings", "list",
                     "components", "keymap" >>

(* initialization_steps: the file of each owner, in order.                 *)
Steps == << "auto_core", "components_policy", "shutdown", "crash_recovery",
            "startup", "warnings", "components", "list", "keymap" >>
Sentinel == "auto_core"
Policy == "logging_policy"
Required == ({Steps[n] : n \in DOMAIN Steps} \ {"components"}) \cup {Policy}

(* seed: nothing is asked; both: --init --seed, only the components are    *)
(* asked about; interactive: a plain start.                                *)
Modes == {"interactive", "seed", "both"}

Off == [pc |-> "off", mode |-> "seed", at |-> 1, armed |-> FALSE,
        asks |-> FALSE, todo |-> {}, hadList |-> FALSE, code |-> 0]

Init ==
  /\ here = {} /\ configured = {} /\ listed = {}
  /\ main = "off" /\ init = [p \in Inits |-> Off]
  /\ apart = TRUE /\ torn = FALSE
  /\ starts = 0 /\ faults = 0

At(p, pc) == init[p].pc = pc
Going(p) == init[p].pc \notin {"off", "ended"}
Set(p, to) == init' = [init EXCEPT ![p] = to]
Goto(p, pc) == Set(p, [init[p] EXCEPT !.pc = pc])
Ended(p, code) == [init[p] EXCEPT !.pc = "ended", !.code = code]
Ends(p, code) == Set(p, Ended(p, code))
Advanced(p) == [init[p] EXCEPT !.pc = "step", !.at = @ + 1]
Advance(p) == Set(p, Advanced(p))
Fault == faults < MaxFaults /\ faults' = faults + 1
NoFault == UNCHANGED faults

-----------------------------------------------------------------------------
(* auto_core_init.exe.                                                     *)

Starts(p, mode) ==
  /\ Set(p, [Off EXCEPT !.pc = "logging", !.mode = mode,
                        !.hadList = "list" \in here])
  /\ apart' = (apart /\ ~\E q \in Inits : Going(q))

ByHand(mode) ==
  /\ ~Going(Hand)
  /\ starts < MaxStarts /\ starts' = starts + 1
  /\ Starts(Hand, mode)
  /\ UNCHANGED <<files, main, torn, faults>>

(* run_owner: the owner ends with 0 and its file is there, or with another *)
(* code and the file may be there.                                         *)
OwnerEnds(p, file, success) ==
  \/ here' = here \cup {file} /\ Set(p, success)
  \/ here' \in {here, here \cup {file}} /\ Goto(p, "unwind")

(* establish_logging: an existing logging_policy.ini is kept; otherwise    *)
(* the user chooses, or ends the input, and its owner runs.  The sentinel  *)
(* is not watched yet.                                                     *)
Logging(p) ==
  LET menu == [init[p] EXCEPT !.pc = "menu"]
  IN
  /\ At(p, "logging")
  /\ \/ Policy \in here /\ Set(p, menu) /\ UNCHANGED here
     \/ Policy \notin here /\ OwnerEnds(p, Policy, menu)
     \/ Policy \notin here /\ init[p].mode # "seed"
        /\ Goto(p, "unwind") /\ UNCHANGED here
  /\ UNCHANGED <<configured, listed, main, marks, starts>>

(* The menu of a plain start: defaults or questions for Main's files; the  *)
(* components are asked about either way.                                  *)
Choose(p) ==
  /\ At(p, "menu")
  /\ \/ Set(p, [init[p] EXCEPT !.pc = "guard",
                               !.asks = (@ \/ init[p].mode # "seed")])
     \/ init[p].mode = "interactive" /\ Goto(p, "unwind")
  /\ UNCHANGED <<files, main, marks, starts>>

(* SentinelGuard: armed when the file is absent now, unless looking fails. *)
Guard(p) ==
  /\ At(p, "guard")
  /\ \/ NoFault
        /\ Set(p, [init[p] EXCEPT !.pc = "step",
                                  !.armed = Sentinel \notin here])
     \/ Fault /\ Goto(p, "step")
  /\ torn' = (torn \/ (faults' # faults /\ Sentinel \notin here))
  /\ UNCHANGED <<files, main, apart, starts>>

Step(p) == Steps[init[p].at]
Due(p) == At(p, "step") /\ init[p].at <= Len(Steps)

(* Mutant of RunOwner: the code of an owner is dropped.                    *)
RunOwnerAnyCode(p) ==
  /\ Due(p) /\ Step(p) \notin {"components", "list"}
  /\ here' \in {here, here \cup {Step(p)}}
  /\ Advance(p)
  /\ UNCHANGED <<configured, listed, main, marks, starts>>

RunOwner(p) ==
  /\ Due(p) /\ Step(p) \notin {"components", "list"}
  /\ OwnerEnds(p, Step(p), Advanced(p))
  /\ UNCHANGED <<configured, listed, main, marks, starts>>

(* prompt_components: defaults, configure, skip or the end of the input.    *)
(* components_init.exe fails when it cannot list the programs.              *)
AskComponents(p) ==
  /\ Due(p) /\ Step(p) = "components"
  /\ \/ Set(p, [init[p] EXCEPT !.pc = "seeding", !.todo = Components])
     \/ Goto(p, "unwind")
     \/ /\ init[p].asks
        /\ \/ Set(p, [init[p] EXCEPT !.pc = "asking", !.todo = Components])
           \/ Advance(p)
  /\ UNCHANGED <<files, main, marks, starts>>

(* components_editor.exe --seed: an existing list is kept; otherwise every *)
(* discovered component with an INI file is listed.  Under the policy      *)
(* "prompt" the input may end first.                                       *)
RunEditor(p) ==
  /\ Due(p) /\ Step(p) = "list"
  /\ \/ "list" \in here /\ Advance(p) /\ UNCHANGED <<here, listed>>
     \/ /\ "list" \notin here /\ Advance(p)
        /\ here' = here \cup {"list"}
        /\ listed' = configured
     \/ "list" \notin here /\ Goto(p, "unwind") /\ UNCHANGED <<here, listed>>
  /\ UNCHANGED <<configured, main, marks, starts>>

(* Every stage has returned 0: the guard is released.                      *)
Finish(p) ==
  /\ At(p, "step") /\ init[p].at > Len(Steps)
  /\ Ends(p, 0)
  /\ UNCHANGED <<files, main, marks, starts>>

(* The guard's destructor on every other way out; the removal can fail.    *)
Unwind(p) ==
  /\ At(p, "unwind")
  /\ Ends(p, 1)
  /\ \/ NoFault /\ here' = here \ (IF init[p].armed THEN {Sentinel} ELSE {})
     \/ Fault /\ init[p].armed /\ UNCHANGED here
  /\ torn' = (torn \/ (init[p].armed /\ faults' # faults))
  /\ UNCHANGED <<configured, listed, main, apart, starts>>

-----------------------------------------------------------------------------
(* components_init.exe: Taskbar first, then each discovered component.     *)

Turn(p, name) == /\ name \in init[p].todo
                 /\ Taskbar \in init[p].todo => name = Taskbar
Passes(p, name) == Set(p, [init[p] EXCEPT !.todo = @ \ {name}])
Configures(name) == configured' = configured \cup {name}

(* use_defaults: a component whose program fails or is missing is only     *)
(* counted.                                                                *)
SeedComponent(p, name) ==
  /\ At(p, "seeding") /\ Turn(p, name)
  /\ Passes(p, name)
  /\ \/ name \in Configurable /\ Configures(name)
     \/ UNCHANGED configured
  /\ UNCHANGED <<here, listed, main, marks, starts>>

(* prompt_each: a failing program or the end of the input stops it, and    *)
(* with it the whole sequence.                                             *)
AskComponent(p, name) ==
  /\ At(p, "asking") /\ Turn(p, name)
  /\ \/ Passes(p, name) /\ UNCHANGED configured
     \/ name \in Configurable /\ Passes(p, name) /\ Configures(name)
     \/ /\ name \in Configurable /\ Goto(p, "unwind")
        /\ Configures(name) \/ UNCHANGED configured
  /\ UNCHANGED <<here, listed, main, marks, starts>>

ComponentsDone(p) ==
  /\ At(p, "seeding") \/ At(p, "asking")
  /\ init[p].todo = {}
  /\ Advance(p)
  /\ UNCHANGED <<files, main, marks, starts>>

-----------------------------------------------------------------------------
(* auto_core.exe.                                                          *)

(* main() holds the instance mutex; the sentinel decides whether this is   *)
(* the first run.                                                          *)
StartMain ==
  /\ main = "off" /\ ~Going(Main)
  /\ starts < MaxStarts /\ starts' = starts + 1
  /\ IF Sentinel \in here
     THEN /\ main' = "prepare"
          /\ apart' = (apart /\ ~Going(Hand))
          /\ UNCHANGED init
     ELSE main' = "waiting" /\ Starts(Main, "interactive")
  /\ UNCHANGED <<files, torn, faults>>

(* Mutant of Initialized: the code of the initialiser is not looked at, it *)
(* waits for the file.                                                     *)
InitializedByFile ==
  /\ main = "waiting" /\ ~Going(Main) /\ Sentinel \in here
  /\ main' = "first"
  /\ UNCHANGED <<files, init, marks, starts>>

(* ensure_auto_core_initialized wants the code 0 and the file.             *)
Initialized ==
  /\ main = "waiting" /\ ~Going(Main)
  /\ main' = IF init[Main].code = 0 /\ Sentinel \in here
             THEN "first" ELSE "off"
  /\ UNCHANGED <<files, init, marks, starts>>

(* prepare_logging: only a first run needs logging_policy.ini.             *)
PrepareLogging ==
  /\ main \in {"prepare", "first"}
  /\ main' = IF main = "first" /\ Policy \notin here THEN "off" ELSE "up"
  /\ UNCHANGED <<files, init, marks, starts>>

EndMain ==
  /\ main = "up"
  /\ main' = "off"
  /\ UNCHANGED <<files, init, marks, starts>>

(* The console is closed: no destructor runs.  Main's console is that of   *)
(* its initialiser.                                                        *)
Close(p) ==
  /\ Going(p) \/ (p = Main /\ main # "off")
  /\ Fault
  /\ init' = IF Going(p) THEN [init EXCEPT ![p] = Ended(p, 1)] ELSE init
  /\ main' = IF p = Main THEN "off" ELSE main
  /\ torn' = (torn \/ (Going(p) /\ init[p].armed))
  /\ UNCHANGED <<files, apart, starts>>

InitSteps(p) ==
  \/ Logging(p) \/ Choose(p) \/ Guard(p) \/ RunOwner(p) \/ AskComponents(p)
  \/ RunEditor(p) \/ Finish(p) \/ Unwind(p) \/ ComponentsDone(p)
  \/ \E name \in Components : SeedComponent(p, name) \/ AskComponent(p, name)
MainSteps == Initialized \/ PrepareLogging

Next ==
  \/ StartMain \/ MainSteps \/ EndMain
  \/ \E mode \in Modes : ByHand(mode)
  \/ \E p \in Inits : InitSteps(p) \/ Close(p)

(* Programs run on, and a user who is asked answers or ends the input.     *)
Spec == Init /\ [][Next]_vars
          /\ WF_vars(MainSteps) /\ \A p \in Inits : WF_vars(InitSteps(p))

-----------------------------------------------------------------------------
TypeOK ==
  /\ here \subseteq Required
  /\ configured \subseteq Configurable
  /\ listed \subseteq Components
  /\ main \in {"off", "waiting", "prepare", "first", "up"}
  /\ \A p \in Inits : init[p].at \in 1..(Len(Steps) + 1)
  /\ \A p \in Inits : init[p].todo \subseteq Components

(* Main comes up only with every file of the sequence in place, whatever   *)
(* failed or was cancelled in earlier attempts, as long as no two runs     *)
(* overlapped and none was ended before it removed its sentinel.           *)
UpIsComplete == (apart /\ ~torn /\ main = "up") => Required \subseteq here

(* A run that creates components.list lists every component configured by  *)
(* then, so that none that was just set up stays off.                      *)
ListCovers ==
  \A p \in Inits :
    (apart /\ At(p, "step") /\ ~Due(p) /\ ~init[p].hadList) =>
      configured \subseteq listed

(* Main does not wait for ever: the first run ends with Main up or out.    *)
FirstRunEnds == main = "waiting" ~> main \in {"up", "off"}

=============================================================================
