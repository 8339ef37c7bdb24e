--------------------------- MODULE FirstRunProofs ---------------------------
(***************************************************************************)
(* Main comes up only on a complete set of files, for any set of           *)
(* components and any number of starts and faults.  The files are complete *)
(* either for good (Safe) or a run that will remove the sentinel is going  *)
(* on; the step from one to the other is Finish, where the files of the    *)
(* steps already made (Built) are all there are.                           *)
(*                                                                         *)
(* The second part is about the programs a first run starts, the owners of *)
(* the files: that they keep the contract it relies on, what a launch that *)
(* ends with 0 has left, and that a stored setting stays.                  *)
(*                                                                         *)
(* The third part is about components.list: what an edit of one line       *)
(* changes of what is read of the list, and that the user's choices stay.  *)
(***************************************************************************)
EXTENDS FirstRun, ConfigOwner, ComponentsList, WellFoundedInduction,
        FiniteSetTheorems, TLAPS

InitState == [pc : {"off", "logging", "menu", "guard", "step", "seeding",
                    "asking", "unwind", "ended"},
              mode : Modes, at : 1..10, armed : BOOLEAN, asks : BOOLEAN,
              todo : SUBSET Components, hadList : BOOLEAN, code : {0, 1}]
Working(p) == init[p].pc \in {"step", "seeding", "asking"}

Types ==
  /\ init \in [Inits -> InitState]
  /\ main \in {"off", "waiting", "prepare", "first", "up"}
  /\ apart \in BOOLEAN /\ torn \in BOOLEAN /\ faults \in Nat

(* Runs that never overlapped are going on one at a time.                  *)
Exclusive ==
  apart => \A p, q \in Inits : (Going(p) /\ Going(q)) => p = q

PolicyFirst ==
  \A p \in Inits : (Working(p) \/ init[p].pc \in {"menu", "guard"}) =>
                     Policy \in here
Places ==
  /\ \A p \in Inits : init[p].pc \in {"logging", "menu", "guard"} =>
                       init[p].at = 1 /\ ~init[p].armed
  /\ \A p \in Inits : init[p].pc \in {"seeding", "asking"} =>
                       init[p].at \in 1..9 /\ Step(p) = "components"
Built ==
  apart => \A p \in Inits : Working(p) =>
    \A n \in 1..(init[p].at - 1) : Steps[n] # "components" => Steps[n] \in here
GuardedRuns ==
  (apart /\ ~torn) => \A p \in Inits : Working(p) =>
    (init[p].armed \/ Sentinel \in here)

(* The complete set of files, and nobody about to remove one.              *)
Safe == Required \subseteq here /\ \A p \in Inits : Going(p) => ~init[p].armed
Alone ==
  (apart /\ ~torn /\ Sentinel \in here) =>
    (Safe \/ \E p \in Inits : Going(p) /\ init[p].armed)
Waited ==
  (main = "waiting") =>
    /\ init[Main].pc # "off"
    /\ (apart /\ ~torn /\ init[Main].pc = "ended" /\ init[Main].code = 0) =>
         Safe
Standing == (apart /\ ~torn /\ main \in {"prepare", "first", "up"}) => Safe

IInv == /\ Types /\ Exclusive /\ PolicyFirst /\ Places /\ Built
        /\ GuardedRuns /\ Alone /\ Waited /\ Standing

-----------------------------------------------------------------------------
LEMMA StepsFacts ==
  /\ Len(Steps) = 9 /\ DOMAIN Steps = 1..9
  /\ Steps[7] = "components"
  /\ Sentinel # Policy /\ Sentinel # "list" /\ Sentinel # "components"
  /\ Sentinel \in Required
<1>1. Steps[1] = "auto_core" BY DEF Steps
<1>2. 1 \in DOMAIN Steps BY DEF Steps
<1> QED BY <1>1 DEF Steps, Sentinel, Policy, Required

(* The files of the nine steps and the logging policy are all there are.   *)
LEMMA AllBuilt ==
  ASSUME \A n \in 1..9 : Steps[n] # "components" => Steps[n] \in here,
         Policy \in here
  PROVE  Required \subseteq here
<1> SUFFICES ASSUME NEW f \in Required PROVE f \in here
  OBVIOUS
<1>1. CASE f = Policy
  BY <1>1
<1>2. CASE f # Policy
  <2>1. PICK n \in DOMAIN Steps : Steps[n] = f /\ f # "components"
    BY <1>2 DEF Required
  <2> QED BY <2>1, StepsFacts
<1> QED BY <1>1, <1>2

(* Run p ends up as r.                                                     *)
Becomes(p, r) ==
  /\ init' \in [Inits -> InitState] /\ init'[p] = r
  /\ \A q \in Inits : q # p => init'[q] = init[q]

LEMMA SetFacts ==
  ASSUME Types, NEW p \in Inits, NEW r \in InitState, Set(p, r)
  PROVE  Becomes(p, r)
BY DEF Types, Set, Becomes

LEMMA PcFacts ==
  ASSUME NEW r \in InitState,
         NEW pc \in {"menu", "guard", "step", "seeding", "asking", "unwind"}
  PROVE  /\ [r EXCEPT !.pc = pc] \in InitState
         /\ [r EXCEPT !.pc = pc].pc = pc
         /\ [r EXCEPT !.pc = pc].armed = r.armed
         /\ [r EXCEPT !.pc = pc].at = r.at
BY DEF InitState

LEMMA OnFacts ==
  ASSUME NEW r \in InitState, r.at \in 1..9
  PROVE  LET on == [r EXCEPT !.pc = "step", !.at = @ + 1]
         IN  on \in InitState /\ on.pc = "step" /\ on.armed = r.armed
             /\ on.at = r.at + 1
<1>1. r.at + 1 \in 1..10
  OBVIOUS
<1> QED BY <1>1 DEF InitState

LEMMA TodoFacts ==
  ASSUME NEW r \in InitState, NEW todo \in SUBSET Components
  PROVE  /\ [r EXCEPT !.todo = todo] \in InitState
         /\ [r EXCEPT !.todo = todo].pc = r.pc
         /\ [r EXCEPT !.todo = todo].armed = r.armed
         /\ [r EXCEPT !.todo = todo].at = r.at
BY DEF InitState

LEMMA ConfigureFacts ==
  ASSUME NEW r \in InitState, NEW pc \in {"seeding", "asking"}
  PROVE  LET to == [r EXCEPT !.pc = pc, !.todo = Components]
         IN  to \in InitState /\ to.pc = pc /\ to.armed = r.armed
             /\ to.at = r.at
BY DEF InitState

LEMMA EndedFacts ==
  ASSUME Types, NEW p \in Inits, NEW code \in {0, 1}
  PROVE  /\ Ended(p, code) \in InitState /\ Ended(p, code).pc = "ended"
         /\ Ended(p, code).code = code
BY DEF Types, InitState, Ended

LEMMA StartFacts ==
  ASSUME NEW mode \in Modes, NEW had \in BOOLEAN
  PROVE  LET to == [Off EXCEPT !.pc = "logging", !.mode = mode, !.hadList = had]
         IN  to \in InitState /\ to.pc = "logging" /\ to.armed = FALSE
             /\ to.at = 1
<1>1. Off \in InitState /\ Off.armed = FALSE /\ Off.at = 1
  BY DEF InitState, Off, Modes
<1> QED BY <1>1 DEF InitState

(* A step of run p on its way to r: it removes no file and does not touch  *)
(* the guard.                                                              *)
Movement(p, r) ==
  /\ Becomes(p, r) /\ Going(p)
  /\ r.pc \notin {"off", "ended"} /\ r.armed = init[p].armed
  /\ here \subseteq here' /\ UNCHANGED <<main, apart, torn, faults>>
  /\ Sentinel \in here' => (Sentinel \in here \/ Working(p))
  /\ r.pc \in {"menu", "guard", "step", "seeding", "asking"} => Policy \in here'
  /\ r.pc \in {"logging", "menu", "guard"} => r.at = 1 /\ ~r.armed
  /\ r.pc \in {"seeding", "asking"} =>
       r.at \in 1..9 /\ Steps[r.at] = "components"
  /\ r.pc \in {"step", "seeding", "asking"} =>
       /\ Working(p)
       /\ r.at # init[p].at =>
            /\ r.at = init[p].at + 1
            /\ Step(p) # "components" => Step(p) \in here'

LEMMA MoveKeeps ==
  ASSUME IInv, NEW p \in Inits, NEW r, Movement(p, r)
  PROVE  IInv'
<1> USE DEF IInv, Becomes, Movement, Going, Working, InitState, Step
<1>1. Types'
  BY DEF Types
<1>2. Exclusive'
  BY <1>1 DEF Exclusive
<1>3. PolicyFirst'
  BY <1>1 DEF PolicyFirst
<1>4. Places'
  BY <1>1 DEF Places
<1>5. Built'
  BY <1>1 DEF Built, Types
<1>6. GuardedRuns'
  BY <1>1 DEF GuardedRuns
<1>7. Safe => Safe'
  BY DEF Safe
<1>8. Alone'
  BY <1>1, <1>7 DEF Alone, GuardedRuns
<1>9. Waited'
  BY <1>7 DEF Waited, Inits
<1>10. Standing'
  BY <1>7 DEF Standing
<1> QED BY <1>1, <1>2, <1>3, <1>4, <1>5, <1>6, <1>8, <1>9, <1>10

-----------------------------------------------------------------------------
(* A run gives up: a failing owner, or the end of the input.               *)
LEMMA GivingUpKeeps ==
  ASSUME IInv, NEW p \in Inits, Going(p), Goto(p, "unwind"),
         here \subseteq here', UNCHANGED <<main, apart, torn, faults>>,
         Sentinel \in here' => (Sentinel \in here \/ Working(p))
  PROVE  IInv'
<1> DEFINE out == [init[p] EXCEPT !.pc = "unwind"]
<1>1. Types /\ init[p] \in InitState
  BY DEF IInv, Types
<1>2. /\ out \in InitState /\ out.pc = "unwind"
      /\ out.armed = init[p].armed /\ out.at = init[p].at
  BY <1>1, PcFacts
<1>3. Set(p, out)
  BY DEF Goto
<1> HIDE DEF out
<1>4. Movement(p, out)
  BY <1>1, <1>2, <1>3, SetFacts DEF Movement
<1> QED BY <1>4, MoveKeeps

(* A run goes on to the next step, its file in place.                      *)
LEMMA AdvanceKeeps ==
  ASSUME IInv, NEW p \in Inits, Working(p), init[p].at \in 1..9, Advance(p),
         here \subseteq here', UNCHANGED <<main, apart, torn, faults>>,
         Step(p) # "components" => Step(p) \in here'
  PROVE  IInv'
<1> DEFINE on == Advanced(p)
<1>1. Types /\ init[p] \in InitState
  BY DEF IInv, Types
<1>2. /\ on \in InitState /\ on.pc = "step"
      /\ on.armed = init[p].armed /\ on.at = init[p].at + 1
  BY <1>1, OnFacts DEF Advanced
<1>3. Set(p, on)
  BY DEF Advance
<1>4. Policy \in here
  BY DEF Working, IInv, PolicyFirst
<1> HIDE DEF on
<1>5. Going(p)
  BY DEF Working, Going
<1>6. Movement(p, on)
  BY <1>1, <1>2, <1>3, <1>4, <1>5, SetFacts DEF Movement
<1> QED BY <1>6, MoveKeeps

LEMMA DueFacts ==
  ASSUME IInv, NEW p \in Inits, Due(p)
  PROVE  Working(p) /\ Going(p) /\ init[p].at \in 1..9 /\ Policy \in here
<1>1. init[p] \in InitState
  BY DEF IInv, Types
<1> QED BY <1>1, StepsFacts
        DEF Due, At, Working, Going, InitState, IInv, PolicyFirst

LEMMA LoggingKeeps ==
  ASSUME IInv, NEW p \in Inits, Logging(p)
  PROVE  IInv'
<1> DEFINE menu == [init[p] EXCEPT !.pc = "menu"]
<1>1. /\ Types /\ init[p] \in InitState /\ Going(p)
      /\ init[p].at = 1 /\ ~init[p].armed
  BY DEF IInv, Types, Logging, At, Going, Places
<1>2. UNCHANGED <<main, apart, torn, faults>>
  BY DEF Logging, marks
<1>3. \/ Set(p, menu) /\ here' = here \cup {Policy}
      \/ Goto(p, "unwind") /\ here' \in {here, here \cup {Policy}}
  BY DEF Logging, OwnerEnds
<1>4. CASE Set(p, menu) /\ here' = here \cup {Policy}
  <2>1. /\ menu \in InitState /\ menu.pc = "menu"
        /\ menu.armed = init[p].armed /\ menu.at = init[p].at
    BY <1>1, PcFacts
  <2> HIDE DEF menu
  <2>2. Movement(p, menu)
    BY <1>1, <1>2, <1>4, <2>1, SetFacts, StepsFacts DEF Movement
  <2> QED BY <2>2, MoveKeeps
<1>5. CASE Goto(p, "unwind") /\ here' \in {here, here \cup {Policy}}
  BY <1>1, <1>2, <1>5, GivingUpKeeps, StepsFacts
<1> QED BY <1>3, <1>4, <1>5

LEMMA RunOwnerKeeps ==
  ASSUME IInv, NEW p \in Inits, RunOwner(p)
  PROVE  IInv'
<1>1. Working(p) /\ Going(p) /\ init[p].at \in 1..9
  BY DueFacts DEF RunOwner
<1>2. UNCHANGED <<main, apart, torn, faults>>
  BY DEF RunOwner, marks
<1>3. \/ Advance(p) /\ here' = here \cup {Step(p)}
      \/ Goto(p, "unwind") /\ here' \in {here, here \cup {Step(p)}}
  BY DEF RunOwner, OwnerEnds, Advance
<1>4. CASE Advance(p) /\ here' = here \cup {Step(p)}
  BY <1>1, <1>2, <1>4, AdvanceKeeps
<1>5. CASE Goto(p, "unwind") /\ here' \in {here, here \cup {Step(p)}}
  BY <1>1, <1>2, <1>5, GivingUpKeeps
<1> QED BY <1>3, <1>4, <1>5

LEMMA AskComponentsKeeps ==
  ASSUME IInv, NEW p \in Inits, AskComponents(p)
  PROVE  IInv'
<1>1. Types /\ init[p] \in InitState
  BY DEF IInv, Types
<1>2. /\ Working(p) /\ Going(p) /\ init[p].at \in 1..9 /\ Policy \in here
      /\ Step(p) = "components"
  BY DueFacts DEF AskComponents
<1>3. UNCHANGED <<here, main, apart, torn, faults>>
  BY DEF AskComponents, files, marks
<1>4. CASE Advance(p)
  BY <1>2, <1>3, <1>4, AdvanceKeeps
<1>5. CASE Goto(p, "unwind")
  BY <1>2, <1>3, <1>5, GivingUpKeeps
<1>6. ASSUME NEW pc \in {"seeding", "asking"},
             Set(p, [init[p] EXCEPT !.pc = pc, !.todo = Components])
      PROVE  IInv'
  <2> DEFINE r == [init[p] EXCEPT !.pc = pc, !.todo = Components]
  <2>1. /\ r \in InitState /\ r.pc = pc
        /\ r.armed = init[p].armed /\ r.at = init[p].at
    BY <1>1, ConfigureFacts
  <2>2. Set(p, r)
    BY <1>6
  <2> HIDE DEF r
  <2>3. Movement(p, r)
    BY <1>1, <1>2, <1>3, <2>1, <2>2, SetFacts DEF Movement, Step
  <2> QED BY <2>3, MoveKeeps
<1> QED BY <1>4, <1>5, <1>6 DEF AskComponents

LEMMA RunEditorKeeps ==
  ASSUME IInv, NEW p \in Inits, RunEditor(p)
  PROVE  IInv'
<1>1. /\ Working(p) /\ Going(p) /\ init[p].at \in 1..9
      /\ Step(p) = "list"
  BY DueFacts DEF RunEditor
<1>2. UNCHANGED <<main, apart, torn, faults>>
  BY DEF RunEditor, marks
<1>3. \/ Advance(p) /\ "list" \in here' /\ here \subseteq here'
      \/ Goto(p, "unwind") /\ here' = here
  BY DEF RunEditor
<1>4. CASE Advance(p) /\ "list" \in here' /\ here \subseteq here'
  BY <1>1, <1>2, <1>4, AdvanceKeeps
<1>5. CASE Goto(p, "unwind") /\ here' = here
  BY <1>1, <1>2, <1>5, GivingUpKeeps
<1> QED BY <1>3, <1>4, <1>5

LEMMA ConfiguringFacts ==
  ASSUME IInv, NEW p \in Inits, At(p, "seeding") \/ At(p, "asking")
  PROVE  /\ Working(p) /\ Going(p) /\ init[p].at \in 1..9
         /\ init[p].pc \in {"seeding", "asking"}
         /\ Policy \in here /\ Step(p) = "components"
BY DEF At, Working, Going, IInv, PolicyFirst, Places

LEMMA ComponentsDoneKeeps ==
  ASSUME IInv, NEW p \in Inits, ComponentsDone(p)
  PROVE  IInv'
<1>1. /\ Working(p) /\ init[p].at \in 1..9 /\ Step(p) = "components"
  BY ConfiguringFacts DEF ComponentsDone
<1>2. Advance(p) /\ UNCHANGED <<here, main, apart, torn, faults>>
  BY DEF ComponentsDone, files, marks
<1> QED BY <1>1, <1>2, AdvanceKeeps

LEMMA ConfiguringKeeps ==
  ASSUME IInv, NEW p \in Inits, NEW name \in Components,
         SeedComponent(p, name) \/ AskComponent(p, name)
  PROVE  IInv'
<1> DEFINE r == [init[p] EXCEPT !.todo = init[p].todo \ {name}]
<1>1. /\ Types /\ init[p] \in InitState
      /\ init[p].todo \ {name} \in SUBSET Components
  BY DEF IInv, Types, InitState
<1>2. /\ Working(p) /\ Going(p) /\ init[p].at \in 1..9 /\ Policy \in here
      /\ init[p].pc \in {"seeding", "asking"} /\ Step(p) = "components"
  BY ConfiguringFacts DEF SeedComponent, AskComponent
<1>3. UNCHANGED <<here, main, apart, torn, faults>>
  BY DEF SeedComponent, AskComponent, marks
<1>4. CASE Set(p, r)
  <2>1. /\ r \in InitState /\ r.pc = init[p].pc
        /\ r.armed = init[p].armed /\ r.at = init[p].at
    BY <1>1, TodoFacts
  <2> HIDE DEF r
  <2>2. Movement(p, r)
    BY <1>1, <1>2, <1>3, <1>4, <2>1, SetFacts DEF Movement, Going, Step
  <2> QED BY <2>2, MoveKeeps
<1>5. CASE Goto(p, "unwind")
  BY <1>2, <1>3, <1>5, GivingUpKeeps
<1> QED BY <1>4, <1>5 DEF SeedComponent, AskComponent, Passes

LEMMA ChooseKeeps ==
  ASSUME IInv, NEW p \in Inits, Choose(p)
  PROVE  IInv'
<1> DEFINE asks == init[p].asks \/ init[p].mode # "seed"
           r == [init[p] EXCEPT !.pc = "guard", !.asks = asks]
<1>1. /\ Types /\ init[p] \in InitState /\ Going(p) /\ Policy \in here
      /\ init[p].at = 1 /\ ~init[p].armed
  BY DEF IInv, Types, Choose, At, Going, PolicyFirst, Places
<1>2. UNCHANGED <<here, main, apart, torn, faults>>
  BY DEF Choose, files, marks
<1>3. CASE Set(p, r)
  <2>1. asks \in BOOLEAN
    OBVIOUS
  <2> HIDE DEF asks
  <2>2. /\ r \in InitState /\ r.pc = "guard"
        /\ r.armed = init[p].armed /\ r.at = init[p].at
    BY <1>1, <2>1 DEF InitState
  <2> HIDE DEF r
  <2>3. Movement(p, r)
    BY <1>1, <1>2, <1>3, <2>2, SetFacts DEF Movement
  <2> QED BY <2>3, MoveKeeps
<1>4. CASE Goto(p, "unwind")
  BY <1>1, <1>2, <1>4, GivingUpKeeps
<1> QED BY <1>3, <1>4 DEF Choose

-----------------------------------------------------------------------------
(* The other steps.                                                        *)

(* The guard is armed, or the run that could not look is torn.             *)
LEMMA GuardKeeps ==
  ASSUME IInv, NEW p \in Inits, Guard(p)
  PROVE  IInv'
<1>1. /\ Types /\ init[p] \in InitState /\ Going(p) /\ Policy \in here
      /\ init[p].at = 1 /\ ~init[p].armed
  BY DEF IInv, Types, Guard, At, Going, PolicyFirst, Places
<1>2. UNCHANGED <<here, main, apart>> /\ faults' \in Nat
  BY DEF Guard, files, IInv, Types, Fault, NoFault
<1>3. PICK r \in InitState :
         /\ Set(p, r) /\ r.pc = "step" /\ r.at = 1
         /\ r.armed => Sentinel \notin here
         /\ torn' \in BOOLEAN
         /\ ~torn' => ~torn /\ (r.armed \/ Sentinel \in here)
  <2> DEFINE looked == [init[p] EXCEPT !.pc = "step",
                                       !.armed = Sentinel \notin here]
             blind == [init[p] EXCEPT !.pc = "step"]
  <2>1. CASE Set(p, looked) /\ NoFault
    <3>1. looked \in InitState /\ looked.pc = "step" /\ looked.at = 1
          /\ looked.armed = (Sentinel \notin here)
      BY <1>1 DEF InitState
    <3>2. torn' \in BOOLEAN /\ (~torn' => ~torn)
      BY <2>1 DEF Guard, NoFault, IInv, Types
    <3> HIDE DEF looked
    <3> QED BY <2>1, <3>1, <3>2
  <2>2. CASE Goto(p, "step") /\ Fault
    <3>1. /\ blind \in InitState /\ blind.pc = "step" /\ blind.at = 1
          /\ blind.armed = init[p].armed
      BY <1>1, PcFacts
    <3>2. torn' \in BOOLEAN /\ (~torn' => ~torn /\ Sentinel \in here)
      <4>1. faults' # faults
        BY <2>2 DEF Fault, IInv, Types
      <4> QED BY <4>1 DEF Guard, IInv, Types
    <3>3. Set(p, blind) /\ ~blind.armed
      BY <1>1, <2>2, <3>1 DEF Goto
    <3> HIDE DEF blind
    <3> QED BY <3>1, <3>2, <3>3
  <2> QED BY <2>1, <2>2 DEF Guard
<1>4. Becomes(p, r)
  BY <1>1, <1>3, SetFacts
<1> USE <1>1, <1>2, <1>3, <1>4 DEF Becomes, Going, Working
<1>5. Types' /\ Exclusive' /\ PolicyFirst' /\ Places'
  BY DEF IInv, Types, Exclusive, PolicyFirst, Places, Step
<1>6. Built' /\ GuardedRuns'
  BY DEF IInv, Built, GuardedRuns
<1>7. Safe => Safe'
  BY StepsFacts DEF Safe
<1>8. Alone'
  BY <1>7 DEF IInv, Alone
<1>9. Waited'
  BY <1>7 DEF IInv, Waited, Inits
<1>10. Standing'
  BY <1>7 DEF IInv, Standing
<1> QED BY <1>5, <1>6, <1>8, <1>9, <1>10 DEF IInv

(* A run starts: alone, or apart is over.                                  *)
LEMMA StartsKeeps ==
  ASSUME IInv, NEW p \in Inits, NEW mode \in Modes, ~Going(p), Starts(p, mode),
         UNCHANGED <<here, torn, faults>>,
         (p = Hand /\ UNCHANGED main) \/ (p = Main /\ main' = "waiting")
  PROVE  IInv'
<1> DEFINE had == "list" \in here
           r == [Off EXCEPT !.pc = "logging", !.mode = mode, !.hadList = had]
<1>1. r \in InitState /\ r.pc = "logging" /\ ~r.armed /\ r.at = 1
  <2>1. had \in BOOLEAN
    OBVIOUS
  <2> HIDE DEF had
  <2> QED BY <2>1, StartFacts
<1>2. Set(p, r)
  BY DEF Starts
<1> HIDE DEF r
<1>3. Becomes(p, r)
  BY <1>1, <1>2, SetFacts DEF IInv
<1>4. apart' \in BOOLEAN /\ (apart' => apart /\ \A q \in Inits : ~Going(q))
  BY DEF Starts, IInv, Types
<1> USE <1>1, <1>3, <1>4 DEF Becomes, Going, Working
<1>5. Types' /\ Exclusive' /\ PolicyFirst' /\ Places'
  BY DEF IInv, Types, Exclusive, PolicyFirst, Places, Step
<1>6. Built' /\ GuardedRuns'
  BY DEF IInv, Built, GuardedRuns
<1>7. Safe => Safe'
  BY DEF Safe
<1>8. Alone'
  BY <1>7 DEF IInv, Alone
<1>9. Waited'
  BY <1>7, FirstRunAssumption DEF IInv, Waited, Inits
<1>10. Standing'
  BY <1>7 DEF IInv, Standing
<1> QED BY <1>5, <1>6, <1>8, <1>9, <1>10 DEF IInv

LEMMA FinishKeeps ==
  ASSUME IInv, NEW p \in Inits, Finish(p)
  PROVE  IInv'
<1> DEFINE r == Ended(p, 0)
<1>1. Types /\ Going(p) /\ Working(p) /\ init[p].at = 10
  BY StepsFacts DEF IInv, Types, InitState, Finish, At, Going, Working
<1>2. UNCHANGED <<here, main, apart, torn, faults>>
  BY DEF Finish, files, marks
<1>3. r \in InitState /\ r.pc = "ended" /\ r.code = 0
  BY <1>1, EndedFacts
<1>4. Becomes(p, r)
  BY <1>1, <1>3, SetFacts DEF Finish, Ends
<1> HIDE DEF r
<1> USE <1>2, <1>3, <1>4 DEF Becomes, Going, Working
<1>5. Types' /\ Exclusive' /\ PolicyFirst' /\ Places'
  BY DEF IInv, Types, Exclusive, PolicyFirst, Places, Step
<1>6. Built' /\ GuardedRuns'
  BY DEF IInv, Built, GuardedRuns
<1>7. Safe => Safe'
  BY DEF Safe
<1>8. apart => Safe'
  <2> SUFFICES ASSUME apart PROVE Safe'
    OBVIOUS
  <2>1. Required \subseteq here
    BY <1>1, AllBuilt DEF IInv, Built, PolicyFirst
  <2>2. \A q \in Inits : ~Going(q)'
    BY <1>1 DEF IInv, Exclusive
  <2> QED BY <2>1, <2>2 DEF Safe
<1>9. Alone'
  BY <1>8 DEF Alone
<1>10. Waited'
  BY <1>7, <1>8 DEF IInv, Waited, Inits
<1>11. Standing'
  BY <1>7 DEF IInv, Standing
<1> QED BY <1>5, <1>6, <1>9, <1>10, <1>11 DEF IInv

(* A run that ends without success takes the sentinel with it, or is torn. *)
LEMMA EndsKeeps ==
  ASSUME IInv, NEW p \in Inits, Going(p), Becomes(p, Ended(p, 1)),
         UNCHANGED apart, torn' \in BOOLEAN, torn => torn', faults' \in Nat,
         here' = here \/ (init[p].armed /\ here' = here \ {Sentinel}),
         (init[p].armed /\ Sentinel \in here') => torn',
         UNCHANGED main \/ (p = Main /\ main' = "off")
  PROVE  IInv'
<1> DEFINE r == Ended(p, 1)
<1>1. r \in InitState /\ r.pc = "ended" /\ r.code = 1
  BY EndedFacts DEF IInv
<1> HIDE DEF r
<1>2. Becomes(p, r)
  BY DEF r
<1> USE <1>1, <1>2 DEF Becomes, Going, Working
<1>3. Policy \in here => Policy \in here'
  BY StepsFacts
<1>4. Types' /\ Exclusive' /\ PolicyFirst' /\ Places'
  BY <1>3 DEF IInv, Types, Exclusive, PolicyFirst, Places, Step
<1>5. apart => \A q \in Inits : ~Going(q)'
  BY DEF IInv, Exclusive
<1>6. Built' /\ GuardedRuns'
  BY <1>5 DEF Built, GuardedRuns
<1>7. Safe => Safe'
  BY DEF Safe
<1>8. Alone'
  BY <1>7 DEF IInv, Alone, Exclusive
<1>9. Waited'
  BY <1>7 DEF IInv, Waited, Inits
<1>10. Standing'
  BY <1>7 DEF IInv, Standing
<1> QED BY <1>4, <1>6, <1>8, <1>9, <1>10 DEF IInv

LEMMA UnwindKeeps ==
  ASSUME IInv, NEW p \in Inits, Unwind(p)
  PROVE  IInv'
<1>1. Going(p) /\ UNCHANGED <<main, apart>>
  BY DEF Unwind, At, Going
<1>2. Becomes(p, Ended(p, 1))
  BY EndedFacts, SetFacts DEF IInv, Unwind, Ends
<1>3. torn' \in BOOLEAN /\ (torn => torn') /\ faults' \in Nat
  BY DEF IInv, Types, Unwind, Fault, NoFault
<1>4. here' = here \/ (init[p].armed /\ here' = here \ {Sentinel})
  BY DEF Unwind
<1>5. (init[p].armed /\ Sentinel \in here') => torn'
  <2> SUFFICES ASSUME init[p].armed, Sentinel \in here' PROVE torn'
    OBVIOUS
  <2>1. Fault
    BY DEF Unwind
  <2>2. faults' # faults
    BY <2>1 DEF Fault, IInv, Types
  <2> QED BY <2>2 DEF Unwind
<1> QED BY <1>1, <1>2, <1>3, <1>4, <1>5, EndsKeeps

(* Main moves, and nothing else.                                           *)
LEMMA MainMovesKeeps ==
  ASSUME IInv, UNCHANGED <<here, init, torn>>, faults' \in Nat,
         apart' \in BOOLEAN, apart' => apart,
         main' \in {"off", "prepare", "first", "up"},
         (main' # "off" /\ apart' /\ ~torn) => Safe
  PROVE  IInv'
<1> USE DEF Going, Working
<1>1. Types' /\ Exclusive' /\ PolicyFirst' /\ Places' /\ Built' /\ GuardedRuns'
  BY DEF IInv, Types, Exclusive, PolicyFirst, Places, Step, Built, GuardedRuns
<1>2. (Safe <=> Safe') /\ Alone'
  BY DEF IInv, Safe, Alone
<1>3. Waited' /\ Standing'
  BY <1>2 DEF Waited, Standing
<1> QED BY <1>1, <1>2, <1>3 DEF IInv

LEMMA CloseKeeps ==
  ASSUME IInv, NEW p \in Inits, Close(p)
  PROVE  IInv'
<1>1. CASE Going(p)
  <2>1. Becomes(p, Ended(p, 1))
    BY <1>1, EndedFacts, SetFacts DEF IInv, Close, Set
  <2>2. torn' \in BOOLEAN /\ (torn => torn') /\ faults' \in Nat
    BY DEF IInv, Types, Close, Fault
  <2>3. UNCHANGED <<here, apart>> /\ (init[p].armed => torn')
    BY <1>1 DEF Close, files
  <2>4. UNCHANGED main \/ (p = Main /\ main' = "off")
    BY DEF Close
  <2> QED BY <1>1, <2>1, <2>2, <2>3, <2>4, EndsKeeps
<1>2. CASE ~Going(p)
  <2>1. /\ UNCHANGED <<here, init, apart, torn>> /\ faults' \in Nat
        /\ apart' \in BOOLEAN /\ main' = "off"
    BY <1>2 DEF Close, files, Fault, IInv, Types
  <2> QED BY <2>1, MainMovesKeeps
<1> QED BY <1>1, <1>2

LEMMA ByHandKeeps ==
  ASSUME IInv, NEW mode \in Modes, ByHand(mode)
  PROVE  IInv'
<1>1. /\ Hand \in Inits /\ ~Going(Hand) /\ Starts(Hand, mode)
      /\ UNCHANGED <<here, torn, faults, main>>
  BY DEF ByHand, files, Inits
<1> QED BY <1>1, StartsKeeps

LEMMA StartMainKeeps ==
  ASSUME IInv, StartMain
  PROVE  IInv'
<1>1. UNCHANGED <<here, torn, faults>> /\ ~Going(Main) /\ Main \in Inits
  BY DEF StartMain, files, Inits
<1>2. CASE Sentinel \in here
  <2>1. /\ UNCHANGED init /\ main' = "prepare" /\ faults' \in Nat
        /\ apart' \in BOOLEAN /\ (apart' => apart /\ ~Going(Hand))
    BY <1>1, <1>2 DEF StartMain, IInv, Types
  <2>2. (apart' /\ ~torn) => Safe
    BY <1>1, <1>2, <2>1 DEF IInv, Alone, Inits
  <2> QED BY <1>1, <2>1, <2>2, MainMovesKeeps
<1>3. CASE Sentinel \notin here
  <2>1. /\ Starts(Main, "interactive") /\ main' = "waiting"
        /\ "interactive" \in Modes
    BY <1>3 DEF StartMain, Modes
  <2> QED BY <1>1, <2>1, StartsKeeps
<1> QED BY <1>2, <1>3

LEMMA MainKeeps ==
  ASSUME IInv, Initialized \/ PrepareLogging \/ EndMain
  PROVE  IInv'
<1>1. UNCHANGED <<here, init, apart, torn, faults>>
  BY DEF Initialized, PrepareLogging, EndMain, files, marks
<1>2. /\ main' \in {"off", "first", "up"} /\ faults' \in Nat
      /\ apart' \in BOOLEAN
  BY <1>1 DEF Initialized, PrepareLogging, EndMain, IInv, Types
<1>3. CASE Initialized
  <2>1. main' # "off" => (main = "waiting" /\ init[Main].pc = "ended"
                           /\ init[Main].code = 0)
    BY <1>3 DEF Initialized, Going, IInv, Waited
  <2>2. (main' # "off" /\ apart /\ ~torn) => Safe
    BY <2>1 DEF IInv, Waited
  <2> QED BY <1>1, <1>2, <2>2, MainMovesKeeps
<1>4. CASE PrepareLogging \/ EndMain
  <2>1. (main' # "off" /\ apart /\ ~torn) => Safe
    BY <1>4 DEF PrepareLogging, EndMain, IInv, Standing
  <2> QED BY <1>1, <1>2, <2>1, MainMovesKeeps
<1> QED BY <1>3, <1>4

-----------------------------------------------------------------------------
LEMMA StepKeeps ==
  ASSUME IInv, [Next]_vars
  PROVE  IInv'
<1>1. CASE StartMain
  BY <1>1, StartMainKeeps
<1>2. CASE MainSteps \/ EndMain
  BY <1>2, MainKeeps DEF MainSteps
<1>3. CASE \E mode \in Modes : ByHand(mode)
  BY <1>3, ByHandKeeps
<1>4. CASE \E p \in Inits : InitSteps(p) \/ Close(p)
  <2>1. PICK p \in Inits : InitSteps(p) \/ Close(p)
    BY <1>4
  <2>2. CASE InitSteps(p)
    BY <2>2, LoggingKeeps, ChooseKeeps, GuardKeeps, RunOwnerKeeps,
       AskComponentsKeeps, RunEditorKeeps, FinishKeeps, UnwindKeeps,
       ComponentsDoneKeeps, ConfiguringKeeps DEF InitSteps
  <2>3. CASE Close(p)
    BY <2>3, CloseKeeps
  <2> QED BY <2>1, <2>2, <2>3
<1>5. CASE UNCHANGED vars
  BY <1>5 DEF vars, files, marks, IInv, Types, Exclusive, PolicyFirst, Places,
              Step, Built, GuardedRuns, Alone, Safe, Waited, Standing, Going,
              Working
<1> QED BY <1>1, <1>2, <1>3, <1>4, <1>5 DEF Next

LEMMA InitHolds == Init => IInv
<1> SUFFICES ASSUME Init PROVE IInv
  OBVIOUS
<1>1. Off \in InitState /\ Off.pc = "off"
  BY DEF Off, InitState, Modes
<1>2. \A p \in Inits : init[p] = Off
  BY DEF Init
<1>3. Types
  BY <1>1 DEF Init, Types
<1> QED BY <1>1, <1>2, <1>3
        DEF IInv, Init, Exclusive, PolicyFirst, Places, Built, GuardedRuns, Alone,
            Waited, Standing, Going, Working

LEMMA Invariance == Spec => []IInv
<1>1. Init => IInv
  BY InitHolds
<1>2. IInv /\ [Next]_vars => IInv'
  BY StepKeeps
<1> QED BY <1>1, <1>2, PTL DEF Spec

(* Main comes up only with every file of the sequence in place, whatever   *)
(* failed or was cancelled before, as long as no two runs overlapped and   *)
(* none was ended before it could remove its sentinel.                     *)
THEOREM MainComesUpComplete == Spec => []UpIsComplete
<1>1. IInv => UpIsComplete
  BY DEF IInv, Standing, Safe, UpIsComplete
<1> QED BY <1>1, Invariance, PTL

-----------------------------------------------------------------------------
(* The list: a run that did not find one meets none before its own step,   *)
(* and configures nothing behind it.                                       *)
Listing ==
  apart => \A p \in Inits : (Going(p) /\ ~init[p].hadList) =>
    /\ init[p].at \in 1..8 => "list" \notin here
    /\ init[p].at \in 9..10 => configured \subseteq listed
LInv == IInv /\ Listing

LEMMA StepNumbers ==
  \A n \in 1..9 : /\ Steps[n] = "components" <=> n = 7
                  /\ Steps[n] = "list" <=> n = 8
BY DEF Steps

(* What a step of run p does to the list.                                  *)
Lists(p) ==
  /\ Going(p) /\ UNCHANGED apart
  /\ \A q \in Inits : q # p => init'[q] = init[q]
  /\ Going(p)' =>
       /\ init'[p].hadList = init[p].hadList
       /\ init'[p].at \in 1..8 =>
            init[p].at \in 1..8 /\ ("list" \in here' => "list" \in here)
       /\ init'[p].at \in 9..10 =>
            \/ configured' \subseteq listed'
            \/ init[p].at \in 9..10 /\ UNCHANGED <<configured, listed>>
            \/ init[p].at \in 1..8 /\ "list" \in here

LEMMA ListsKeeps ==
  ASSUME LInv, NEW p \in Inits, Lists(p)
  PROVE  Listing'
<1> SUFFICES ASSUME apart, NEW q \in Inits, Going(q)', ~init'[q].hadList
             PROVE  /\ init'[q].at \in 1..8 => "list" \notin here'
                    /\ init'[q].at \in 9..10 => configured' \subseteq listed'
  BY DEF Listing, Lists
<1>1. q = p
  BY DEF Lists, LInv, IInv, Exclusive, Going
<1> QED BY <1>1 DEF Lists, LInv, Listing

(* Where each step leaves the run it is a step of.                         *)
Others(p) == \A q \in Inits : q # p => init'[q] = init[q]
Same(p) == Others(p) /\ init'[p].hadList = init[p].hadList
Stays(p) == Same(p) /\ init'[p].at = init[p].at
Goes(p) == Same(p) /\ init'[p].at = init[p].at + 1
Filled(p) == Goes(p) /\ ("list" \in here \/ configured' \subseteq listed')

LEMMA WhereLeft ==
  ASSUME Types, NEW p \in Inits
  PROVE  /\ Logging(p) \/ Choose(p) \/ Guard(p) => Stays(p)
         /\ RunOwner(p) => Stays(p) \/ Goes(p)
         /\ AskComponents(p) => Stays(p) \/ Goes(p)
         /\ RunEditor(p) => Filled(p) \/ (Stays(p) /\ UNCHANGED here)
         /\ Finish(p) \/ Unwind(p) => Others(p) /\ init'[p].pc = "ended"
         /\ ComponentsDone(p) => Goes(p)
<1> USE DEF Others, Same, Stays, Goes, Set, Goto, Types, InitState
<1>1. Logging(p) => Stays(p)
  BY DEF Logging, OwnerEnds
<1>2. Choose(p) => Stays(p)
  BY DEF Choose
<1>3. Guard(p) => Stays(p)
  BY DEF Guard
<1>4. RunOwner(p) => Stays(p) \/ Goes(p)
  BY DEF RunOwner, OwnerEnds, Advanced
<1>5. AskComponents(p) => Stays(p) \/ Goes(p)
  BY DEF AskComponents, Advance, Advanced
<1>6. RunEditor(p) => Filled(p) \/ (Stays(p) /\ UNCHANGED here)
  <2>1. ASSUME RunEditor(p), Advance(p)
        PROVE  Goes(p)
    BY <2>1 DEF Advance, Advanced
  <2>2. ASSUME RunEditor(p), Goto(p, "unwind")
        PROVE  Stays(p)
    BY <2>2
  <2>3. RunEditor(p) =>
          \/ Advance(p) /\ ("list" \in here \/ configured' \subseteq listed')
          \/ Goto(p, "unwind") /\ UNCHANGED here
    BY DEF RunEditor
  <2> QED BY <2>1, <2>2, <2>3 DEF Filled
<1>7. Finish(p) \/ Unwind(p) => Others(p) /\ init'[p].pc = "ended"
  BY DEF Finish, Unwind, Ends, Ended
<1>8. ComponentsDone(p) => Goes(p)
  BY DEF ComponentsDone, Advance, Advanced
<1> QED BY <1>1, <1>2, <1>3, <1>4, <1>5, <1>6, <1>7, <1>8

LEMMA TurnLeft ==
  ASSUME Types, NEW p \in Inits, NEW name,
         SeedComponent(p, name) \/ AskComponent(p, name)
  PROVE  Stays(p)
BY DEF SeedComponent, AskComponent, Passes, Others, Same, Stays, Set, Goto,
       Types, InitState

LEMMA InitStepsList ==
  ASSUME LInv, NEW p \in Inits, InitSteps(p)
  PROVE  Listing'
<1>1. IInv /\ Types /\ init[p].at \in 1..10
  BY DEF LInv, IInv, Types, InitState
<1> USE <1>1 DEF Others, Same, Stays, Goes, Lists
<1>2. CASE Logging(p)
  <2>1. Stays(p)
    BY <1>2, WhereLeft
  <2>2. Lists(p)
    <3>1. Going(p) /\ UNCHANGED <<configured, listed, apart>>
      BY <1>2 DEF Logging, At, Going, marks
    <3>2. "list" \in here' => "list" \in here
      BY <1>2 DEF Logging, OwnerEnds, Policy
    <3> QED BY <2>1, <3>1, <3>2
  <2> QED BY <2>2, ListsKeeps
<1>3. CASE Choose(p) \/ Guard(p)
  <2>1. Stays(p)
    BY <1>3, WhereLeft
  <2>2. Going(p) /\ UNCHANGED <<here, configured, listed, apart>>
    BY <1>3 DEF Choose, Guard, At, Going, files, marks
  <2>3. Lists(p)
    BY <2>1, <2>2
  <2> QED BY <2>3, ListsKeeps
<1>4. CASE RunOwner(p)
  <2>1. Stays(p) \/ Goes(p)
    BY <1>4, WhereLeft
  <2>2. Going(p) /\ UNCHANGED <<configured, listed, apart>>
    BY <1>4 DEF RunOwner, Due, At, Going, marks
  <2>3. /\ init[p].at \in 1..9 /\ init[p].at \notin {7, 8}
        /\ "list" \in here' => "list" \in here
    <3>1. init[p].at \in 1..9 /\ Step(p) \notin {"components", "list"}
      BY <1>4, StepsFacts DEF RunOwner, Due
    <3>2. here' \subseteq here \cup {Step(p)}
      BY <1>4 DEF RunOwner, OwnerEnds
    <3> QED BY <3>1, <3>2, StepNumbers DEF Step
  <2>4. Lists(p)
    BY <2>1, <2>2, <2>3
  <2> QED BY <2>4, ListsKeeps
<1>5. CASE AskComponents(p)
  <2>1. Stays(p) \/ Goes(p)
    BY <1>5, WhereLeft
  <2>2. Going(p) /\ UNCHANGED <<here, configured, listed, apart>>
    BY <1>5 DEF AskComponents, Due, At, Going, files, marks
  <2>3. init[p].at = 7
    BY <1>5, StepsFacts, StepNumbers DEF AskComponents, Due, Step
  <2>4. Lists(p)
    BY <2>1, <2>2, <2>3
  <2> QED BY <2>4, ListsKeeps
<1>6. CASE RunEditor(p)
  <2>1. Filled(p) \/ (Stays(p) /\ UNCHANGED here)
    BY <1>6, WhereLeft
  <2>2. Going(p) /\ UNCHANGED apart
    BY <1>6 DEF RunEditor, Due, At, Going, marks
  <2>3. init[p].at = 8
    BY <1>6, StepsFacts, StepNumbers DEF RunEditor, Due, Step
  <2>4. Lists(p)
    BY <2>1, <2>2, <2>3 DEF Filled
  <2> QED BY <2>4, ListsKeeps
<1>7. CASE Finish(p) \/ Unwind(p)
  <2>1. Others(p) /\ init'[p].pc = "ended"
    BY <1>7, WhereLeft
  <2>2. Going(p) /\ UNCHANGED apart
    BY <1>7 DEF Finish, Unwind, At, Going, marks
  <2>3. Lists(p)
    BY <2>1, <2>2 DEF Lists, Going
  <2> QED BY <2>3, ListsKeeps
<1>8. CASE ComponentsDone(p)
  <2>1. Goes(p)
    BY <1>8, WhereLeft
  <2>2. Going(p) /\ UNCHANGED <<here, configured, listed, apart>>
    BY <1>8 DEF ComponentsDone, At, Going, files, marks
  <2>3. init[p].at = 7
    BY <1>8, StepNumbers DEF ComponentsDone, At, IInv, Places, Step
  <2>4. Lists(p)
    BY <2>1, <2>2, <2>3
  <2> QED BY <2>4, ListsKeeps
<1>9. ASSUME NEW name \in Components,
             SeedComponent(p, name) \/ AskComponent(p, name)
      PROVE  Listing'
  <2>1. Stays(p)
    BY <1>9, TurnLeft
  <2>2. Going(p) /\ UNCHANGED <<here, listed, apart>>
    BY <1>9 DEF SeedComponent, AskComponent, At, Going, marks
  <2>3. init[p].at = 7
    BY <1>9, StepNumbers DEF SeedComponent, AskComponent, At, IInv, Places, Step
  <2>4. Lists(p)
    BY <2>1, <2>2, <2>3
  <2> QED BY <2>4, ListsKeeps
<1> QED BY <1>2, <1>3, <1>4, <1>5, <1>6, <1>7, <1>8, <1>9 DEF InitSteps

LEMMA StartsList ==
  ASSUME LInv, NEW p \in Inits, NEW mode \in Modes, Starts(p, mode),
         UNCHANGED here
  PROVE  Listing'
<1>1. Types
  BY DEF LInv, IInv
<1>2. /\ init'[p].at = 1 /\ (~init'[p].hadList => "list" \notin here)
      /\ \A q \in Inits : q # p => init'[q] = init[q]
  BY <1>1 DEF Starts, Set, Types, Off
<1>3. apart' => \A q \in Inits : ~Going(q)
  BY DEF Starts
<1> QED BY <1>2, <1>3 DEF Listing, Going

LEMMA StepLists ==
  ASSUME LInv, [Next]_vars
  PROVE  Listing'
<1>1. Types
  BY DEF LInv, IInv
<1>2. CASE StartMain
  <2>1. CASE Sentinel \in here
    <3>1. UNCHANGED <<here, configured, listed, init>> /\ (apart' => apart)
      BY <1>2, <2>1 DEF StartMain, files
    <3> QED BY <3>1 DEF LInv, Listing, Going
  <2>2. CASE Sentinel \notin here
    <3>1. Starts(Main, "interactive") /\ UNCHANGED here
      BY <1>2, <2>2 DEF StartMain, files
    <3> QED BY <3>1, StartsList DEF Inits, Modes
  <2> QED BY <2>1, <2>2
<1>3. CASE MainSteps \/ EndMain \/ UNCHANGED vars
  <2>1. UNCHANGED <<here, configured, listed, init, apart>>
    BY <1>3 DEF MainSteps, Initialized, PrepareLogging, EndMain, vars, files,
                marks
  <2> QED BY <2>1 DEF LInv, Listing, Going
<1>4. ASSUME NEW mode \in Modes, ByHand(mode)
      PROVE  Listing'
  BY <1>4, StartsList DEF ByHand, Inits, files
<1>5. ASSUME NEW p \in Inits, Close(p)
      PROVE  Listing'
  <2>1. UNCHANGED <<here, configured, listed, apart>>
    BY <1>5 DEF Close, files
  <2>2. \A q \in Inits : init'[q] = init[q] \/ ~Going(q)'
    BY <1>1, <1>5 DEF Close, Ended, Types, InitState, Going
  <2> QED BY <2>1, <2>2 DEF LInv, Listing, Going
<1> QED BY <1>2, <1>3, <1>4, <1>5, InitStepsList DEF Next

(* A run that creates components.list lists every component configured by  *)
(* then: components_init.exe comes before the editor in initialization_steps *)
(* and no other run configures one in between.                             *)
THEOREM ListIsComplete == Spec => []ListCovers
<1>1. Init => LInv
  BY InitHolds DEF LInv, Listing, Init, Going, Off
<1>2. LInv /\ [Next]_vars => LInv'
  BY StepKeeps, StepLists DEF LInv
<1>3. LInv => ListCovers
  <2> SUFFICES ASSUME LInv, NEW p \in Inits, apart, At(p, "step"), ~Due(p),
                      ~init[p].hadList
               PROVE  configured \subseteq listed
    BY DEF ListCovers
  <2>1. init[p].at = 10 /\ Going(p)
    BY StepsFacts DEF LInv, IInv, Types, InitState, At, Due, Going
  <2> QED BY <2>1 DEF LInv, Listing
<1> QED BY <1>1, <1>2, <1>3, PTL DEF Spec
-----------------------------------------------------------------------------
(* No step makes a file, a configuration or an entry it has no program for. *)
FilesOK ==
  here \subseteq Required /\ configured \subseteq Configurable
    /\ listed \subseteq Components

LEMMA OwnersFiles ==
  ASSUME Types, FilesOK, NEW p \in Inits,
         Logging(p) \/ RunOwner(p) \/ RunEditor(p) \/ Unwind(p)
  PROVE  FilesOK'
<1>1. CASE Logging(p)
  BY <1>1 DEF FilesOK, Logging, OwnerEnds, Required
<1>2. CASE RunOwner(p)
  <2>1. /\ init[p].at \in DOMAIN Steps /\ Step(p) # "components"
        /\ here' \subseteq here \cup {Step(p)}
        /\ UNCHANGED <<configured, listed>>
    BY <1>2, StepsFacts DEF RunOwner, Due, OwnerEnds, Types, InitState
  <2>2. Step(p) \in Required
    BY <2>1 DEF Step, Required
  <2> QED BY <2>1, <2>2 DEF FilesOK
<1>3. CASE RunEditor(p)
  <2>1. Steps[8] = "list" /\ 8 \in DOMAIN Steps
    BY StepsFacts, StepNumbers
  <2>2. "list" \in Required
    BY <2>1 DEF Required
  <2> QED BY <1>3, <2>2, FirstRunAssumption DEF FilesOK, RunEditor
<1>4. CASE Unwind(p)
  BY <1>4 DEF FilesOK, Unwind
<1> QED BY <1>1, <1>2, <1>3, <1>4

LEMMA FilesKept ==
  ASSUME Types, FilesOK, [Next]_vars
  PROVE  FilesOK'
<1>1. ASSUME NEW p \in Inits, InitSteps(p)
      PROVE  FilesOK'
  <2>1. CASE Choose(p) \/ Guard(p) \/ AskComponents(p) \/ Finish(p)
               \/ ComponentsDone(p)
    BY <2>1 DEF Choose, Guard, AskComponents, Finish, ComponentsDone, files,
       FilesOK
  <2>2. ASSUME NEW name \in Components,
               SeedComponent(p, name) \/ AskComponent(p, name)
        PROVE  FilesOK'
    BY <2>2 DEF SeedComponent, AskComponent, Configures, FilesOK
  <2> QED BY <1>1, <2>1, <2>2, OwnersFiles DEF InitSteps
<1>2. ASSUME ~\E p \in Inits : InitSteps(p)
      PROVE  UNCHANGED files
  BY <1>2 DEF Next, StartMain, MainSteps, Initialized, PrepareLogging, EndMain,
     ByHand, Close, vars
<1> QED BY <1>1, <1>2 DEF FilesOK, files

(* What the programs of a first run leave is what the sequence and the     *)
(* discovered components name (initialization_steps, components_editor).   *)
THEOREM TypeCorrect == Spec => []TypeOK
<1>1. Init => FilesOK
  BY DEF Init, FilesOK
<1>2. IInv /\ FilesOK /\ [Next]_vars => FilesOK'
  BY FilesKept DEF IInv
<1>3. IInv /\ FilesOK => TypeOK
  BY StepsFacts DEF IInv, Types, InitState, FilesOK, TypeOK
<1> QED BY <1>1, <1>2, <1>3, Invariance, PTL DEF Spec

-----------------------------------------------------------------------------
(* The owners of the files.  The first run above relies on every program   *)
(* it starts for one thing: a program that ends with 0 has left its files. *)
(* Here that is proved of the programs themselves (ConfigOwner), for every *)
(* program of the build and any number of launches of it at a time.        *)
(*                                                                         *)
(* The tables come first: a default is a text its key allows, and so is    *)
(* what is read from a missing or bad line, or it is the shared policy     *)
(* (RowOK); a step of a launch runs a known owner (PlanOK); and a file     *)
(* that an owner makes is left whole or blank (StoreOK).                   *)
Reserved == {Missing, Junk, SharedPolicy, None}
RowOK(r) ==
  /\ r.values \cap Reserved = {} /\ r.first \in r.values
  /\ \E word \in r.values : word # r.first
  /\ {r.missing, r.junk} \subseteq r.values \cup {SharedPolicy}
  /\ r.unread \in r.values \cup {SharedPolicy, Fail}
  /\ SharedPolicy \in {r.missing, r.junk, r.unread} => OnOff \subseteq r.values
  /\ r.key = "disable_all" => OnOff \subseteq r.values
RowsOK(rows) == Len(rows) \in Nat /\ \A k \in 1..Len(rows) : RowOK(rows[k])

LEMMA RowFacts ==
  ASSUME NEW key, NEW values, NEW first \in values, values \cap Reserved = {},
         \E word \in values : word # first,
         key = "disable_all" => OnOff \subseteq values,
         NEW r, r = Setting(key, values, first)
  PROVE  RowOK(r) /\ RowOK(Guarded(r))
<1>1. RowOK(r) BY DEF RowOK, Setting, Reserved
<1>2. LET g == Guarded(r) IN
        /\ g.values = r.values /\ g.first = r.first /\ g.missing = r.missing
        /\ g.junk = r.junk /\ g.unread = Fail /\ g.key = r.key
  BY DEF Setting, Guarded
<1> QED BY <1>1, <1>2 DEF RowOK, Setting, Reserved, Fail, SharedPolicy

LEMMA PathFacts ==
  ASSUME NEW key, key # "disable_all",
         NEW first, first \notin Reserved \cup {"other"}
  PROVE  /\ RowOK(Path(key, first)) /\ RowOK(Number(key, first))
         /\ RowOK(Guarded(Path(key, first)))
<1>1. "other" \notin Reserved
  BY DEF Reserved, Missing, Junk, SharedPolicy, None
<1> QED BY <1>1, RowFacts DEF Path, Number

LEMMA SwitchFacts ==
  ASSUME NEW key, NEW first \in OnOff
  PROVE  /\ RowOK(Setting(key, OnOff, first))
         /\ RowOK(Guarded(Setting(key, OnOff, first)))
<1>1. OnOff \cap Reserved = {} /\ \E word \in OnOff : word # first
  BY DEF OnOff, Reserved, Missing, Junk, SharedPolicy, None
<1> QED BY <1>1, RowFacts

LEMMA LoggingFacts ==
  /\ RowOK(LoggingKey) /\ RowOK(Guarded(LoggingKey))
  /\ RowOK([LoggingKey EXCEPT !.unread = SharedPolicy])
  /\ RowOK([LoggingKey EXCEPT !.missing = "on"])
  /\ RowOK([Setting("logging", OnOff, "off") EXCEPT !.unread = "off"])
BY DEF RowOK, LoggingKey, Setting, Guarded, OnOff, Reserved, SharedPolicy, Missing,
   Junk, None, Fail

LEMMA ChoiceFacts ==
  /\ RowOK(Setting("delayed_shutdown_prompt", {"popup", "console"}, "popup"))
  /\ RowOK(Setting("default_response", {"yes", "no"}, "no"))
  /\ RowOK(Guarded([Setting("new_components", {"prompt", "on", "off"}, "on")
                      EXCEPT !.junk = "prompt"]))
  /\ RowOK(Setting("level", {"debug", "info", "alert"}, "debug"))
  /\ RowOK(Guarded(Setting("mode", {"verbose", "concise", "silent"}, "verbose")))
  /\ RowOK(Setting("mode", {"live", "cache"}, "live"))
BY DEF RowOK, Setting, Guarded, Reserved, SharedPolicy, Missing, Junk, None, Fail, OnOff

LEMMA SettingsFacts ==
  /\ RowsOK(AutoCoreSettings) /\ RowsOK(ShutdownSettings) /\ RowsOK(StartupSettings)
  /\ RowsOK(WarningsSettings) /\ RowsOK(CrashRecoverySettings)
  /\ RowsOK(ComponentsPolicySettings) /\ RowsOK(LoggingPolicyTable)
  /\ RowsOK(LoggingPolicySwitches) /\ RowsOK(DashSettings) /\ RowsOK(SlashSettings)
  /\ RowsOK(LoggerSettings) /\ RowsOK(WriterSettings) /\ RowsOK(WakeSettings)
  /\ RowsOK(ItunesSettings) /\ RowsOK(ServerSettings) /\ RowsOK(TaskbarSettings)
  /\ RowsOK(JournalSettings) /\ RowsOK(SpotifySettings)
<1> DEFINE S(key) == Setting(key, OnOff, "on")
           O(key) == Setting(key, OnOff, "off")
<1>s. \A key : RowOK(S(key)) /\ RowOK(O(key)) /\ RowOK(Guarded(S(key))) /\ RowOK(Guarded(O(key)))
  BY SwitchFacts DEF OnOff
<1>p. \A key, first : key # "disable_all" /\ first \notin Reserved \cup {"other"} =>
         RowOK(Path(key, first)) /\ RowOK(Number(key, first)) /\ RowOK(Guarded(Path(key, first)))
  BY PathFacts
<1>1. RowsOK(AutoCoreSettings)
  BY <1>s, LoggingFacts DEF AutoCoreSettings, RowsOK
<1>2. RowsOK(ShutdownSettings)
  BY <1>p, ChoiceFacts DEF ShutdownSettings, RowsOK, Reserved, SharedPolicy, Missing, Junk, None
<1>3. RowsOK(StartupSettings)
  BY <1>s DEF StartupSettings, RowsOK
<1>4. RowsOK(WarningsSettings)
  BY <1>s DEF WarningsSettings, RowsOK
<1>5. RowsOK(CrashRecoverySettings)
  BY <1>s, ChoiceFacts DEF CrashRecoverySettings, RowsOK
<1>6. RowsOK(ComponentsPolicySettings)
  BY <1>s, ChoiceFacts DEF ComponentsPolicySettings, RowsOK
<1>7. RowsOK(LoggingPolicyTable)
  BY <1>s, <1>p, ChoiceFacts DEF LoggingPolicyTable, RowsOK, Reserved, SharedPolicy, Missing, Junk, None
<1>8. RowsOK(LoggingPolicySwitches)
  BY <1>s DEF LoggingPolicySwitches, RowsOK
<1>9. RowsOK(DashSettings)
  BY LoggingFacts DEF DashSettings, RowsOK
<1>10. RowsOK(SlashSettings)
  BY LoggingFacts, ChoiceFacts DEF SlashSettings, RowsOK
<1>11. RowsOK(LoggerSettings)
  BY <1>s, <1>p, LoggingFacts DEF LoggerSettings, RowsOK, Reserved, SharedPolicy, Missing, Junk, None
<1>12. RowsOK(WriterSettings)
  BY <1>p, LoggingFacts DEF WriterSettings, RowsOK, Reserved, SharedPolicy, Missing, Junk, None
<1>13. RowsOK(WakeSettings)
  BY <1>p, LoggingFacts DEF WakeSettings, RowsOK, Reserved, SharedPolicy, Missing, Junk, None
<1>14. RowsOK(ItunesSettings)
  BY <1>s, <1>p, LoggingFacts DEF ItunesSettings, RowsOK, Reserved, SharedPolicy, Missing, Junk, None
<1>15. RowsOK(ServerSettings)
  BY <1>p, LoggingFacts DEF ServerSettings, RowsOK, Reserved, SharedPolicy, Missing, Junk, None
<1>16. RowsOK(TaskbarSettings)
  BY <1>p, LoggingFacts, ChoiceFacts DEF TaskbarSettings, RowsOK, Reserved, SharedPolicy, Missing, Junk, None
<1>17. RowsOK(JournalSettings)
  BY <1>s, <1>p, LoggingFacts DEF JournalSettings, RowsOK, Reserved, SharedPolicy, Missing, Junk, None
<1>18. RowsOK(SpotifySettings)
  BY <1>s, <1>p, LoggingFacts DEF SpotifySettings, RowsOK, Reserved, SharedPolicy, Missing, Junk, None
<1> QED BY <1>1, <1>2, <1>3, <1>4, <1>5, <1>6, <1>7, <1>8, <1>9, <1>10, <1>11, <1>12,
          <1>13, <1>14, <1>15, <1>16, <1>17, <1>18

LEMMA JoinFacts ==
  ASSUME NEW S, NEW s \in Seq(S), NEW t \in Seq(S)
  PROVE  /\ s \o t \in Seq(S) /\ Len(s \o t) = Len(s) + Len(t)
         /\ \A k \in 1..(Len(s) + Len(t)) :
              (s \o t)[k] = IF k <= Len(s) THEN s[k] ELSE t[k - Len(s)]
OBVIOUS

LEMMA JoinedRows ==
  ASSUME NEW S, NEW s \in Seq(S), NEW t \in Seq(S), RowsOK(s), RowsOK(t)
  PROVE  RowsOK(s \o t)
<1>1. Len(s) \in Nat /\ Len(t) \in Nat OBVIOUS
<1>2. ASSUME NEW k \in 1..(Len(s) + Len(t)) PROVE RowOK((s \o t)[k])
  <2>1. CASE k <= Len(s)
    <3>1. k \in 1..Len(s) BY <1>1, <2>1
    <3>2. (s \o t)[k] = s[k] BY <2>1, <3>1, JoinFacts
    <3> QED BY <3>1, <3>2 DEF RowsOK
  <2>2. CASE k > Len(s)
    <3>1. k - Len(s) \in 1..Len(t) BY <1>1, <2>2
    <3>2. (s \o t)[k] = t[k - Len(s)] BY <1>1, <2>2, JoinFacts
    <3> QED BY <3>1, <3>2 DEF RowsOK
  <2> QED BY <1>1, <2>1, <2>2
<1>3. Len(s \o t) = Len(s) + Len(t) BY JoinFacts
<1> QED BY <1>1, <1>2, <1>3 DEF RowsOK

LEMMA PolicyRows == RowsOK(LoggingPolicyTable \o LoggingPolicySwitches)
<1> DEFINE S == {LoggingPolicyTable[k] : k \in 1..5} \cup {LoggingPolicySwitches[k] : k \in 1..6}
<1>1. LoggingPolicyTable \in Seq(S) /\ LoggingPolicySwitches \in Seq(S)
  BY DEF LoggingPolicyTable, LoggingPolicySwitches
<1> HIDE DEF S
<1> QED BY <1>1, SettingsFacts, JoinedRows

ProgramNames == {"auto_core", "shutdown", "startup", "warnings", "crash_recovery",
  "components_policy", "logging_policy", "dash", "slash", "logger", "writer", "wake",
  "itunes", "server", "taskbar", "journal", "spotify"}
LEMMA NamesFacts == DOMAIN Programs = ProgramNames
BY DEF Programs, ProgramNames

LEMMA RowsFacts == ASSUME NEW p \in DOMAIN Programs PROVE RowsOK(Programs[p].settings)
<1>1. Programs[p].settings \in
        {AutoCoreSettings, ShutdownSettings, StartupSettings, WarningsSettings,
         CrashRecoverySettings, ComponentsPolicySettings,
         LoggingPolicyTable \o LoggingPolicySwitches, DashSettings, SlashSettings,
         LoggerSettings, WriterSettings, WakeSettings, ItunesSettings, ServerSettings,
         TaskbarSettings, JournalSettings, SpotifySettings}
  BY NamesFacts DEF ProgramNames, Programs, Program
<1> QED BY <1>1, SettingsFacts, PolicyRows

OwnerNames == {
  "writer_editor_seed", "writer_editor_init", "server_editor_seed",
  "server_editor_init", "server_builder", "taskbar_builder", "wake_snapshot",
  "itunes_db", "itunes_formatter_seed", "itunes_formatter_init",
  "journal_builder_seed", "journal_builder_init", "journal_cloud_seed",
  "journal_cloud_init", "journal_clock_seed", "journal_clock_init", "journal_db_seed",
  "journal_db_init", "journal_series", "spotify_db", "spotify_formatter_seed",
  "spotify_formatter_init", "spotify_editor_seed", "spotify_editor_client",
  "spotify_oauth", "components_editor"}
StepRecord == [owner : OwnerNames, ask : BOOLEAN, once : BOOLEAN, soft : BOOLEAN,
               needs : SUBSET {"client.id"}, look : BOOLEAN]

(* A step whose owner the launch does not end with 0 without.              *)
Binding(step) == ~step.ask /\ ~step.soft /\ ~step.look /\ step.needs = {}
(* Nothing is owed behind a step the launch may end at.                    *)
Late(steps) ==
  \A m, n \in DOMAIN steps : m <= n /\ steps[m].needs # {} => ~Binding(steps[n])
StepsOK(steps) == steps \in Seq(StepRecord) /\ Late(steps)
PlanOK(plan) ==
  /\ StepsOK(plan.before) /\ StepsOK(plan.after) /\ StepsOK(plan.seed)
  /\ StepsOK(plan.init) /\ StepsOK(plan.both)
  /\ plan.offers => plan.before = <<>>

LEMMA StepFacts ==
  ASSUME NEW owner \in OwnerNames
  PROVE  LET step == Run(owner) IN
         /\ step \in StepRecord /\ Ask(step) \in StepRecord
         /\ Once(step) \in StepRecord /\ Ask(Once(step)) \in StepRecord
         /\ step.needs = {} /\ Ask(step).needs = {} /\ Once(step).needs = {}
         /\ Ask(Once(step)).needs = {}
BY DEF Run, Ask, Once, StepRecord

LEMMA EmptyPlan == StepsOK(<<>>) /\ PlanOK(NoOwners)
<1>1. StepsOK(<<>>) BY DEF StepsOK, Late
<1> QED BY <1>1 DEF PlanOK, NoOwners

LEMMA MostPlans ==
  /\ PlanOK(AutoCoreLaunch) /\ PlanOK(ComponentsPolicyLaunch) /\ PlanOK(WriterLaunch)
  /\ PlanOK(WakeLaunch) /\ PlanOK(ItunesLaunch) /\ PlanOK(ServerLaunch)
  /\ PlanOK(TaskbarLaunch) /\ PlanOK(JournalLaunch)
<1>r. \A o \in OwnerNames :
        /\ Run(o) \in StepRecord /\ Run(o).needs = {}
        /\ Ask(Run(o)) \in StepRecord /\ Ask(Run(o)).needs = {}
        /\ Once(Run(o)) \in StepRecord /\ Once(Run(o)).needs = {}
  BY StepFacts
<1>e. \A a, b \in StepRecord : a.needs = {} /\ b.needs = {} =>
        StepsOK(<<a>>) /\ StepsOK(<<a, b>>)
  BY DEF StepsOK, Late
<1>1. PlanOK(AutoCoreLaunch)
  BY EmptyPlan DEF AutoCoreLaunch, PlanOK, NoOwners
<1>2. PlanOK(ComponentsPolicyLaunch)
  <2>1. StepsOK(<<Ask(Run("components_editor"))>>) BY <1>r, <1>e DEF OwnerNames
  <2> QED BY <2>1, EmptyPlan DEF ComponentsPolicyLaunch, PlanOK, NoOwners
<1>3. PlanOK(WriterLaunch)
  <2>1. StepsOK(<<Run("writer_editor_seed")>>) /\ StepsOK(<<Run("writer_editor_init")>>)
    BY <1>r, <1>e DEF OwnerNames
  <2> QED BY <2>1, EmptyPlan DEF WriterLaunch, PlanOK, NoOwners
<1>4. PlanOK(WakeLaunch)
  <2>1. StepsOK(<<Once(Run("wake_snapshot"))>>) BY <1>r, <1>e DEF OwnerNames
  <2> QED BY <2>1, EmptyPlan DEF WakeLaunch, PlanOK, NoOwners
<1>5. PlanOK(ItunesLaunch)
  <2>1. /\ StepsOK(<<Run("itunes_db"), Run("itunes_formatter_seed")>>)
        /\ StepsOK(<<Run("itunes_db"), Run("itunes_formatter_init")>>)
    BY <1>r, <1>e DEF OwnerNames
  <2> QED BY <2>1, EmptyPlan DEF ItunesLaunch, PlanOK, NoOwners
<1>6. PlanOK(ServerLaunch)
  <2>1. /\ StepsOK(<<Run("server_editor_seed"), Run("server_builder")>>)
        /\ StepsOK(<<Run("server_editor_init"), Ask(Run("server_builder"))>>)
    BY <1>r, <1>e DEF OwnerNames
  <2> QED BY <2>1, EmptyPlan DEF ServerLaunch, PlanOK, NoOwners
<1>7. PlanOK(TaskbarLaunch)
  <2>1. StepsOK(<<Run("taskbar_builder")>>) /\ StepsOK(<<Ask(Run("taskbar_builder"))>>)
    BY <1>r, <1>e DEF OwnerNames
  <2> QED BY <2>1, EmptyPlan DEF TaskbarLaunch, PlanOK, NoOwners
<1>8. PlanOK(JournalLaunch)
  <2>1. \A n \in 1..5 : /\ JournalStores[n] \in StepRecord /\ JournalStores[n].needs = {}
                        /\ JournalAskedStores[n] \in StepRecord
                        /\ JournalAskedStores[n].needs = {}
    BY <1>r DEF OwnerNames, JournalStores, JournalAskedStores
  <2>2. /\ JournalStores \in Seq(StepRecord) /\ DOMAIN JournalStores = 1..5
        /\ JournalAskedStores \in Seq(StepRecord) /\ DOMAIN JournalAskedStores = 1..5
    BY <1>r DEF OwnerNames, JournalStores, JournalAskedStores
  <2>3. StepsOK(JournalStores) /\ StepsOK(JournalAskedStores)
    BY <2>1, <2>2 DEF StepsOK, Late
  <2>4. StepsOK(<<Run("journal_builder_seed")>>) BY <1>r, <1>e DEF OwnerNames
  <2> QED BY <2>3, <2>4, EmptyPlan DEF JournalLaunch, PlanOK, NoOwners
<1> QED BY <1>1, <1>2, <1>3, <1>4, <1>5, <1>6, <1>7, <1>8

LEMMA JoinedSteps ==
  ASSUME NEW s \in Seq(StepRecord), NEW t \in Seq(StepRecord), Late(t),
         \A n \in DOMAIN s : s[n].needs = {}
  PROVE  StepsOK(s \o t)
<1>1. PICK u \in Seq(StepRecord) : u = s \o t BY JoinFacts
<1>2. /\ DOMAIN u = 1..(Len(s) + Len(t)) /\ DOMAIN s = 1..Len(s) /\ DOMAIN t = 1..Len(t)
      /\ \A k \in DOMAIN u : u[k] = IF k <= Len(s) THEN s[k] ELSE t[k - Len(s)]
      /\ Len(s) \in Nat /\ Len(t) \in Nat
  BY <1>1, JoinFacts
<1>3. ASSUME NEW m \in DOMAIN u, NEW n \in DOMAIN u, m <= n, u[m].needs # {}
      PROVE  ~Binding(u[n])
  <2>1. m > Len(s) BY <1>2, <1>3
  <2>2. /\ m - Len(s) \in DOMAIN t /\ n - Len(s) \in DOMAIN t
        /\ m - Len(s) <= n - Len(s)
    BY <1>2, <1>3, <2>1
  <2>3. u[m] = t[m - Len(s)] /\ u[n] = t[n - Len(s)] BY <1>2, <1>3, <2>1
  <2> QED BY <1>3, <2>2, <2>3 DEF Late
<1> QED BY <1>1, <1>3 DEF StepsOK, Late

(* The sign-in to Spotify comes last in every launch that reaches it.      *)
LEMMA SpotifyPlan == PlanOK(SpotifyLaunch)
<1> DEFINE oauth == [Once(Run("spotify_oauth")) EXCEPT !.soft = TRUE, !.needs = {"client.id"}]
<1>1. /\ SpotifySeed \in Seq(StepRecord)
      /\ \A n \in DOMAIN SpotifySeed : SpotifySeed[n].needs = {}
  BY StepFacts DEF SpotifySeed, OwnerNames
<1>2. /\ SpotifyMissingStores \in Seq(StepRecord)
      /\ \A n \in DOMAIN SpotifyMissingStores : SpotifyMissingStores[n].needs = {}
  BY StepFacts DEF SpotifyMissingStores, OwnerNames
<1>3. oauth \in StepRecord /\ ~Binding(oauth)
  BY DEF StepRecord, OwnerNames, Binding, Once, Run
<1>4. SpotifyAuthorization \in Seq(StepRecord) /\ Late(SpotifyAuthorization)
  BY <1>3, StepFacts DEF SpotifyAuthorization, OwnerNames, Late
<1>5. SpotifyReport \in StepRecord /\ SpotifyReport.needs = {}
  BY DEF SpotifyReport, StepRecord, OwnerNames, Run
<1>6. StepsOK(Append(SpotifySeed, SpotifyReport))
  <2>1. Append(SpotifySeed, SpotifyReport) = SpotifySeed \o <<SpotifyReport>>
    BY <1>1, <1>5
  <2>2. <<SpotifyReport>> \in Seq(StepRecord) /\ Late(<<SpotifyReport>>)
    BY <1>5 DEF Late
  <2> QED BY <1>1, <2>1, <2>2, JoinedSteps
<1> QED BY <1>1, <1>2, <1>4, <1>6, EmptyPlan, JoinedSteps DEF SpotifyLaunch, PlanOK, NoOwners

LEMMA PlanFacts == ASSUME NEW p \in DOMAIN Programs PROVE PlanOK(Programs[p].launch)
<1>1. Programs[p].launch \in
        {NoOwners, AutoCoreLaunch, ComponentsPolicyLaunch, WriterLaunch, WakeLaunch,
         ItunesLaunch, ServerLaunch, TaskbarLaunch, JournalLaunch, SpotifyLaunch}
  BY NamesFacts DEF ProgramNames, Programs, Program, ShutdownLaunch, StartupLaunch,
     WarningsLaunch, CrashRecoveryLaunch, LoggingPolicyLaunch, DashLaunch, SlashLaunch,
     LoggerLaunch
<1> QED BY <1>1, EmptyPlan, MostPlans, SpotifyPlan

StoreOK(store) ==
  /\ Len(store.files) \in Nat /\ DOMAIN store.files = 1..Len(store.files)
  /\ \A n \in DOMAIN store.files : store.files[n].leaves \in {"whole", "blank"}

LEMMA FileFacts ==
  ASSUME NEW name, NEW how
  PROVE  LET f == File(name, how) IN
         /\ AskedTwice(f).leaves = "whole" /\ Always(f).leaves = "whole"
         /\ AskedFor(Always(f)).leaves = "whole"
<1>1. PICK f : f = File(name, how) OBVIOUS
<1>2. DOMAIN f = {"name", "how", "when", "leaves", "asks", "wants", "reads"}
      /\ f.leaves = "whole"
  BY <1>1 DEF File
<1> QED BY <1>1, <1>2 DEF AskedTwice, AskedFor, Always

LEMMA StoreFacts == ASSUME NEW owner \in OwnerNames PROVE StoreOK(Stores[owner])
<1>1. StoreOK(ComponentsEditor)
  BY FileFacts DEF ComponentsEditor, StoreOK, Stops
<1> USE DEF StoreOK, Stops, GoesOn, File, AskedFor, Always, Blank
<1>2. StoreOK(WriterEditorSeed)
  BY DEF WriterEditorSeed, SessionPrompts, TaskList, Notes
<1>3. StoreOK(WriterEditorInit)
  <2>1. [AskedFor(Notes) EXCEPT !.asks = {"end", "leave"}].leaves = "whole"
    BY DEF Notes
  <2>2. \E e : /\ e.leaves = "whole"
               /\ WriterEditorInit.files =
                    <<AskedTwice(SessionPrompts), AskedTwice(TaskList), e>>
    BY <2>1 DEF WriterEditorInit
  <2> QED BY <2>2, FileFacts DEF SessionPrompts, TaskList
<1>4. StoreOK(ServerEditorSeed) /\ StoreOK(ServerBuilder)
  BY DEF ServerEditorSeed, ServerBuilder, Port, DocumentRoot, Site
<1>5. StoreOK(ServerEditorInit)
  BY FileFacts DEF ServerEditorInit, Port, DocumentRoot
<1>6. StoreOK(TaskbarBuilder) /\ StoreOK(WakeSnapshot)
  BY DEF TaskbarBuilder, WakeSnapshot, Map, WinkeyCache
<1>7. StoreOK(ItunesDb) /\ StoreOK(ItunesFormatterSeed) /\ StoreOK(ItunesFormatterInit)
  BY DEF ItunesDb, ItunesFormatterSeed, ItunesFormatterInit, History, LibraryFormat,
     SongFormat
<1>8. StoreOK(JournalBuilderSeed) /\ StoreOK(JournalBuilderInit)
  BY DEF JournalBuilderSeed, JournalBuilderInit, Aliases
<1>9. StoreOK(JournalCloudSeed) /\ StoreOK(JournalCloudInit)
  BY DEF JournalCloudSeed, JournalCloudInit, Firebase
<1>10. StoreOK(JournalClockSeed) /\ StoreOK(JournalClockInit)
  BY DEF JournalClockSeed, JournalClockInit, ClockFile
<1>11. StoreOK(JournalDbSeed) /\ StoreOK(JournalDbInit) /\ StoreOK(JournalSeries)
  BY DEF JournalDbSeed, JournalDbInit, JournalSeries, SeriesDb
<1>12. StoreOK(SpotifyDb) /\ StoreOK(SpotifyFormatterSeed) /\ StoreOK(SpotifyFormatterInit)
  BY DEF SpotifyDb, SpotifyFormatterSeed, SpotifyFormatterInit, History, SongFormat
<1>13. StoreOK(SpotifyEditorSeed)
  BY DEF SpotifyEditorSeed, ClientId
<1>14. StoreOK(SpotifyEditorClientId)
  <2>1. [Always(ClientId) EXCEPT !.asks = {"end", "blank"}].leaves = "whole"
    BY DEF ClientId
  <2>2. \E e : e.leaves = "whole" /\ SpotifyEditorClientId.files = <<e>>
    BY <2>1 DEF SpotifyEditorClientId
  <2> QED BY <2>2
<1>15. StoreOK(SpotifyOauth)
  <2>1. [AskedFor(File("tokens.map", "locked")) EXCEPT !.reads = {"client.id"}].leaves
          = "whole"
    OBVIOUS
  <2>2. \E e : e.leaves = "whole" /\ SpotifyOauth.files = <<e>>
    BY <2>1 DEF SpotifyOauth
  <2> QED BY <2>2
<1>16. Stores[owner] \in
         {WriterEditorSeed, WriterEditorInit, ServerEditorSeed, ServerEditorInit,
          ServerBuilder, TaskbarBuilder, WakeSnapshot, ItunesDb, ItunesFormatterSeed,
          ItunesFormatterInit, JournalBuilderSeed, JournalBuilderInit,
          JournalCloudSeed, JournalCloudInit, JournalClockSeed, JournalClockInit,
          JournalDbSeed, JournalDbInit, JournalSeries, SpotifyDb,
          SpotifyFormatterSeed, SpotifyFormatterInit, SpotifyEditorSeed,
          SpotifyEditorClientId, SpotifyOauth, ComponentsEditor}
  BY DEF OwnerNames, Stores
<1> HIDE DEF StoreOK, Stops, GoesOn, File, AskedFor, Always, Blank
<1> QED BY <1>1, <1>2, <1>3, <1>4, <1>5, <1>6, <1>7, <1>8, <1>9, <1>10, <1>11, <1>12,
          <1>13, <1>14, <1>15, <1>16

-----------------------------------------------------------------------------
(* What the variables can hold.                                            *)
AtOwner == {"store", "make", "storing", "temp", "moving"}
PlacesOfLaunch == {"idle", "inspect", "write", "fill", "menu", "ask", "offer", "read",
                   "steps", "ended"} \cup AtOwner
ModeNames == {"plain", "init", "seed", "both", "disable"}
Texts == Reserved \cup UNION {Rows[k].values : k \in Keys}
Known == {step \in StepRecord : FilesOf(step.owner) \subseteq StoreFiles}
SessionRecord ==
  [pc : PlacesOfLaunch, mode : ModeNames, kind : {"none", "create", "sync", "edit"},
   at : Nat, key : Nat, value : Texts, next : [Keys -> Texts] \cup {<<>>},
   todo : Seq(Known), then : {"ended", "menu"}, touched : BOOLEAN, bad : BOOLEAN,
   code : {0, 1}]

(* The text about to be written, and the value entered.                    *)
NextRight(i) ==
  Holds(i) => /\ session[i].next \in [Keys -> Texts]
              /\ \A k \in Keys : session[i].next[k] \in Rows[k].values \cup
                   (IF session[i].kind = "sync" THEN {Missing, Junk} ELSE {})
Editing(i) == Is(i, "read") \/ (Holds(i) /\ session[i].kind = "edit")
EntryRight(i) ==
  Editing(i) => /\ session[i].key \in Keys
                /\ session[i].value \in Rows[session[i].key].values
(* A launch stands at a file its owner makes.                              *)
PlaceRight(i) ==
  session[i].pc \in AtOwner =>
    /\ session[i].todo # <<>> /\ session[i].at >= 1
    /\ session[i].pc # "store" => session[i].at <= Len(Store(i).files)

SessionsTyped == session \in [Instances -> SessionRecord]
SessionsRight ==
  \A i \in Instances : NextRight(i) /\ EntryRight(i) /\ PlaceRight(i)
DiskRight ==
  /\ prog \in Subjects /\ present \in BOOLEAN
  /\ file \in [Keys -> Texts] /\ chosen \in [Keys -> Texts]
  /\ \A k \in Keys : /\ file[k] \in Rows[k].values \cup {Missing, Junk}
                      /\ chosen[k] \in Rows[k].values \cup {None}
  /\ stores \in [StoreFiles -> {"none", "part", "blank", "whole"}]
  /\ temps \in [StoreFiles -> {"none", "part", "whole"}]
  /\ spoiled \subseteq StoreFiles
OwnerTypes == SessionsTyped /\ SessionsRight /\ DiskRight

LEMMA SameProgram ==
  ASSUME prog' = prog
  PROVE  /\ Rows' = Rows /\ Keys' = Keys /\ Plan' = Plan /\ StoreFiles' = StoreFiles
         /\ Texts' = Texts /\ Known' = Known /\ SessionRecord' = SessionRecord
BY DEF Rows, Keys, Plan, StoreFiles, Sequels, Texts, Known, SessionRecord

LEMMA ProgramKept ==
  ASSUME NEW i \in Instances, 
         \/ \E mode \in LaunchModes : Launch(i, mode)
         \/ \E k \in Keys : \E value \in Rows[k].values : Enter(i, k, value)
         \/ Inspect(i) \/ SynchronizeVersion(i) \/ Truncate(i) \/ Fill(i)
         \/ Read(i) \/ Kill(i)
         \/ EndOfInput(i) \/ Keep(i) \/ Asked(i) \/ Leave(i) \/ Offered(i)
         \/ Complete(i) \/ Skip(i) \/ Unfinished(i) \/ Decline(i)
         \/ StartOwner(i) \/ OwnerReturns(i) \/ Look(i) \/ Answer(i)
         \/ OpenStore(i) \/ FillStore(i)
         \/ OpenTemp(i) \/ FillTemp(i) \/ Place(i)
  PROVE  prog' = prog
BY DEF Launch, Enter, Inspect, SynchronizeVersion, Truncate, Fill, Read, Kill, EndOfInput,
   Keep, Asked, Leave, Offered, Complete, Skip, Unfinished, Decline, StartOwner, OwnerReturns,
   Look, Answer, OpenStore, FillStore, OpenTemp, FillTemp, Place, Quiet, StoreRest

LEMMA RowsAre ==
  ASSUME DiskRight
  PROVE  /\ Len(Rows) \in Nat /\ Keys = 1..Len(Rows) /\ \A k \in Keys : RowOK(Rows[k])
         /\ PlanOK(Plan)
<1>1. prog \in DOMAIN Programs BY SubjectsAssumption DEF DiskRight
<1> QED BY <1>1, RowsFacts, PlanFacts DEF Rows, Keys, Plan, RowsOK

LEMMA StepsKnown ==
  ASSUME DiskRight, NEW steps \in Sequels PROVE steps \in Seq(Known) /\ Late(steps)
<1>1. steps \in Seq(StepRecord) /\ Late(steps)
  BY RowsAre DEF Sequels, PlanOK, StepsOK
<1>2. \A n \in DOMAIN steps : FilesOf(steps[n].owner) \subseteq StoreFiles
  BY DEF StoreFiles
<1>3. \A n \in DOMAIN steps : steps[n] \in Known
  BY <1>1, <1>2 DEF Known
<1> QED BY <1>1, <1>3

(***************************************************************************)
(* The moves of one session.                                               *)
(***************************************************************************)
Elsewhere(i) == \A j \in Instances \ {i} : session'[j] = session[j]

LEMMA MoveFacts ==
  ASSUME SessionsTyped, prog' = prog, NEW i \in Instances, NEW to \in SessionRecord, Move(i, to)
  PROVE  SessionsTyped' /\ Elsewhere(i) /\ session'[i] = to
BY SameProgram DEF SessionsTyped, Move, Elsewhere

LEMMA FreshFacts ==
  ASSUME SessionsTyped, NEW i \in Instances, NEW pc \in PlacesOfLaunch
  PROVE  /\ Idle \in SessionRecord /\ Fresh(i, pc) \in SessionRecord
         /\ Fresh(i, pc).pc = pc /\ Fresh(i, pc).mode = session[i].mode
         /\ Fresh(i, pc).kind = "none" /\ Fresh(i, pc).todo = <<>>
         /\ Fresh(i, pc).code = 0
<1>1. Idle \in SessionRecord
  BY DEF Idle, SessionRecord, PlacesOfLaunch, ModeNames, Texts, Reserved, None
<1>2. session[i].mode \in ModeNames BY DEF SessionsTyped, SessionRecord
<1> QED BY <1>1, <1>2 DEF Fresh, Idle, SessionRecord

LEMMA EndsFacts ==
  ASSUME SessionsTyped, prog' = prog, NEW i \in Instances, NEW code \in {0, 1},
         LaunchEnds(i, code)
  PROVE  /\ SessionsTyped' /\ Elsewhere(i)
         /\ session'[i].pc = "ended" /\ session'[i].code = code
         /\ session'[i].mode = session[i].mode
<1> DEFINE f == Fresh(i, "ended")
<1>1. f \in SessionRecord /\ f.pc = "ended" /\ f.mode = session[i].mode
  BY FreshFacts DEF PlacesOfLaunch
<1> HIDE DEF f
<1>2. PICK to : to = [f EXCEPT !.code = code] OBVIOUS
<1>3. to \in SessionRecord /\ to.pc = "ended" /\ to.code = code /\ to.mode = session[i].mode
  BY <1>1, <1>2 DEF SessionRecord
<1>4. Move(i, to) BY <1>2 DEF LaunchEnds, f
<1> QED BY <1>3, <1>4, MoveFacts

LEMMA FollowFacts ==
  ASSUME SessionsTyped, prog' = prog, NEW i \in Instances, NEW steps \in Seq(Known),
         NEW then \in {"ended", "menu"}, Follow(i, steps, then)
  PROVE  /\ SessionsTyped' /\ Elsewhere(i)
         /\ session'[i].pc = "steps" /\ session'[i].todo = steps
         /\ session'[i].then = then /\ session'[i].mode = session[i].mode
<1> DEFINE f == Fresh(i, "steps")
<1>1. f \in SessionRecord /\ f.pc = "steps" /\ f.mode = session[i].mode
  BY FreshFacts DEF PlacesOfLaunch
<1>2. PICK touched \in BOOLEAN :
        touched = (session[i].touched \/ session[i].kind = "create")
  OBVIOUS
<1> HIDE DEF f
<1>3. PICK to : to = [f EXCEPT !.todo = steps, !.then = then, !.touched = touched] OBVIOUS
<1>4. /\ to \in SessionRecord /\ to.pc = "steps" /\ to.todo = steps /\ to.then = then
      /\ to.mode = session[i].mode
  BY <1>1, <1>3 DEF SessionRecord
<1>5. Move(i, to) BY <1>2, <1>3 DEF Follow, f
<1> QED BY <1>4, <1>5, MoveFacts

(* What a move that is no new beginning leaves.                            *)
Keeps(i) ==
  LET s == session[i]
      t == session'[i]
  IN /\ t.mode = s.mode /\ t.then = s.then /\ t.code = s.code

LEMMA GoesFacts ==
  ASSUME SessionsTyped, prog' = prog, NEW i \in Instances, NEW pc \in PlacesOfLaunch,
         GoesTo(i, pc)
  PROVE  /\ SessionsTyped' /\ Elsewhere(i) /\ Keeps(i) /\ session'[i].pc = pc
         /\ session'[i].todo = session[i].todo /\ session'[i].at = session[i].at
         /\ session'[i].kind = session[i].kind /\ session'[i].bad = session[i].bad
         /\ session'[i].key = session[i].key /\ session'[i].value = session[i].value
         /\ session'[i].next = session[i].next
<1>1. PICK to : to = [session[i] EXCEPT !.pc = pc] OBVIOUS
<1>2. session[i] \in SessionRecord BY DEF SessionsTyped
<1>3. to \in SessionRecord BY <1>1, <1>2 DEF SessionRecord
<1>4. Move(i, to) BY <1>1 DEF GoesTo
<1>5. SessionsTyped' /\ Elsewhere(i) /\ session'[i] = to BY <1>3, <1>4, MoveFacts
<1> QED BY <1>1, <1>2, <1>5 DEF Keeps, SessionRecord

LEMMA WriteFacts ==
  ASSUME SessionsTyped, prog' = prog, NEW i \in Instances,
         NEW kind \in {"create", "sync", "edit"}, NEW next \in [Keys -> Texts],
         Write(i, kind, next)
  PROVE  /\ SessionsTyped' /\ Elsewhere(i) /\ Keeps(i) /\ session'[i].pc = "write"
         /\ session'[i].kind = kind /\ session'[i].next = next
         /\ session'[i].key = session[i].key /\ session'[i].value = session[i].value
<1>1. PICK to : to = [session[i] EXCEPT !.pc = "write", !.kind = kind, !.next = next] OBVIOUS
<1>2. session[i] \in SessionRecord BY DEF SessionsTyped
<1>3. to \in SessionRecord BY <1>1, <1>2 DEF SessionRecord, PlacesOfLaunch
<1>4. Move(i, to) BY <1>1 DEF Write
<1>5. SessionsTyped' /\ Elsewhere(i) /\ session'[i] = to BY <1>3, <1>4, MoveFacts
<1> QED BY <1>1, <1>2, <1>5 DEF Keeps, SessionRecord

LEMMA PassFacts ==
  ASSUME SessionsTyped, prog' = prog, NEW i \in Instances, session[i].todo # <<>>, Pass(i)
  PROVE  /\ SessionsTyped' /\ Elsewhere(i) /\ Keeps(i) /\ session'[i].pc = "steps"
         /\ session'[i].todo = Tail(session[i].todo)
<1>1. PICK to : to = [session[i] EXCEPT !.pc = "steps", !.todo = Tail(@)] OBVIOUS
<1>2. session[i] \in SessionRecord /\ Tail(session[i].todo) \in Seq(Known)
  BY DEF SessionsTyped, SessionRecord
<1>3. to \in SessionRecord BY <1>1, <1>2 DEF SessionRecord, PlacesOfLaunch
<1>4. Move(i, to) BY <1>1 DEF Pass
<1>5. SessionsTyped' /\ Elsewhere(i) /\ session'[i] = to BY <1>3, <1>4, MoveFacts
<1> QED BY <1>1, <1>2, <1>5 DEF Keeps, SessionRecord

(* The owner's next file, with or without a file missed.                   *)
LEMMA NextFileFacts ==
  ASSUME SessionsTyped, prog' = prog, NEW i \in Instances, NEW bad \in BOOLEAN,
         Move(i, [session[i] EXCEPT !.pc = "store", !.at = @ + 1, !.bad = bad])
  PROVE  /\ SessionsTyped' /\ Elsewhere(i) /\ Keeps(i) /\ session'[i].pc = "store"
         /\ session'[i].at = session[i].at + 1 /\ session'[i].bad = bad
         /\ session'[i].todo = session[i].todo
<1>1. PICK to : to = [session[i] EXCEPT !.pc = "store", !.at = @ + 1, !.bad = bad] OBVIOUS
<1>2. session[i] \in SessionRecord /\ session[i].at + 1 \in Nat
  BY DEF SessionsTyped, SessionRecord
<1>3. to \in SessionRecord BY <1>1, <1>2 DEF SessionRecord, PlacesOfLaunch, AtOwner
<1>4. Move(i, to) BY <1>1
<1>5. SessionsTyped' /\ Elsewhere(i) /\ session'[i] = to BY <1>3, <1>4, MoveFacts
<1> QED BY <1>1, <1>2, <1>5 DEF Keeps, SessionRecord


(* Where a launch goes with the file there, by its mode.                   *)
First(mode) == CASE mode = "plain" -> Plan.before [] mode = "init" -> Plan.init
                 [] mode = "seed" -> Plan.seed [] OTHER -> Plan.both
LEMMA ProceedFacts ==
  ASSUME SessionsTyped, DiskRight, prog' = prog, NEW i \in Instances, NEW mode \in ModeNames,
         Proceed(i, mode)
  PROVE  /\ SessionsTyped' /\ Elsewhere(i) /\ session'[i].mode = session[i].mode
         /\ \/ /\ mode = "disable"
               /\ session'[i].pc = "ended" /\ session'[i].code = 0
            \/ /\ mode # "disable" /\ session'[i].pc = "steps"
               /\ session'[i].todo = First(mode)
               /\ session'[i].then = IF mode = "plain" THEN "menu" ELSE "ended"
<1>1. First(mode) \in Seq(Known)
  BY StepsKnown DEF First, Sequels
<1>2. CASE mode = "disable"
  BY <1>2, EndsFacts DEF Proceed
<1>3. CASE mode # "disable"
  <2>1. Follow(i, First(mode), IF mode = "plain" THEN "menu" ELSE "ended")
    BY <1>3 DEF Proceed, First, ModeNames
  <2> QED BY <1>1, <1>3, <2>1, FollowFacts
<1> QED BY <1>2, <1>3

LEMMA WrittenFacts ==
  ASSUME SessionsTyped, DiskRight, prog' = prog, NEW i \in Instances, Written(i)
  PROVE  /\ SessionsTyped' /\ Elsewhere(i) /\ session'[i].mode = session[i].mode
         /\ \/ session[i].mode = "init" /\ session'[i].pc = "ask"
            \/ /\ session[i].mode # "init" /\ session[i].kind = "edit"
               /\ session'[i].pc = "menu"
            \/ /\ session[i].mode = "plain" /\ Plan.offers /\ session[i].kind # "edit"
               /\ session'[i].pc = "offer"
            \/ session[i].kind # "edit" /\ Proceed(i, session[i].mode)
<1> DEFINE T(pc, at) == [Fresh(i, pc) EXCEPT !.at = at, !.touched = TRUE]
<1>1. ASSUME NEW pc \in {"ask", "menu", "offer"}, NEW at \in Nat, Move(i, T(pc, at))
      PROVE  SessionsTyped' /\ Elsewhere(i) /\ session'[i].mode = session[i].mode
             /\ session'[i].pc = pc
  <2>1. pc \in PlacesOfLaunch BY DEF PlacesOfLaunch
  <2>2. PICK f : f = Fresh(i, pc) OBVIOUS
  <2>3. f \in SessionRecord /\ f.pc = pc /\ f.mode = session[i].mode
    BY <2>1, <2>2, FreshFacts
  <2>4. PICK to : to = [f EXCEPT !.at = at, !.touched = TRUE] OBVIOUS
  <2>5. to \in SessionRecord /\ to.pc = pc /\ to.mode = session[i].mode
    BY <2>3, <2>4 DEF SessionRecord
  <2>6. Move(i, to) BY <1>1, <2>2, <2>4
  <2> QED BY <2>5, <2>6, MoveFacts
<1>2. session[i].mode \in ModeNames /\ session[i].at + 1 \in Nat
  BY DEF SessionsTyped, SessionRecord
<1>3. CASE session[i].kind = "edit" /\ session[i].mode = "init"
  <2>1. Move(i, T("ask", session[i].at + 1)) BY <1>3 DEF Written
  <2> QED BY <1>1, <1>2, <1>3, <2>1
<1>4. CASE session[i].kind = "edit" /\ session[i].mode # "init"
  <2>1. Move(i, T("menu", 0)) BY <1>4 DEF Written
  <2> QED BY <1>1, <1>4, <2>1
<1>5. CASE session[i].kind = "create" /\ session[i].mode = "init"
  <2>1. Move(i, T("ask", 1)) BY <1>5 DEF Written
  <2> QED BY <1>1, <1>5, <2>1
<1>6. CASE session[i].kind = "create" /\ session[i].mode = "plain" /\ Plan.offers
  <2>1. Move(i, T("offer", 0)) BY <1>6 DEF Written
  <2> QED BY <1>1, <1>6, <2>1
<1>7. CASE /\ session[i].kind # "edit" /\ ~(session[i].kind = "create" /\ session[i].mode = "init")
           /\ ~(session[i].kind = "create" /\ session[i].mode = "plain" /\ Plan.offers)
  <2>1. Proceed(i, session[i].mode) BY <1>7 DEF Written
  <2> QED BY <1>2, <1>7, <2>1, ProceedFacts
<1> QED BY <1>3, <1>4, <1>5, <1>6, <1>7

LEMMA GiveUpFacts ==
  ASSUME SessionsTyped, prog' = prog, NEW i \in Instances, session[i].todo # <<>>, GiveUp(i)
  PROVE  /\ SessionsTyped' /\ Elsewhere(i) /\ session'[i].mode = session[i].mode
         /\ \/ NextStep(i).soft /\ Pass(i)
            \/ session'[i].pc = "ended" /\ session'[i].code = 1
BY PassFacts, EndsFacts DEF GiveUp, Keeps

LEMMA FailsFacts ==
  ASSUME SessionsTyped, prog' = prog, NEW i \in Instances, session[i].todo # <<>>, Fails(i)
  PROVE  /\ SessionsTyped' /\ Elsewhere(i) /\ session'[i].mode = session[i].mode
         /\ \/ NextStep(i).soft /\ Pass(i)
            \/ session'[i].pc = "ended" /\ session'[i].code = 1
            \/ /\ Keeps(i) /\ session'[i].pc = "store" /\ session'[i].bad = TRUE
               /\ session'[i].at = session[i].at + 1
               /\ session'[i].todo = session[i].todo
<1>1. CASE Store(i).goes
  <2>1. Move(i, [session[i] EXCEPT !.pc = "store", !.at = @ + 1, !.bad = TRUE])
    BY <1>1 DEF Fails
  <2> QED BY <2>1, NextFileFacts DEF Keeps
<1>2. CASE ~Store(i).goes
  BY <1>2, GiveUpFacts DEF Fails
<1> QED BY <1>1, <1>2

LEMMA NextFacts ==
  ASSUME SessionsTyped, prog' = prog, NEW i \in Instances, NextFile(i)
  PROVE  /\ SessionsTyped' /\ Elsewhere(i) /\ Keeps(i) /\ session'[i].pc = "store"
         /\ session'[i].at = session[i].at + 1 /\ session'[i].bad = session[i].bad
         /\ session'[i].todo = session[i].todo
<1>1. session[i] \in SessionRecord /\ session[i].bad \in BOOLEAN
  BY DEF SessionsTyped, SessionRecord
<1>2. [session[i] EXCEPT !.pc = "store", !.at = @ + 1]
        = [session[i] EXCEPT !.pc = "store", !.at = @ + 1, !.bad = session[i].bad]
  BY <1>1 DEF SessionRecord
<1> QED BY <1>1, <1>2, NextFileFacts DEF NextFile


(***************************************************************************)
(* Types are kept.                                                         *)
(***************************************************************************)
LEMMA RightElsewhere ==
  ASSUME SessionsTyped, SessionsRight, prog' = prog, NEW i \in Instances, Elsewhere(i),
         NextRight(i)', EntryRight(i)', PlaceRight(i)'
  PROVE  SessionsRight'
<1>1. ASSUME NEW j \in Instances, j # i
      PROVE  NextRight(j)' /\ EntryRight(j)' /\ PlaceRight(j)'
  <2>1. session'[j] = session[j] BY <1>1 DEF Elsewhere
  <2>2. NextRight(j) /\ EntryRight(j) /\ PlaceRight(j) BY DEF SessionsRight
  <2> QED BY <2>1, <2>2, SameProgram
          DEF NextRight, EntryRight, PlaceRight, Holds, Editing, Is, Store, NextStep
<1> QED BY <1>1 DEF SessionsRight

Calm == PlacesOfLaunch \ ({"read", "write", "fill"} \cup AtOwner)
LEMMA CalmRight ==
  ASSUME SessionsTyped, SessionsRight, prog' = prog, NEW i \in Instances, Elsewhere(i),
         session'[i].pc \in Calm
  PROVE  SessionsRight'
<1>1. NextRight(i)' /\ EntryRight(i)' /\ PlaceRight(i)'
  BY DEF NextRight, EntryRight, PlaceRight, Holds, Editing, Is, Calm
<1> QED BY <1>1, RightElsewhere

LEMMA CalmPlaces ==
  {"idle", "inspect", "menu", "ask", "offer", "steps", "ended"} \subseteq Calm
BY DEF Calm, PlacesOfLaunch, AtOwner

LEMMA PassRight ==
  ASSUME SessionsTyped, SessionsRight, prog' = prog, NEW i \in Instances,
         session[i].todo # <<>>, GiveUp(i) \/ Pass(i)
  PROVE  SessionsTyped' /\ SessionsRight'
BY GiveUpFacts, PassFacts, CalmRight, CalmPlaces

LEMMA StoreRight ==
  ASSUME SessionsTyped, SessionsRight, prog' = prog, NEW i \in Instances,
         session[i].todo # <<>>, Fails(i) \/ NextFile(i)
  PROVE  SessionsTyped' /\ SessionsRight'
<1>1. CASE session'[i].pc = "store" /\ session'[i].at = session[i].at + 1
           /\ session'[i].todo = session[i].todo /\ Elsewhere(i)
  <2>1. session[i].at \in Nat BY DEF SessionsTyped, SessionRecord
  <2>2. NextRight(i)' /\ EntryRight(i)' /\ PlaceRight(i)'
    BY <1>1, <2>1 DEF NextRight, EntryRight, PlaceRight, Holds, Editing, Is
  <2> QED BY <1>1, <2>2, RightElsewhere, FailsFacts, NextFacts
<1>2. CASE ~(session'[i].pc = "store" /\ session'[i].at = session[i].at + 1
           /\ session'[i].todo = session[i].todo /\ Elsewhere(i))
  <2>1. Fails(i) BY <1>2, NextFacts
  <2> QED BY <1>2, <2>1, FailsFacts, PassRight, CalmRight, CalmPlaces
<1> QED BY <1>1, <1>2

LEMMA GoesRight ==
  ASSUME SessionsTyped, SessionsRight, prog' = prog, NEW i \in Instances,
         session[i].pc \in AtOwner, session[i].at <= Len(Store(i).files),
         NEW pc \in AtOwner, GoesTo(i, pc)
  PROVE  SessionsTyped' /\ SessionsRight'
<1>1. /\ SessionsTyped' /\ Elsewhere(i) /\ session'[i].pc = pc
      /\ session'[i].todo = session[i].todo /\ session'[i].at = session[i].at
  BY GoesFacts DEF PlacesOfLaunch
<1>2. PlaceRight(i) BY DEF SessionsRight
<1>3. NextRight(i)' /\ EntryRight(i)' /\ PlaceRight(i)'
  BY <1>1, <1>2 DEF NextRight, EntryRight, PlaceRight, Holds, Editing, Is, AtOwner, Store,
     NextStep
<1> QED BY <1>1, <1>3, RightElsewhere

(* The file an owner is at.                                                *)
LEMMA SlotFacts ==
  ASSUME OwnerTypes, NEW i \in Instances, session[i].pc \in AtOwner
  PROVE  /\ session[i].todo # <<>> /\ NextStep(i) \in Known /\ StoreOK(Store(i))
         /\ session[i].at \in Nat /\ session[i].at >= 1
         /\ session[i].at <= Len(Store(i).files) =>
              /\ session[i].at \in DOMAIN Store(i).files
              /\ Name(i) \in StoreFiles /\ Slot(i).leaves \in {"whole", "blank"}
<1>1. session[i].todo # <<>> /\ session[i].at >= 1
  BY DEF OwnerTypes, SessionsRight, PlaceRight
<1>2. session[i].todo \in Seq(Known) /\ session[i].at \in Nat
  BY DEF OwnerTypes, SessionsTyped, SessionRecord
<1>3. NextStep(i) \in Known BY <1>1, <1>2 DEF NextStep
<1>4. NextStep(i).owner \in OwnerNames BY <1>3 DEF Known, StepRecord
<1>5. StoreOK(Store(i)) BY <1>4, StoreFacts DEF Store
<1>6. ASSUME session[i].at <= Len(Store(i).files)
      PROVE  /\ session[i].at \in DOMAIN Store(i).files
             /\ Name(i) \in StoreFiles /\ Slot(i).leaves \in {"whole", "blank"}
  <2>1. session[i].at \in DOMAIN Store(i).files BY <1>1, <1>2, <1>5, <1>6 DEF StoreOK
  <2>2. Slot(i) \in Slots(NextStep(i).owner) BY <2>1 DEF Slots, Slot, Store
  <2>3. Name(i) \in FilesOf(NextStep(i).owner) BY <2>2 DEF Name, FilesOf
  <2>4. Name(i) \in StoreFiles BY <1>3, <2>3 DEF Known
  <2> QED BY <1>5, <2>1, <2>4 DEF StoreOK, Slot
<1> QED BY <1>1, <1>2, <1>3, <1>5, <1>6


DiskSame == UNCHANGED <<prog, present, file, stores, temps, chosen, spoiled>>
LEMMA SameDisk == ASSUME DiskRight, DiskSame PROVE DiskRight'
BY SameProgram DEF DiskRight, DiskSame

(* What a program takes for a setting is one of its values.                *)
LEMMA ResolvedFacts ==
  ASSUME DiskRight, NEW k \in Keys
  PROVE  /\ Taken(k) \in Rows[k].values
         /\ Rows[k].unread # Fail => Resolve(Rows[k].unread) \in Rows[k].values
         /\ Rows[k].first \in Rows[k].values
<1>1. RowOK(Rows[k]) /\ file[k] \in Rows[k].values \cup {Missing, Junk}
  BY RowsAre DEF DiskRight
<1>2. PICK r : r = Rows[k] OBVIOUS
<1>3. \A word \in r.values \cup {SharedPolicy} :
        (word = SharedPolicy => OnOff \subseteq r.values) => Resolve(word) \in r.values
  BY SharedAssumption DEF Resolve
<1>4. Resolve(r.missing) \in r.values /\ Resolve(r.junk) \in r.values
  BY <1>1, <1>2, <1>3 DEF RowOK
<1>5. r.unread # Fail => Resolve(r.unread) \in r.values
  BY <1>1, <1>2, <1>3 DEF RowOK
<1>6. \A word \in r.values : Resolve(word) \in r.values
  BY <1>1, <1>2, <1>3 DEF RowOK, Reserved
<1>7. Taken(k) \in Rows[k].values
  BY <1>1, <1>2, <1>4, <1>6 DEF Taken
<1> QED BY <1>1, <1>2, <1>5, <1>7 DEF RowOK

LEMMA TextsFacts ==
  /\ \A k \in Keys : Rows[k].values \subseteq Texts
  /\ {Missing, Junk, None} \subseteq Texts
BY DEF Texts, Reserved

(* A session that has begun to write.                                      *)
LEMMA WriteRight ==
  ASSUME OwnerTypes, prog' = prog, NEW i \in Instances,
         NEW kind \in {"create", "sync", "edit"}, NEW next \in [Keys -> Texts],
         \A k \in Keys : next[k] \in Rows[k].values \cup
                         (IF kind = "sync" THEN {Missing, Junk} ELSE {}),
         kind = "edit" => Editing(i),
         Write(i, kind, next)
  PROVE  SessionsTyped' /\ SessionsRight'
<1>2. /\ SessionsTyped' /\ Elsewhere(i) /\ session'[i].pc = "write"
      /\ session'[i].kind = kind /\ session'[i].next = next
      /\ session'[i].key = session[i].key /\ session'[i].value = session[i].value
  BY WriteFacts DEF OwnerTypes
<1>3. EntryRight(i) BY DEF OwnerTypes, SessionsRight
<1>4. NextRight(i)' /\ EntryRight(i)' /\ PlaceRight(i)'
  BY <1>2, <1>3, SameProgram
     DEF NextRight, EntryRight, PlaceRight, Holds, Editing, Is, AtOwner
<1> QED BY <1>2, <1>4, RightElsewhere DEF OwnerTypes

LEMMA LaunchTypes ==
  ASSUME OwnerTypes, NEW i \in Instances,
         \/ \E mode \in LaunchModes : Launch(i, mode)
         \/ Inspect(i) \/ SynchronizeVersion(i)
  PROVE  OwnerTypes'
<1>1. prog' = prog /\ DiskSame
  BY DEF Launch, Inspect, SynchronizeVersion, DiskSame, disk, ownerMarks
<1>2. DiskRight' BY <1>1, SameDisk DEF OwnerTypes
<1>3. session[i].mode \in ModeNames BY DEF OwnerTypes, SessionsTyped, SessionRecord
<1>4. ASSUME NEW mode \in LaunchModes, Launch(i, mode) PROVE SessionsTyped' /\ SessionsRight'
  <2>1. PICK to : to = [Idle EXCEPT !.pc = "inspect", !.mode = mode] OBVIOUS
  <2>2. Idle \in SessionRecord /\ mode \in ModeNames
    BY FreshFacts DEF OwnerTypes, LaunchModes, ModeNames, PlacesOfLaunch
  <2>3. to \in SessionRecord /\ to.pc = "inspect"
    BY <2>1, <2>2 DEF SessionRecord, PlacesOfLaunch
  <2>4. Move(i, to) BY <1>4, <2>1 DEF Launch
  <2> QED BY <1>1, <2>3, <2>4, MoveFacts, CalmRight, CalmPlaces DEF OwnerTypes
<1>5. ASSUME LaunchEnds(i, 1) \/ Proceed(i, session[i].mode)
      PROVE  SessionsTyped' /\ SessionsRight'
  BY <1>1, <1>3, <1>5, EndsFacts, ProceedFacts, CalmRight, CalmPlaces DEF OwnerTypes
<1>6. ASSUME Write(i, "create", Defaults(session[i].mode))
      PROVE  SessionsTyped' /\ SessionsRight'
  <2>1. PICK next : next = Defaults(session[i].mode) OBVIOUS
  <2>2. /\ DOMAIN next = Keys /\ next = [k \in Keys |-> next[k]]
        /\ \A k \in Keys : next[k] = IF session[i].mode = "disable" /\ Rows[k].key = "disable_all"
                                     THEN "on" ELSE Rows[k].first
    BY <2>1 DEF Defaults
  <2>3. \A k \in Keys : next[k] \in Rows[k].values
    BY <2>2, RowsAre DEF OwnerTypes, RowOK, OnOff
  <2>4. next \in [Keys -> Texts] BY <2>2, <2>3, TextsFacts
  <2> QED BY <1>1, <1>6, <2>1, <2>3, <2>4, WriteRight
<1>7. ASSUME Write(i, "sync", file) PROVE SessionsTyped' /\ SessionsRight'
  BY <1>1, <1>7, WriteRight DEF OwnerTypes, DiskRight
<1> QED BY <1>2, <1>4, <1>5, <1>6, <1>7 DEF OwnerTypes, Inspect, SynchronizeVersion

(* The steps of an edit.                                                   *)
LEMMA EditTypes ==
  ASSUME OwnerTypes, NEW i \in Instances,
         \/ \E k \in Keys : \E value \in Rows[k].values : Enter(i, k, value)
         \/ Read(i) \/ Truncate(i) \/ Fill(i)
  PROVE  OwnerTypes'
<1>1. prog' = prog BY DEF Enter, Read, Truncate, Fill
<1>2. session[i] \in SessionRecord /\ session[i].mode \in ModeNames
  BY DEF OwnerTypes, SessionsTyped, SessionRecord
<1>3. ASSUME LaunchEnds(i, 1) PROVE SessionsTyped' /\ SessionsRight'
  BY <1>1, <1>3, EndsFacts, CalmRight, CalmPlaces DEF OwnerTypes
<1>4. ASSUME NEW k \in Keys, NEW value \in Rows[k].values, Enter(i, k, value)
      PROVE  OwnerTypes'
  <2>1. PICK to : to = [session[i] EXCEPT !.pc = "read", !.key = k, !.value = value] OBVIOUS
  <2>2. value \in Texts /\ k \in Nat BY TextsFacts, RowsAre DEF OwnerTypes
  <2>3. to \in SessionRecord /\ to.pc = "read" /\ to.key = k /\ to.value = value
    BY <1>2, <2>1, <2>2 DEF SessionRecord, PlacesOfLaunch
  <2>4. Move(i, to) BY <1>4, <2>1 DEF Enter
  <2>5. SessionsTyped' /\ Elsewhere(i) /\ session'[i] = to
    BY <1>1, <2>3, <2>4, MoveFacts DEF OwnerTypes
  <2>6. NextRight(i)' /\ EntryRight(i)' /\ PlaceRight(i)'
    BY <1>1, <2>3, <2>5, SameProgram
       DEF NextRight, EntryRight, PlaceRight, Holds, Editing, Is, AtOwner
  <2>7. DiskSame BY <1>4 DEF Enter, DiskSame, disk, ownerMarks
  <2> QED BY <1>1, <2>5, <2>6, <2>7, RightElsewhere, SameDisk DEF OwnerTypes
<1>5. ASSUME Read(i) PROVE OwnerTypes'
  <2>1. DiskRight' BY <1>5, SameDisk DEF OwnerTypes, Read, DiskSame, disk
  <2>2. session[i].key \in Keys /\ session[i].value \in Rows[session[i].key].values
    BY <1>5 DEF OwnerTypes, SessionsRight, EntryRight, Editing, Read
  <2>3. Editing(i) BY <1>5 DEF Editing, Read
  <2>4. CASE Write(i, "edit", Changed(i, [k \in Keys |-> Taken(k)]))
    <3>1. PICK others : others = [k \in Keys |-> Taken(k)] OBVIOUS
    <3>2. PICK next : next = Changed(i, others) OBVIOUS
    <3>3. /\ DOMAIN next = Keys /\ next = [k \in Keys |-> next[k]]
          /\ \A k \in Keys : next[k] \in Rows[k].values
      BY <2>2, <3>1, <3>2, ResolvedFacts DEF OwnerTypes, Changed
    <3>4. next \in [Keys -> Texts] BY <3>3, TextsFacts
    <3>5. Write(i, "edit", next) BY <2>4, <3>1, <3>2
    <3> QED BY <1>1, <2>1, <2>3, <3>3, <3>4, <3>5, WriteRight DEF OwnerTypes
  <2>5. CASE /\ ~Gives(session[i].key)
             /\ Write(i, "edit", Changed(i, [k \in Keys |-> Resolve(Rows[k].unread)]))
    <3>1. \A k \in Keys \ {session[i].key} : Resolve(Rows[k].unread) \in Rows[k].values
      BY <2>5, ResolvedFacts DEF OwnerTypes, Gives
    <3>2. PICK others : others = [k \in Keys |-> Resolve(Rows[k].unread)] OBVIOUS
    <3>3. PICK next : next = Changed(i, others) OBVIOUS
    <3>4. /\ DOMAIN next = Keys /\ next = [k \in Keys |-> next[k]]
          /\ \A k \in Keys : next[k] \in Rows[k].values
      BY <2>2, <3>1, <3>2, <3>3 DEF Changed
    <3>5. next \in [Keys -> Texts] BY <3>4, TextsFacts
    <3>6. Write(i, "edit", next) BY <2>5, <3>2, <3>3
    <3> QED BY <1>1, <2>1, <2>3, <3>4, <3>5, <3>6, WriteRight DEF OwnerTypes
  <2> QED BY <1>3, <1>5, <2>1, <2>4, <2>5 DEF Read, OwnerTypes
<1>6. ASSUME Truncate(i) PROVE OwnerTypes'
  <2>1. CASE LaunchEnds(i, 1) /\ UNCHANGED <<present, file>>
    <3>1. DiskSame BY <1>6, <2>1 DEF DiskSame, Truncate
    <3> QED BY <1>3, <2>1, <3>1, SameDisk DEF OwnerTypes
  <2>2. CASE GoesTo(i, "fill") /\ present' = TRUE /\ file' = [k \in Keys |-> Missing]
    <3>1. DiskRight'
      BY <1>6, <2>2, TextsFacts, SameProgram DEF OwnerTypes, DiskRight, Truncate
    <3>2. /\ SessionsTyped' /\ Elsewhere(i) /\ session'[i].pc = "fill"
          /\ session'[i].kind = session[i].kind /\ session'[i].key = session[i].key
          /\ session'[i].value = session[i].value /\ session'[i].next = session[i].next
      BY <1>1, <2>2, GoesFacts DEF OwnerTypes, PlacesOfLaunch
    <3>3. NextRight(i) /\ EntryRight(i) /\ session[i].pc = "write"
      BY <1>6 DEF OwnerTypes, SessionsRight, Truncate, Is
    <3>4. NextRight(i)' /\ EntryRight(i)' /\ PlaceRight(i)'
      BY <1>1, <3>2, <3>3, SameProgram
         DEF NextRight, EntryRight, PlaceRight, Holds, Editing, Is, AtOwner
    <3> QED BY <1>1, <3>1, <3>2, <3>4, RightElsewhere DEF OwnerTypes
  <2> QED BY <1>6, <2>1, <2>2 DEF Truncate
<1>7. ASSUME Fill(i) PROVE OwnerTypes'
  <2>1. CASE LaunchEnds(i, 1) /\ UNCHANGED <<file, chosen>>
    <3>1. DiskSame BY <1>7, <2>1 DEF DiskSame, Fill
    <3> QED BY <1>3, <2>1, <3>1, SameDisk DEF OwnerTypes
  <2>2. CASE /\ Written(i) /\ file' = session[i].next
             /\ chosen' = IF session[i].kind = "edit"
                          THEN [chosen EXCEPT ![session[i].key] = session[i].value] ELSE chosen
    <3>1. NextRight(i) /\ EntryRight(i) /\ session[i].pc = "fill"
      BY <1>7 DEF OwnerTypes, SessionsRight, Fill, Is
    <3>2. /\ session[i].next \in [Keys -> Texts]
          /\ \A k \in Keys : session[i].next[k] \in Rows[k].values \cup {Missing, Junk}
      BY <3>1 DEF NextRight, Holds
    <3>3. session[i].kind = "edit" =>
            /\ session[i].key \in Keys /\ session[i].value \in Rows[session[i].key].values
            /\ session[i].value \in Texts
      BY <3>1, TextsFacts DEF EntryRight, Editing, Holds
    <3>4. chosen' \in [Keys -> Texts] /\ \A k \in Keys : chosen'[k] \in Rows[k].values \cup {None}
      BY <2>2, <3>3 DEF OwnerTypes, DiskRight
    <3>5. DiskRight'
      BY <1>7, <2>2, <3>2, <3>4, SameProgram DEF OwnerTypes, DiskRight, Fill
    <3>6. SessionsTyped' /\ Elsewhere(i) /\ session'[i].pc \in Calm
      BY <1>1, <1>2, <2>2, WrittenFacts, ProceedFacts, CalmPlaces DEF OwnerTypes
    <3> QED BY <1>1, <3>5, <3>6, CalmRight DEF OwnerTypes
  <2> QED BY <1>7, <2>1, <2>2 DEF Fill
<1> QED BY <1>4, <1>5, <1>6, <1>7

(* The user, and the owners a launch runs.                                 *)
LEMMA MenuTypes ==
  ASSUME OwnerTypes, NEW i \in Instances,
         \/ EndOfInput(i) \/ Keep(i) \/ Asked(i) \/ Leave(i) \/ Offered(i)
         \/ Complete(i) \/ Skip(i) \/ Unfinished(i) \/ Decline(i)
         \/ StartOwner(i) \/ OwnerReturns(i)
  PROVE  OwnerTypes'
<1>1. prog' = prog /\ DiskSame
  BY DEF EndOfInput, Keep, Asked, Leave, Offered, Complete, Skip, Unfinished, Decline,
     StartOwner, OwnerReturns, Quiet, DiskSame, disk, ownerMarks
<1>2. DiskRight' BY <1>1, SameDisk DEF OwnerTypes
<1>3. session[i] \in SessionRecord /\ session[i].mode \in ModeNames
  BY DEF OwnerTypes, SessionsTyped, SessionRecord
<1>4. ASSUME NEW code \in {0, 1}, LaunchEnds(i, code) PROVE SessionsTyped' /\ SessionsRight'
  BY <1>1, <1>4, EndsFacts, CalmRight, CalmPlaces DEF OwnerTypes
<1>5. ASSUME GoesTo(i, "menu") PROVE SessionsTyped' /\ SessionsRight'
  BY <1>1, <1>5, GoesFacts, CalmRight, CalmPlaces DEF OwnerTypes, PlacesOfLaunch
<1>6. ASSUME session[i].todo # <<>>, Pass(i) \/ GiveUp(i)
      PROVE  SessionsTyped' /\ SessionsRight'
  BY <1>1, <1>6, PassRight DEF OwnerTypes
<1>7. ASSUME Keep(i) PROVE SessionsTyped' /\ SessionsRight'
  <2>1. PICK to : to = [session[i] EXCEPT !.at = @ + 1] OBVIOUS
  <2>2. to \in SessionRecord /\ to.pc = "ask" BY <1>3, <1>7, <2>1 DEF SessionRecord, Keep, Is
  <2>3. Move(i, to) BY <1>7, <2>1 DEF Keep
  <2> QED BY <1>1, <2>2, <2>3, MoveFacts, CalmRight, CalmPlaces DEF OwnerTypes
<1>8. ASSUME Asked(i) PROVE SessionsTyped' /\ SessionsRight'
  BY <1>1, <1>8, ProceedFacts, CalmRight, CalmPlaces DEF OwnerTypes, Asked, ModeNames
<1>9. ASSUME Leave(i) PROVE SessionsTyped' /\ SessionsRight'
  <2>1. Plan.after \in Seq(Known) BY StepsKnown DEF OwnerTypes, Sequels
  <2> QED BY <1>1, <1>4, <1>9, <2>1, FollowFacts, CalmRight, CalmPlaces DEF OwnerTypes, Leave
<1>10. ASSUME StartOwner(i) PROVE SessionsTyped' /\ SessionsRight'
  <2>1. CASE LaunchEnds(i, 1) BY <1>4, <2>1
  <2>2. CASE Move(i, [session[i] EXCEPT !.pc = "store", !.at = 1, !.bad = FALSE])
    <3>1. PICK to : to = [session[i] EXCEPT !.pc = "store", !.at = 1, !.bad = FALSE] OBVIOUS
    <3>2. to \in SessionRecord /\ to.pc = "store" /\ to.at = 1 /\ to.todo # <<>>
      BY <1>3, <1>10, <3>1 DEF SessionRecord, PlacesOfLaunch, AtOwner, StartOwner, StepDue
    <3>3. SessionsTyped' /\ Elsewhere(i) /\ session'[i] = to
      BY <1>1, <2>2, <3>1, <3>2, MoveFacts DEF OwnerTypes
    <3>4. NextRight(i)' /\ EntryRight(i)' /\ PlaceRight(i)'
      BY <3>2, <3>3 DEF NextRight, EntryRight, PlaceRight, Holds, Editing, Is
    <3> QED BY <1>1, <3>3, <3>4, RightElsewhere DEF OwnerTypes
  <2> QED BY <1>10, <2>1, <2>2 DEF StartOwner
<1>11. ASSUME OwnerReturns(i) PROVE SessionsTyped' /\ SessionsRight'
  <2>1. session[i].todo # <<>> BY <1>11, SlotFacts DEF OwnerReturns, Is, AtOwner
  <2> QED BY <1>6, <1>11, <2>1 DEF OwnerReturns
<1>12. ASSUME EndOfInput(i) \/ Offered(i) \/ Complete(i) \/ Unfinished(i)
       PROVE  SessionsTyped' /\ SessionsRight'
  BY <1>4, <1>5, <1>12 DEF EndOfInput, Offered, Complete, Unfinished
<1>13. ASSUME Skip(i) \/ Decline(i) PROVE SessionsTyped' /\ SessionsRight'
  BY <1>4, <1>6, <1>13 DEF Skip, Decline, StepDue
<1> QED BY <1>2, <1>7, <1>8, <1>9, <1>10, <1>11, <1>12, <1>13 DEF OwnerTypes

(* A store file gets another content.                                      *)
LEMMA StoreKept ==
  ASSUME DiskRight, UNCHANGED <<prog, present, file, chosen>>,
         stores' \in [StoreFiles -> {"none", "part", "blank", "whole"}],
         temps' \in [StoreFiles -> {"none", "part", "whole"}], spoiled' \subseteq StoreFiles
  PROVE  DiskRight'
BY SameProgram DEF DiskRight

LEMMA FileTypes ==
  ASSUME OwnerTypes, NEW i \in Instances,
         \/ Look(i) \/ Answer(i) \/ OpenStore(i) \/ FillStore(i)
         \/ OpenTemp(i) \/ FillTemp(i) \/ Place(i) \/ Kill(i)
  PROVE  OwnerTypes'
<1>1. UNCHANGED <<prog, present, file, chosen>>
  BY DEF Look, Answer, OpenStore, FillStore, OpenTemp, FillTemp, Place, Kill, Quiet, StoreRest,
     disk, ownerMarks
<1>2. CASE Kill(i)
  <2>1. SessionsTyped' /\ SessionsRight'
    BY <1>1, <1>2, EndsFacts, CalmRight, CalmPlaces DEF OwnerTypes, Kill
  <2>2. spoiled' \subseteq StoreFiles
    BY <1>2, SlotFacts DEF Kill, Spoil, AtFile, Is, AtOwner, OwnerTypes, DiskRight
  <2>3. UNCHANGED <<stores, temps>> BY <1>2 DEF Kill, disk
  <2> QED BY <1>1, <2>1, <2>2, <2>3, StoreKept DEF OwnerTypes, DiskRight
<1>3. CASE ~Kill(i)
  <2>1. session[i].pc \in AtOwner /\ session[i].at <= Len(Store(i).files)
    BY <1>3 DEF Look, Answer, OpenStore, FillStore, OpenTemp, FillTemp, Place, AtFile, Is, AtOwner
  <2>2. session[i].todo # <<>> /\ Name(i) \in StoreFiles /\ Slot(i).leaves \in {"whole", "blank"}
    BY <2>1, SlotFacts
  <2>3. ASSUME Fails(i) \/ NextFile(i) PROVE SessionsTyped' /\ SessionsRight'
    BY <1>1, <2>2, <2>3, StoreRight DEF OwnerTypes
  <2>4. ASSUME GiveUp(i) PROVE SessionsTyped' /\ SessionsRight'
    BY <1>1, <2>2, <2>4, PassRight DEF OwnerTypes
  <2>5. ASSUME NEW pc \in AtOwner, GoesTo(i, pc) PROVE SessionsTyped' /\ SessionsRight'
    BY <1>1, <2>1, <2>5, GoesRight DEF OwnerTypes
  <2>6. SessionsTyped' /\ SessionsRight'
    BY <1>3, <2>3, <2>4, <2>5
       DEF Look, Answer, OpenStore, FillStore, OpenTemp, FillTemp, Place, AtOwner
  <2>7. /\ stores \in [StoreFiles -> {"none", "part", "blank", "whole"}]
        /\ temps \in [StoreFiles -> {"none", "part", "whole"}] /\ spoiled \subseteq StoreFiles
    BY DEF OwnerTypes, DiskRight
  <2>8. stores' \in [StoreFiles -> {"none", "part", "blank", "whole"}]
    BY <1>3, <2>2, <2>7
       DEF Look, Answer, OpenStore, FillStore, OpenTemp, FillTemp, Place, Name, Quiet, disk
  <2>9. temps' \in [StoreFiles -> {"none", "part", "whole"}]
    BY <1>3, <2>2, <2>7
       DEF Look, Answer, OpenStore, FillStore, OpenTemp, FillTemp, Place, Name, Quiet, disk
  <2>10. spoiled' \subseteq StoreFiles
    BY <1>3, <2>2, <2>7
       DEF Look, Answer, OpenStore, FillStore, OpenTemp, FillTemp, Place, Name, Quiet, ownerMarks, Spoil
  <2> QED BY <1>1, <2>6, <2>8, <2>9, <2>10, StoreKept DEF OwnerTypes
<1> QED BY <1>2, <1>3

LEMMA OwnerStep ==
  ASSUME OwnerTypes, [OwnerNext]_ownerVars PROVE OwnerTypes'
<1>1. CASE UNCHANGED ownerVars
  <2>1. UNCHANGED <<prog, session>> /\ DiskSame BY <1>1 DEF ownerVars, DiskSame, disk, ownerMarks
  <2> QED BY <2>1, SameProgram, SameDisk
          DEF OwnerTypes, SessionsTyped, SessionsRight, NextRight, EntryRight, PlaceRight, Holds,
              Editing, Is, Store, NextStep
<1>2. CASE OwnerNext
  BY <1>2, LaunchTypes, EditTypes, MenuTypes, FileTypes DEF OwnerNext
<1> QED BY <1>1, <1>2

LEMMA OwnerStart == ASSUME OwnerInit PROVE OwnerTypes
<1>1. prog \in DOMAIN Programs BY SubjectsAssumption DEF OwnerInit
<1>2. \A k \in Keys : RowOK(Rows[k])
  BY <1>1, RowsFacts DEF Rows, Keys, RowsOK
<1>3. present \in BOOLEAN /\ file \in [Keys -> Texts]
      /\ \A k \in Keys : file[k] \in Rows[k].values \cup {Missing, Junk}
  <2>1. \A k \in Keys : (CHOOSE word \in Rows[k].values : word # Rows[k].first) \in Rows[k].values
    BY <1>2 DEF RowOK
  <2> QED BY <2>1, TextsFacts DEF OwnerInit, Files
<1>4. DiskRight BY <1>3, TextsFacts DEF OwnerInit, DiskRight
<1>5. session = [i \in Instances |-> Idle] /\ Idle.pc = "idle" BY DEF OwnerInit, Idle
<1>6. Idle \in SessionRecord
  BY DEF Idle, SessionRecord, PlacesOfLaunch, ModeNames, Texts, Reserved, None
<1>7. SessionsTyped /\ SessionsRight
  BY <1>5, <1>6 DEF SessionsTyped, SessionsRight, NextRight, EntryRight, PlaceRight, Holds,
     Editing, Is, AtOwner
<1> QED BY <1>4, <1>7 DEF OwnerTypes

LEMMA OwnersAreTyped == OwnerSpec => []OwnerTypes
<1>1. OwnerInit => OwnerTypes BY OwnerStart
<1>2. OwnerTypes /\ [OwnerNext]_ownerVars => OwnerTypes' BY OwnerStep
<1> QED BY <1>1, <1>2, PTL DEF OwnerSpec

(* What a file, a store and a text about to be written can hold.           *)
THEOREM OwnersTyped == OwnerSpec => []OwnerTypeOK
<1>1. OwnerTypes => OwnerTypeOK
  BY DEF OwnerTypes, OwnerTypeOK, DiskRight, SessionsRight, NextRight, Is
<1> QED BY <1>1, OwnersAreTyped, PTL

(***************************************************************************)
(* The contract.                                                           *)
(***************************************************************************)
(* Every step but a launch leads away from the first look at the file.     *)
LEMMA OnwardFacts ==
  ASSUME OwnerTypes, NEW i \in Instances,
         \/ \E k \in Keys : \E value \in Rows[k].values : Enter(i, k, value)
         \/ Inspect(i) \/ SynchronizeVersion(i) \/ Truncate(i) \/ Fill(i)
         \/ Read(i) \/ Kill(i)
         \/ EndOfInput(i) \/ Keep(i) \/ Asked(i) \/ Leave(i) \/ Offered(i)
         \/ Complete(i) \/ Skip(i) \/ Unfinished(i) \/ Decline(i)
         \/ StartOwner(i) \/ OwnerReturns(i) \/ Look(i) \/ Answer(i)
         \/ OpenStore(i) \/ FillStore(i)
         \/ OpenTemp(i) \/ FillTemp(i) \/ Place(i)
  PROVE  /\ Elsewhere(i) /\ session'[i].pc \notin {"idle", "inspect"}
         /\ session'[i].code \in {0, 1}
         /\ session'[i].pc \in {"write", "fill"} =>
              Inspect(i) \/ SynchronizeVersion(i) \/ Truncate(i) \/ Read(i)
         /\ session'[i].pc \in {"storing", "moving"} => OpenStore(i) \/ FillTemp(i)
<1>1. prog' = prog BY ProgramKept
<1>2. /\ session \in [Instances -> SessionRecord] /\ session[i] \in SessionRecord
      /\ session[i].mode \in ModeNames
  BY DEF OwnerTypes, SessionsTyped, SessionRecord
<1>3. session'[i] \in SessionRecord
  BY <1>1, LaunchTypes, EditTypes, MenuTypes, FileTypes, SameProgram DEF OwnerTypes, SessionsTyped
<1>4. session'[i].code \in {0, 1} BY <1>3 DEF SessionRecord
<1> DEFINE Away == /\ Elsewhere(i)
                   /\ session'[i].pc \notin {"idle", "inspect", "write", "fill", "storing", "moving"}
           Past == Elsewhere(i) /\ session'[i].pc \notin {"idle", "inspect", "storing", "moving"}
           Making == Elsewhere(i) /\ session'[i].pc \notin {"idle", "inspect", "write", "fill"}
<1>5. ASSUME NEW code \in {0, 1}, LaunchEnds(i, code) PROVE Away
  BY <1>1, <1>5, EndsFacts DEF OwnerTypes
<1>6. ASSUME NEW pc \in PlacesOfLaunch \ {"idle", "inspect"}, GoesTo(i, pc)
      PROVE  /\ pc \notin {"write", "fill", "storing", "moving"} => Away
             /\ pc = "fill" => Past
             /\ pc \in {"storing", "moving"} => Making
  BY <1>1, <1>6, GoesFacts DEF OwnerTypes
<1>7. ASSUME NEW mode \in ModeNames, Proceed(i, mode) PROVE Away
  BY <1>1, <1>7, ProceedFacts DEF OwnerTypes
<1>8. ASSUME NEW kind, NEW next, Write(i, kind, next) PROVE Past
  <2>1. PICK to : to = [session[i] EXCEPT !.pc = "write", !.kind = kind, !.next = next] OBVIOUS
  <2>2. to.pc = "write" BY <1>2, <2>1 DEF SessionRecord
  <2>3. session' = [session EXCEPT ![i] = to] BY <1>8, <2>1 DEF Write, Move
  <2> QED BY <1>2, <2>2, <2>3 DEF Elsewhere
<1>9. ASSUME session[i].pc \in AtOwner \/ StepDue(i), Pass(i) \/ GiveUp(i) PROVE Away
  <2>1. session[i].todo # <<>> BY <1>9, SlotFacts DEF StepDue
  <2> QED BY <1>1, <1>9, <2>1, PassFacts, GiveUpFacts DEF OwnerTypes
<1>10. ASSUME session[i].pc \in AtOwner, Fails(i) \/ NextFile(i) PROVE Away
  <2>1. session[i].todo # <<>> BY <1>10, SlotFacts
  <2> QED BY <1>1, <1>9, <1>10, <2>1, FailsFacts, NextFacts DEF OwnerTypes
<1>11. ASSUME NEW k \in Keys, NEW value \in Rows[k].values, Enter(i, k, value) PROVE Away
  <2>1. PICK to : to = [session[i] EXCEPT !.pc = "read", !.key = k, !.value = value] OBVIOUS
  <2>2. to.pc = "read" BY <1>2, <2>1 DEF SessionRecord
  <2>3. session' = [session EXCEPT ![i] = to] BY <1>11, <2>1 DEF Enter, Move
  <2> QED BY <1>2, <2>2, <2>3 DEF Elsewhere
<1>12. ASSUME Keep(i) PROVE Away
  <2>1. PICK to : to = [session[i] EXCEPT !.at = @ + 1] OBVIOUS
  <2>2. to.pc = "ask" BY <1>2, <1>12, <2>1 DEF SessionRecord, Keep, Is
  <2>3. session' = [session EXCEPT ![i] = to] BY <1>12, <2>1 DEF Keep, Move
  <2> QED BY <1>2, <2>2, <2>3 DEF Elsewhere
<1>13. ASSUME StartOwner(i) PROVE Away
  <2>1. CASE Move(i, [session[i] EXCEPT !.pc = "store", !.at = 1, !.bad = FALSE])
    <3>1. PICK to : to = [session[i] EXCEPT !.pc = "store", !.at = 1, !.bad = FALSE] OBVIOUS
    <3>2. to.pc = "store" BY <1>2, <3>1 DEF SessionRecord
    <3>3. session' = [session EXCEPT ![i] = to] BY <2>1, <3>1 DEF Move
    <3> QED BY <1>2, <3>2, <3>3 DEF Elsewhere
  <2> QED BY <1>5, <1>13, <2>1 DEF StartOwner
<1>14. ASSUME Leave(i) PROVE Away
  <2>1. Plan.after \in Seq(Known) BY StepsKnown DEF OwnerTypes, Sequels
  <2> QED BY <1>1, <1>5, <1>14, <2>1, FollowFacts DEF OwnerTypes, Leave
<1>15. ASSUME Fill(i) PROVE Away
  <2>1. CASE Written(i)
    BY <1>1, <1>2, <1>7, <2>1, WrittenFacts DEF OwnerTypes
  <2> QED BY <1>5, <1>15, <2>1 DEF Fill
<1>16. ASSUME Inspect(i) \/ SynchronizeVersion(i) \/ Truncate(i) \/ Read(i) PROVE Past
  BY <1>2, <1>5, <1>6, <1>7, <1>8, <1>16
     DEF Inspect, SynchronizeVersion, Truncate, Read, PlacesOfLaunch
<1>17. ASSUME \/ EndOfInput(i) \/ Asked(i) \/ Offered(i) \/ Complete(i) \/ Skip(i)
              \/ Unfinished(i) \/ Decline(i) \/ OwnerReturns(i) \/ Kill(i)
       PROVE Away
  BY <1>5, <1>6, <1>7, <1>9, <1>17
     DEF EndOfInput, Asked, Offered, Complete, Skip, Unfinished, Decline, OwnerReturns, Kill,
         PlacesOfLaunch, ModeNames, AtOwner, Is
<1>18. ASSUME \/ Look(i) \/ Answer(i) \/ OpenStore(i) \/ FillStore(i)
              \/ OpenTemp(i) \/ FillTemp(i) \/ Place(i)
       PROVE Away \/ (Making /\ (OpenStore(i) \/ FillTemp(i)))
  <2>1. session[i].pc \in AtOwner
    BY <1>18 DEF Look, Answer, OpenStore, FillStore, OpenTemp, FillTemp, Place, AtFile, Is, AtOwner
  <2>2. CASE OpenStore(i) \/ FillTemp(i)
    BY <1>6, <1>10, <2>1, <2>2 DEF OpenStore, FillTemp, PlacesOfLaunch, AtOwner
  <2>3. CASE Look(i) \/ Answer(i) \/ FillStore(i) \/ OpenTemp(i) \/ Place(i)
    BY <1>6, <1>9, <1>10, <2>1, <2>3
       DEF Look, Answer, FillStore, OpenTemp, Place, PlacesOfLaunch, AtOwner
  <2> QED BY <1>18, <2>2, <2>3
<1> QED BY <1>4, <1>11, <1>12, <1>13, <1>14, <1>15, <1>16, <1>17, <1>18

(* Past its first look a launch has its file, unless it ends with 1 or is  *)
(* about to create it.                                                     *)
FileThere(i) ==
  \/ present \/ session[i].pc \in {"idle", "inspect"}
  \/ Is(i, "ended") /\ session[i].code = 1
  \/ Is(i, "write") /\ session[i].kind = "create"
Founded == OwnerTypes /\ \A i \in Instances : FileThere(i)

Ongoing(i) == session[i].pc \notin {"idle", "ended"}
(* A step of a launch: it begins, goes on, or ends.                        *)
Course(i) ==
  /\ Elsewhere(i)
  /\ \/ ~Ongoing(i) /\ session'[i].pc = "inspect" /\ present' = present
     \/ /\ Ongoing(i) /\ session'[i].pc \notin {"idle", "inspect", "ended"}
        /\ present' \in {present, TRUE}
        /\ present' \/ (session'[i].pc = "write" /\ session'[i].kind = "create")
     \/ /\ Ongoing(i) /\ session'[i].pc = "ended" /\ session'[i].code \in {0, 1}
        /\ present' = present /\ (session'[i].code = 0 => present)

LEMMA CourseFacts ==
  ASSUME Founded, OwnerNext PROVE \E i \in Instances : Course(i)
<1>1. PICK i \in Instances :
    \/ \E mode \in LaunchModes : Launch(i, mode)
    \/ \E k \in Keys : \E value \in Rows[k].values : Enter(i, k, value)
    \/ Inspect(i) \/ SynchronizeVersion(i) \/ Truncate(i) \/ Fill(i)
    \/ Read(i) \/ Kill(i)
    \/ EndOfInput(i) \/ Keep(i) \/ Asked(i) \/ Leave(i) \/ Offered(i)
    \/ Complete(i) \/ Skip(i) \/ Unfinished(i) \/ Decline(i)
    \/ StartOwner(i) \/ OwnerReturns(i) \/ Look(i) \/ Answer(i)
    \/ OpenStore(i) \/ FillStore(i)
    \/ OpenTemp(i) \/ FillTemp(i) \/ Place(i)
  BY DEF OwnerNext
<1>2. prog' = prog BY <1>1, ProgramKept
<1>3. SessionsTyped /\ session[i] \in SessionRecord /\ session[i].code \in {0, 1}
      /\ present \in BOOLEAN /\ FileThere(i)
  BY DEF Founded, OwnerTypes, SessionsTyped, SessionRecord, DiskRight
<1>4. ASSUME NEW mode \in LaunchModes, Launch(i, mode) PROVE Course(i)
  <2>1. PICK to : to = [Idle EXCEPT !.pc = "inspect", !.mode = mode] OBVIOUS
  <2>2. to.pc = "inspect" BY <2>1 DEF Idle
  <2>3. session' = [session EXCEPT ![i] = to] BY <1>4, <2>1 DEF Launch, Move
  <2> QED BY <1>3, <1>4, <2>2, <2>3 DEF Course, Elsewhere, Ongoing, Launch, disk, SessionsTyped
<1>5. CASE Inspect(i)
  <2>1. Elsewhere(i) /\ session'[i].pc \notin {"idle", "inspect"} /\ session'[i].code \in {0, 1}
    BY <1>5, OnwardFacts DEF Founded
  <2>2. present' = present /\ Ongoing(i) BY <1>5 DEF Inspect, Is, Ongoing, disk
  <2>3. CASE present BY <1>3, <2>1, <2>2, <2>3 DEF Course
  <2>4. CASE LaunchEnds(i, 1)
    BY <1>2, <1>3, <2>1, <2>2, <2>4, EndsFacts DEF Course
  <2>5. CASE Write(i, "create", Defaults(session[i].mode))
    <3>1. PICK to : to = [session[i] EXCEPT !.pc = "write", !.kind = "create",
                                            !.next = Defaults(session[i].mode)] OBVIOUS
    <3>2. to.pc = "write" /\ to.kind = "create" BY <1>3, <3>1 DEF SessionRecord
    <3>3. session' = [session EXCEPT ![i] = to] BY <2>5, <3>1 DEF Write, Move
    <3>4. session'[i] = to BY <1>3, <3>3 DEF SessionsTyped
    <3> QED BY <1>3, <2>1, <2>2, <3>2, <3>4 DEF Course
  <2> QED BY <1>5, <2>3, <2>4, <2>5 DEF Inspect
<1>6. CASE Truncate(i)
  <2>1. Elsewhere(i) /\ session'[i].pc \notin {"idle", "inspect"} /\ session'[i].code \in {0, 1}
    BY <1>6, OnwardFacts DEF Founded
  <2>2. Ongoing(i) BY <1>6 DEF Truncate, Is, Ongoing
  <2>3. CASE LaunchEnds(i, 1) /\ present' = present
    BY <1>2, <1>3, <2>1, <2>2, <2>3, EndsFacts DEF Course
  <2>4. CASE GoesTo(i, "fill") /\ present' = TRUE
    <3>1. session'[i].pc = "fill"
      BY <1>2, <1>3, <2>4, GoesFacts DEF PlacesOfLaunch
    <3>2. present' \in {present, TRUE} /\ present' BY <2>4
    <3> QED BY <2>1, <2>2, <3>1, <3>2 DEF Course
  <2> QED BY <1>6, <2>3, <2>4 DEF Truncate
<1>7. CASE Kill(i)
  BY <1>2, <1>3, <1>7, EndsFacts DEF Kill, Course, Ongoing, disk
<1>8. CASE \/ \E k \in Keys : \E value \in Rows[k].values : Enter(i, k, value)
           \/ SynchronizeVersion(i) \/ Fill(i) \/ Read(i)
           \/ EndOfInput(i) \/ Keep(i) \/ Asked(i) \/ Leave(i) \/ Offered(i)
           \/ Complete(i) \/ Skip(i) \/ Unfinished(i) \/ Decline(i)
           \/ StartOwner(i) \/ OwnerReturns(i) \/ Look(i) \/ Answer(i)
           \/ OpenStore(i) \/ FillStore(i) \/ OpenTemp(i) \/ FillTemp(i) \/ Place(i)
  <2>1. Elsewhere(i) /\ session'[i].pc \notin {"idle", "inspect"} /\ session'[i].code \in {0, 1}
    BY <1>8, OnwardFacts DEF Founded
  <2>2. present' = present
    BY <1>8 DEF Enter, SynchronizeVersion, Fill, Read, EndOfInput, Keep, Asked, Leave, Offered,
       Complete, Skip, Unfinished, Decline, StartOwner, OwnerReturns, Look, Answer, OpenStore,
       FillStore, OpenTemp, FillTemp, Place, Quiet, StoreRest, disk
  <2>3. Ongoing(i) /\ session[i].pc # "write" /\ (session[i].pc = "inspect" => present)
    BY <1>8 DEF Enter, SynchronizeVersion, Fill, Read, EndOfInput, Keep, Asked, Leave, Offered,
       Complete, Skip, Unfinished, Decline, StartOwner, OwnerReturns, Look, Answer, OpenStore,
       FillStore, OpenTemp, FillTemp, Place, StepDue, AtFile, Is, Ongoing
  <2>4. present BY <1>3, <2>3 DEF FileThere, Is, Ongoing
  <2> QED BY <1>3, <2>1, <2>2, <2>3, <2>4 DEF Course
<1> QED BY <1>1, <1>4, <1>5, <1>6, <1>7, <1>8

LEMMA FoundedStep == ASSUME Founded, [OwnerNext]_ownerVars PROVE Founded'
<1>1. OwnerTypes' BY OwnerStep DEF Founded
<1>2. CASE OwnerNext
  <2>1. PICK i \in Instances : Course(i) BY <1>2, CourseFacts
  <2>2. \A j \in Instances : FileThere(j) BY DEF Founded
  <2>3. present \in BOOLEAN BY DEF Founded, OwnerTypes, DiskRight
  <2>4. \A j \in Instances : FileThere(j)'
    <3>1. present => present' BY <2>1, <2>3 DEF Course
    <3>2. \/ session'[i].pc = "inspect" \/ present'
          \/ session'[i].pc = "write" /\ session'[i].kind = "create"
          \/ session'[i].pc = "ended" /\ session'[i].code = 1
      BY <2>1, <3>1 DEF Course
    <3>3. FileThere(i)' BY <3>2 DEF FileThere, Is
    <3>4. ASSUME NEW j \in Instances \ {i} PROVE FileThere(j)'
      <4>1. session'[j] = session[j] /\ FileThere(j) BY <2>1, <2>2 DEF Course, Elsewhere
      <4> QED BY <3>1, <4>1 DEF FileThere, Is
    <3> QED BY <3>3, <3>4
  <2> QED BY <1>1, <2>4 DEF Founded
<1>3. CASE UNCHANGED ownerVars
  BY <1>1, <1>3 DEF ownerVars, disk, Founded, FileThere, Is
<1> QED BY <1>2, <1>3

LEMMA OwnersFounded == OwnerSpec => []Founded
<1>1. OwnerInit => Founded
  <2>1. OwnerInit => \A i \in Instances : session[i].pc = "idle" BY DEF OwnerInit, Idle
  <2> QED BY <2>1, OwnerStart DEF Founded, FileThere
<1> QED BY <1>1, FoundedStep, PTL DEF OwnerSpec

(* A config program keeps the promise the initialisers rely on: it ends    *)
(* with 0 only when its INI file is there, and never takes it away.        *)
THEOREM OwnersKeepContract == OwnerSpec => KeepsContract
<1> DEFINE Phases == [i \in Instances |-> Running(i)]
<1>1. OwnerInit => Contract!Init
  <2>1. ASSUME OwnerInit PROVE Phases = [i \in Instances |-> "idle"] /\ present \in BOOLEAN
    BY <2>1 DEF OwnerInit, Running, Idle
  <2> QED BY <2>1 DEF Contract!Init
<1>2. Founded /\ [OwnerNext]_ownerVars => [Contract!Next]_(Contract!vars)
  <2> SUFFICES ASSUME Founded, [OwnerNext]_ownerVars PROVE [Contract!Next]_(Contract!vars)
    OBVIOUS
  <2>1. CASE OwnerNext
    <3>1. PICK i \in Instances : Course(i) BY <2>1, CourseFacts
    <3>2. present \in BOOLEAN BY DEF Founded, OwnerTypes, DiskRight
    <3>3. \A j \in Instances \ {i} : Running(j)' = Running(j)
      BY <3>1 DEF Course, Elsewhere, Running
    <3>4. PICK old, new : old = Phases /\ new = Phases' OBVIOUS
    <3>5. old = [j \in Instances |-> Running(j)] /\ new = [j \in Instances |-> Running(j)']
      BY <3>4
    <3>6. new = [old EXCEPT ![i] = Running(i)'] BY <3>3, <3>5
    <3>7. old[i] = Running(i) BY <3>5
    <3>8. \/ ~Ongoing(i) /\ Running(i)' = "running" /\ present' = present
          \/ Ongoing(i) /\ Running(i)' = "running" /\ present' \in {present, TRUE}
          \/ /\ Ongoing(i) /\ present' = present
             /\ (Running(i)' = "zero" /\ present) \/ Running(i)' = "failed"
      BY <3>1 DEF Course, Running
    <3>9. Ongoing(i) <=> Running(i) = "running"
      BY DEF Ongoing, Running
    <3> QED BY <3>2, <3>4, <3>6, <3>7, <3>8, <3>9
            DEF Contract!Next, Contract!vars, Contract!Begin, Contract!Appear, Contract!Finish
  <2>2. CASE UNCHANGED ownerVars
    BY <2>2 DEF ownerVars, disk, Contract!vars, Running
  <2> QED BY <2>1, <2>2
<1> QED BY <1>1, <1>2, OwnersFounded, PTL DEF OwnerSpec, KeepsContract, Contract!Spec

(***************************************************************************)
(* What is stored stays stored.                                            *)
(***************************************************************************)
Clean == ~raced /\ ~cut /\ ~unread
OneWriter == ~raced => \A i, j \in Instances : Holds(i) /\ Holds(j) => i = j
NothingYet == ~present => \A k \in Keys : chosen[k] = None
(* With no write under way the file has what was stored.                   *)
FileHolds ==
  Clean /\ (\A i \in Instances : session[i].pc # "fill") =>
    \A k \in Keys : chosen[k] # None => file[k] = chosen[k]
(* A text about to be written has what was stored, or is about to be.      *)
Aim(i, k) == IF session[i].kind = "edit" /\ k = session[i].key
             THEN session[i].value ELSE chosen[k]
TextHolds(i) ==
  Clean /\ Holds(i) => \A k \in Keys : Aim(i, k) # None => session[i].next[k] = Aim(i, k)
Memory == /\ Founded /\ OneWriter /\ NothingYet /\ FileHolds
          /\ \A i \in Instances : TextHolds(i)

(* A step that writes nothing.                                             *)
LEMMA IdleMemory ==
  ASSUME Memory, prog' = prog, UNCHANGED <<present, file, chosen>>, NEW i \in Instances,
         Elsewhere(i), session'[i].pc \notin {"write", "fill"}, Is(i, "fill") => cut',
         raced => raced', cut => cut', unread => unread', Founded'
  PROVE  Memory'
<1>1. Clean' => Clean /\ session[i].pc # "fill" BY DEF Clean, Is
<1>2. Keys' = Keys BY SameProgram
<1>3. \A j \in Instances : session'[j] = session[j] \/ session'[j].pc \notin {"write", "fill"}
  BY DEF Elsewhere
<1>4. OneWriter' BY <1>3 DEF Memory, OneWriter, Holds
<1>5. NothingYet' BY <1>2 DEF Memory, NothingYet
<1>6. FileHolds'
  <2>1. ASSUME Clean', \A j \in Instances : session'[j].pc # "fill"
        PROVE  \A j \in Instances : session[j].pc # "fill"
    BY <1>1, <2>1 DEF Elsewhere
  <2> QED BY <1>1, <1>2, <2>1 DEF Memory, FileHolds
<1>7. \A j \in Instances : TextHolds(j)'
  BY <1>1, <1>2, <1>3 DEF Memory, TextHolds, Aim, Holds
<1> QED BY <1>4, <1>5, <1>6, <1>7 DEF Memory

(* A launch begins to write.                                               *)
LEMMA BeginMemory ==
  ASSUME Memory, prog' = prog, UNCHANGED <<present, file, chosen, cut>>, NEW i \in Instances,
         Elsewhere(i), ~Holds(i), session'[i].pc = "write",
         raced' = (raced \/ Overlap(i)), unread => unread', Founded',
         Clean' => \A k \in Keys : Aim(i, k)' # None => session'[i].next[k] = Aim(i, k)'
  PROVE  Memory'
<1>1. Clean' => Clean /\ ~Overlap(i) BY DEF Clean
<1>2. Keys' = Keys BY SameProgram
<1>3. \A j \in Instances \ {i} : session'[j] = session[j] BY DEF Elsewhere
<1>4. OneWriter'
  <2>1. ~raced' => ~raced /\ \A j \in Instances \ {i} : ~Holds(j) BY DEF Overlap
  <2> QED BY <1>3, <2>1 DEF Memory, OneWriter, Holds
<1>5. NothingYet' BY <1>2 DEF Memory, NothingYet
<1>6. FileHolds'
  <2>1. ASSUME Clean', \A j \in Instances : session'[j].pc # "fill"
        PROVE  \A j \in Instances : session[j].pc # "fill"
    BY <1>3, <2>1 DEF Holds
  <2> QED BY <1>1, <1>2, <2>1 DEF Memory, FileHolds
<1>7. \A j \in Instances \ {i} : TextHolds(j)'
  <2>1. Clean' => \A j \in Instances \ {i} : ~Holds(j)' BY <1>1, <1>3 DEF Overlap, Holds
  <2> QED BY <2>1 DEF TextHolds
<1>8. TextHolds(i)' BY <1>2 DEF TextHolds
<1> QED BY <1>4, <1>5, <1>6, <1>7, <1>8 DEF Memory

(* Nobody else writes, so the file can be relied on.                       *)
LEMMA ReliedOn ==
  ASSUME Memory, NEW i \in Instances, ~Holds(i), raced' = (raced \/ Overlap(i)),
         UNCHANGED cut, unread => unread', Clean'
  PROVE  \A k \in Keys : chosen[k] # None => file[k] = chosen[k]
<1>1. Clean /\ ~Overlap(i) BY DEF Clean
<1>2. \A j \in Instances : session[j].pc # "fill" BY <1>1 DEF Overlap, Holds
<1> QED BY <1>1, <1>2 DEF Memory, FileHolds

LEMMA InspectMemory ==
  ASSUME Memory, NEW i \in Instances, Inspect(i), Founded' PROVE Memory'
<1>1. prog' = prog /\ UNCHANGED <<present, file, chosen, cut, unread>> /\ session[i].pc = "inspect"
  BY DEF Inspect, disk, Is
<1>2. Elsewhere(i) BY OnwardFacts DEF Memory, Founded
<1>3. session[i] \in SessionRecord /\ session \in [Instances -> SessionRecord]
      /\ session[i].mode \in ModeNames /\ OwnerTypes
  BY DEF Memory, Founded, OwnerTypes, SessionsTyped, SessionRecord
<1>4. CASE session'[i].pc \notin {"write", "fill"}
  <2>1. raced' = (raced \/ (session'[i].pc = "write" /\ Overlap(i))) BY DEF Inspect
  <2>2. raced => raced' BY <2>1
  <2>3. (cut => cut') /\ (unread => unread') BY <1>1
  <2> QED BY <1>1, <1>2, <1>4, <2>2, <2>3, IdleMemory DEF Is
<1>5. CASE session'[i].pc \in {"write", "fill"}
  <2>1. ~present /\ Write(i, "create", Defaults(session[i].mode))
    BY <1>1, <1>3, <1>5, EndsFacts, ProceedFacts DEF OwnerTypes, Inspect
  <2>2. PICK to : to = [session[i] EXCEPT !.pc = "write", !.kind = "create",
                                          !.next = Defaults(session[i].mode)] OBVIOUS
  <2>3. to.pc = "write" /\ to.kind = "create" BY <1>3, <2>2 DEF SessionRecord
  <2>4. session' = [session EXCEPT ![i] = to] BY <2>1, <2>2 DEF Write, Move
  <2>5. session'[i] = to BY <1>3, <2>4
  <2>6. raced' = (raced \/ Overlap(i)) BY <2>3, <2>5 DEF Inspect
  <2>7. \A k \in Keys : Aim(i, k)' = None
    BY <1>1, <2>1, <2>3, <2>5 DEF Aim, Memory, NothingYet
  <2> QED BY <1>1, <1>2, <2>3, <2>5, <2>6, <2>7, BeginMemory DEF Holds
<1> QED BY <1>4, <1>5

LEMMA SyncMemory ==
  ASSUME Memory, NEW i \in Instances, SynchronizeVersion(i), Founded' PROVE Memory'
<1>1. prog' = prog /\ UNCHANGED <<present, file, chosen, cut, unread>> /\ session[i].pc = "inspect"
  BY DEF SynchronizeVersion, disk, Is
<1>2. Elsewhere(i) BY OnwardFacts DEF Memory, Founded
<1>3. session[i] \in SessionRecord /\ session \in [Instances -> SessionRecord] /\ OwnerTypes
  BY DEF Memory, Founded, OwnerTypes, SessionsTyped, SessionRecord
<1>4. CASE LaunchEnds(i, 1) /\ UNCHANGED raced
  <2>1. session'[i].pc = "ended" BY <1>1, <1>3, <1>4, EndsFacts DEF OwnerTypes
  <2> QED BY <1>1, <1>2, <1>4, <2>1, IdleMemory DEF Is
<1>5. CASE Write(i, "sync", file) /\ raced' = (raced \/ Overlap(i))
  <2>1. PICK to : to = [session[i] EXCEPT !.pc = "write", !.kind = "sync", !.next = file] OBVIOUS
  <2>2. to.pc = "write" /\ to.kind = "sync" /\ to.next = file BY <1>3, <2>1 DEF SessionRecord
  <2>3. session' = [session EXCEPT ![i] = to] BY <1>5, <2>1 DEF Write, Move
  <2>4. session'[i] = to BY <1>3, <2>3
  <2>5. ~Holds(i) BY <1>1 DEF Holds
  <2>6. Clean' => \A k \in Keys : Aim(i, k)' # None => session'[i].next[k] = Aim(i, k)'
    BY <1>1, <1>5, <2>2, <2>4, <2>5, ReliedOn DEF Aim
  <2> QED BY <1>1, <1>2, <1>5, <2>2, <2>4, <2>5, <2>6, BeginMemory
<1> QED BY <1>4, <1>5 DEF SynchronizeVersion

(* The settings not entered are read back as they are.                     *)
LEMMA ReadMemory ==
  ASSUME Memory, NEW i \in Instances, Read(i), Founded' PROVE Memory'
<1>1. prog' = prog /\ UNCHANGED <<present, file, chosen, cut>> /\ session[i].pc = "read"
      /\ raced' = (raced \/ Overlap(i)) /\ (unread => unread')
  BY DEF Read, disk, Is
<1>2. Elsewhere(i) BY OnwardFacts DEF Memory, Founded
<1>3. session[i] \in SessionRecord /\ session \in [Instances -> SessionRecord] /\ OwnerTypes
  BY DEF Memory, Founded, OwnerTypes, SessionsTyped, SessionRecord
<1>4. ~Holds(i) BY <1>1 DEF Holds
<1>5. CASE LaunchEnds(i, 1)
  <2>1. session'[i].pc = "ended" BY <1>1, <1>3, <1>5, EndsFacts DEF OwnerTypes
  <2> QED BY <1>1, <1>2, <2>1, IdleMemory DEF Is
<1>6. ASSUME NEW next, Write(i, "edit", next),
             Clean' => \A k \in Keys : Aim(i, k)' # None => next[k] = Aim(i, k)'
      PROVE  Memory'
  <2>1. PICK to : to = [session[i] EXCEPT !.pc = "write", !.kind = "edit", !.next = next] OBVIOUS
  <2>2. to.pc = "write" /\ to.next = next BY <1>3, <2>1 DEF SessionRecord
  <2>3. session' = [session EXCEPT ![i] = to] BY <1>6, <2>1 DEF Write, Move
  <2>4. session'[i] = to BY <1>3, <2>3
  <2> QED BY <1>1, <1>2, <1>4, <1>6, <2>2, <2>4, BeginMemory
<1>7. ASSUME NEW next, Write(i, "edit", next)
      PROVE  \A k \in Keys : Aim(i, k)' = IF k = session[i].key THEN session[i].value ELSE chosen[k]
  <2>1. PICK to : to = [session[i] EXCEPT !.pc = "write", !.kind = "edit", !.next = next] OBVIOUS
  <2>2. to.kind = "edit" /\ to.key = session[i].key /\ to.value = session[i].value
    BY <1>3, <2>1 DEF SessionRecord
  <2>3. session' = [session EXCEPT ![i] = to] BY <1>7, <2>1 DEF Write, Move
  <2>4. session'[i] = to BY <1>3, <2>3
  <2> QED BY <1>1, <2>2, <2>4 DEF Aim
<1>8. CASE Write(i, "edit", Changed(i, [k \in Keys |-> Taken(k)]))
  <2>1. PICK others : others = [k \in Keys |-> Taken(k)] OBVIOUS
  <2>2. PICK next : next = Changed(i, others) OBVIOUS
  <2>3. Write(i, "edit", next) BY <1>8, <2>1, <2>2
  <2>4. \A k \in Keys : next[k] = IF k = session[i].key THEN session[i].value ELSE Taken(k)
    BY <2>1, <2>2 DEF Changed
  <2>5. \A k \in Keys : chosen[k] # None /\ file[k] = chosen[k] => Taken(k) = chosen[k]
    <3>1. \A k \in Keys : RowOK(Rows[k]) /\ chosen[k] \in Rows[k].values \cup {None}
      BY <1>3, RowsAre DEF OwnerTypes, DiskRight
    <3> QED BY <3>1 DEF Taken, Resolve, RowOK, Reserved
  <2>6. Clean' => \A k \in Keys : chosen[k] # None => Taken(k) = chosen[k]
    BY <1>1, <1>4, <2>5, ReliedOn
  <2>7. Clean' => \A k \in Keys : Aim(i, k)' # None => next[k] = Aim(i, k)'
    BY <1>7, <2>3, <2>4, <2>6
  <2> QED BY <1>6, <2>3, <2>7
<1>9. CASE /\ unread' = TRUE
           /\ Write(i, "edit", Changed(i, [k \in Keys |-> Resolve(Rows[k].unread)]))
  <2>1. ~Clean' BY <1>9 DEF Clean
  <2> QED BY <1>6, <1>9, <2>1
<1> QED BY <1>5, <1>8, <1>9 DEF Read

LEMMA TruncateMemory ==
  ASSUME Memory, NEW i \in Instances, Truncate(i), Founded' PROVE Memory'
<1>1. prog' = prog /\ UNCHANGED <<chosen, cut, unread>> /\ session[i].pc = "write"
  BY DEF Truncate, Is
<1>2. Elsewhere(i) BY OnwardFacts DEF Memory, Founded
<1>3. SessionsTyped BY DEF Memory, Founded, OwnerTypes
<1>4. CASE LaunchEnds(i, 1) /\ UNCHANGED <<present, file, raced>>
  <2>1. session'[i].pc = "ended" BY <1>1, <1>3, <1>4, EndsFacts
  <2> QED BY <1>1, <1>2, <1>4, <2>1, IdleMemory DEF Is
<1>5. CASE GoesTo(i, "fill") /\ present' = TRUE /\ raced' = (raced \/ Overlap(i))
  <2>1. /\ session'[i].pc = "fill" /\ session'[i].kind = session[i].kind
        /\ session'[i].key = session[i].key /\ session'[i].value = session[i].value
        /\ session'[i].next = session[i].next
    BY <1>1, <1>3, <1>5, GoesFacts DEF PlacesOfLaunch
  <2>2. Keys' = Keys BY <1>1, SameProgram
  <2>3. \A j \in Instances \ {i} : session'[j] = session[j] BY <1>2 DEF Elsewhere
  <2>4. OneWriter'
    <3>1. ~raced' => ~raced /\ \A j \in Instances \ {i} : ~Holds(j) BY <1>5 DEF Overlap
    <3> QED BY <2>3, <3>1 DEF OneWriter, Holds
  <2>5. NothingYet' BY <1>5 DEF NothingYet
  <2>6. FileHolds' BY <2>1 DEF FileHolds
  <2>7. Clean' => Clean BY <1>1, <1>5 DEF Clean
  <2>8. \A j \in Instances : TextHolds(j)'
    BY <1>1, <2>1, <2>2, <2>3, <2>7 DEF Memory, TextHolds, Aim, Holds
  <2> QED BY <2>4, <2>5, <2>6, <2>8 DEF Memory
<1> QED BY <1>4, <1>5 DEF Truncate

LEMMA FillMemory ==
  ASSUME Memory, NEW i \in Instances, Fill(i), Founded' PROVE Memory'
<1>1. prog' = prog /\ UNCHANGED <<present, raced, unread>> /\ session[i].pc = "fill"
  BY DEF Fill, Is
<1>2. Elsewhere(i) /\ session'[i].pc \notin {"write", "fill"}
  BY <1>1, OnwardFacts DEF Memory, Founded, Inspect, SynchronizeVersion, Truncate, Read, Is
<1>3. CASE cut' = TRUE /\ UNCHANGED <<file, chosen>>
  BY <1>1, <1>2, <1>3, IdleMemory
<1>4. CASE /\ file' = session[i].next /\ UNCHANGED cut
           /\ chosen' = IF session[i].kind = "edit"
                        THEN [chosen EXCEPT ![session[i].key] = session[i].value] ELSE chosen
  <2>1. Keys' = Keys BY <1>1, SameProgram
  <2>2. Clean' => Clean BY <1>1, <1>4 DEF Clean
  <2>3. \A j \in Instances \ {i} : session'[j] = session[j] BY <1>2 DEF Elsewhere
  <2>4. OneWriter'
    BY <1>1, <1>2, <2>3 DEF Memory, OneWriter, Holds
  <2>5. NothingYet'
    <3>1. present BY <1>1 DEF Memory, Founded, FileThere, Is
    <3> QED BY <1>1, <3>1 DEF NothingYet
  <2>6. \A k \in Keys : chosen'[k] = Aim(i, k)
    BY <1>4 DEF Aim, Memory, Founded, OwnerTypes, DiskRight
  <2>7. FileHolds'
    <3>1. TextHolds(i) /\ Holds(i) BY <1>1 DEF Memory, Holds
    <3> QED BY <1>4, <2>1, <2>2, <2>6, <3>1 DEF FileHolds, TextHolds
  <2>8. ASSUME NEW j \in Instances PROVE TextHolds(j)'
    <3>1. CASE Clean' /\ Holds(j)'
      <4>1. j # i BY <1>2, <3>1 DEF Holds
      <4>2. Holds(j) /\ Holds(i) BY <1>1, <2>3, <3>1, <4>1 DEF Holds
      <4> QED BY <2>2, <3>1, <4>1, <4>2 DEF Memory, OneWriter, Clean
    <3> QED BY <3>1 DEF TextHolds
  <2> QED BY <2>4, <2>5, <2>7, <2>8 DEF Memory
<1> QED BY <1>3, <1>4 DEF Fill

LEMMA MemoryStep == ASSUME Memory, [OwnerNext]_ownerVars PROVE Memory'
<1>1. Founded' BY FoundedStep DEF Memory
<1>2. CASE UNCHANGED ownerVars
  <2>1. Keys' = Keys BY <1>2, SameProgram DEF ownerVars
  <2> QED BY <1>1, <1>2, <2>1 DEF ownerVars, disk, ownerMarks, Memory, OneWriter, NothingYet,
             FileHolds, TextHolds, Aim, Holds, Clean
<1>3. ASSUME NEW i \in Instances,
             \/ \E mode \in LaunchModes : Launch(i, mode)
             \/ \E k \in Keys : \E value \in Rows[k].values : Enter(i, k, value)
             \/ Kill(i) \/ EndOfInput(i) \/ Keep(i) \/ Asked(i) \/ Leave(i) \/ Offered(i)
             \/ Complete(i) \/ Skip(i) \/ Unfinished(i) \/ Decline(i)
             \/ StartOwner(i) \/ OwnerReturns(i) \/ Look(i) \/ Answer(i)
             \/ OpenStore(i) \/ FillStore(i) \/ OpenTemp(i) \/ FillTemp(i) \/ Place(i)
      PROVE  Memory'
  <2>1. prog' = prog BY <1>3, ProgramKept
  <2>2. UNCHANGED <<present, file, chosen, raced, unread>>
    BY <1>3 DEF Launch, Enter, Kill, EndOfInput, Keep, Asked, Leave, Offered, Complete, Skip,
       Unfinished, Decline, StartOwner, OwnerReturns, Look, Answer, OpenStore, FillStore,
       OpenTemp, FillTemp, Place, Quiet, StoreRest, disk, ownerMarks
  <2>5. UNCHANGED cut \/ Kill(i)
    BY <1>3 DEF Launch, Enter, EndOfInput, Keep, Asked, Leave, Offered, Complete, Skip,
       Unfinished, Decline, StartOwner, OwnerReturns, Look, Answer, OpenStore, FillStore,
       OpenTemp, FillTemp, Place, Quiet, StoreRest, disk, ownerMarks
  <2>6. cut => cut' BY <2>5 DEF Kill
  <2>3. Is(i, "fill") => cut'
    BY <1>3 DEF Launch, Enter, Kill, EndOfInput, Keep, Asked, Leave, Offered, Complete, Skip,
       Unfinished, Decline, StartOwner, OwnerReturns, Look, Answer, OpenStore, FillStore,
       OpenTemp, FillTemp, Place, AtFile, StepDue, Is
  <2>4. Elsewhere(i) /\ session'[i].pc \notin {"write", "fill"}
    <3>1. CASE \E mode \in LaunchModes : Launch(i, mode)
      <4>1. PICK mode \in LaunchModes : Launch(i, mode) BY <3>1
      <4>2. PICK to : to = [Idle EXCEPT !.pc = "inspect", !.mode = mode] OBVIOUS
      <4>3. to.pc = "inspect" BY <4>2 DEF Idle
      <4>4. session' = [session EXCEPT ![i] = to] BY <4>1, <4>2 DEF Launch, Move
      <4> QED BY <4>3, <4>4 DEF Elsewhere, Memory, Founded, OwnerTypes, SessionsTyped
    <3>2. CASE ~\E mode \in LaunchModes : Launch(i, mode)
      <4>1. session[i].pc \notin {"inspect", "write"} \/ Kill(i)
        BY <1>3, <3>2 DEF Enter, EndOfInput, Keep, Asked, Leave, Offered, Complete, Skip,
           Unfinished, Decline, StartOwner, OwnerReturns, Look, Answer, OpenStore, FillStore,
           OpenTemp, FillTemp, Place, AtFile, StepDue, Is
      <4>2. CASE Kill(i)
        BY <2>1, <4>2, EndsFacts DEF Kill, Memory, Founded, OwnerTypes
      <4>3. CASE ~Kill(i)
        <5>1. Elsewhere(i) BY <1>3, <3>2, OnwardFacts DEF Memory, Founded
        <5>2. session[i].pc # "read"
          BY <1>3, <3>2, <4>3 DEF Enter, EndOfInput, Keep, Asked, Leave, Offered, Complete, Skip,
             Unfinished, Decline, StartOwner, OwnerReturns, Look, Answer, OpenStore, FillStore,
             OpenTemp, FillTemp, Place, AtFile, StepDue, Is
        <5> QED BY <1>3, <3>2, <4>1, <4>3, <5>1, <5>2, OnwardFacts
                DEF Memory, Founded, Inspect, SynchronizeVersion, Truncate, Read, Is
      <4> QED BY <4>2, <4>3
    <3> QED BY <3>1, <3>2
  <2> QED BY <1>1, <2>1, <2>2, <2>3, <2>4, <2>6, IdleMemory
<1>4. CASE OwnerNext
  BY <1>1, <1>3, <1>4, InspectMemory, SyncMemory, ReadMemory, TruncateMemory, FillMemory
     DEF OwnerNext
<1> QED BY <1>2, <1>4

LEMMA MemoryStart == ASSUME OwnerInit PROVE Memory
<1>1. Founded
  <2>1. \A i \in Instances : session[i].pc = "idle" BY DEF OwnerInit, Idle
  <2> QED BY <2>1, OwnerStart DEF Founded, FileThere
<1>2. \A i \in Instances : ~Holds(i) BY DEF OwnerInit, Idle, Holds
<1>3. \A k \in Keys : RowOK(Rows[k]) BY <1>1, RowsAre DEF Founded, OwnerTypes
<1>4. NothingYet BY <1>3 DEF NothingYet, OwnerInit, RowOK, Reserved
<1>5. FileHolds BY DEF FileHolds, OwnerInit
<1> QED BY <1>1, <1>2, <1>4, <1>5 DEF Memory, OneWriter, TextHolds

(* Unless two edits overlap, a write is cut off or an unreadable file is   *)
(* edited, the file keeps every value that was ever stored in it.          *)
THEOREM StoredAlways == OwnerSpec => []StoredStays
<1>1. OwnerInit => Memory BY MemoryStart
<1>2. Memory /\ [OwnerNext]_ownerVars => Memory' BY MemoryStep
<1>3. Memory => StoredStays
  BY DEF Memory, NothingYet, FileHolds, Clean, StoredStays, Is, Founded, OwnerTypes, DiskRight
<1> QED BY <1>1, <1>2, <1>3, PTL DEF OwnerSpec

(***************************************************************************)
(* A launch that ends with 0 has run its owners.                           *)
(***************************************************************************)
LEMMA DemandedFacts ==
  ASSUME NEW steps \in Seq(Known)
  PROVE  /\ \A s : s \in Demanded(steps) <=>
                     \E n \in DOMAIN steps : Binding(steps[n]) /\ s \in Promised(steps[n].owner)
         /\ Demanded(steps) \subseteq StoreFiles
<1>1. \A s : s \in Demanded(steps) <=>
               \E n \in DOMAIN steps : Binding(steps[n]) /\ s \in Promised(steps[n].owner)
  BY DEF Demanded, Binding
<1>2. ASSUME NEW n \in DOMAIN steps PROVE Promised(steps[n].owner) \subseteq StoreFiles
  <2>1. steps[n] \in Known OBVIOUS
  <2> QED BY <2>1 DEF Known, Promised, FilesOf
<1> QED BY <1>1, <1>2

LEMMA TailFacts ==
  ASSUME NEW steps \in Seq(Known), steps # <<>>
  PROVE  /\ \A s \in Demanded(steps) \ Demanded(Tail(steps)) :
              Binding(Head(steps)) /\ s \in Promised(Head(steps).owner)
         /\ Late(steps) => Late(Tail(steps))
         /\ Late(steps) /\ Head(steps).needs # {} => Demanded(steps) = {}
<1>0. Tail(steps) \in Seq(Known) OBVIOUS
<1>1. PICK tail \in Seq(Known) : tail = Tail(steps) BY <1>0
<1>2. /\ Head(steps) = steps[1] /\ DOMAIN steps = 1..Len(steps) /\ Len(steps) \in Nat
      /\ Len(steps) >= 1 /\ DOMAIN tail = 1..(Len(steps) - 1)
      /\ \A n \in DOMAIN tail : tail[n] = steps[n + 1]
  BY <1>1
<1>3. \A n \in DOMAIN steps : n = 1 \/ (n - 1 \in DOMAIN tail /\ steps[n] = tail[n - 1])
  BY <1>2
<1>4. \A s \in Demanded(steps) \ Demanded(tail) :
        Binding(Head(steps)) /\ s \in Promised(Head(steps).owner)
  <2>1. \A s \in Demanded(steps) :
          \E n \in DOMAIN steps : Binding(steps[n]) /\ s \in Promised(steps[n].owner)
    BY DemandedFacts
  <2>2. \A s : (\E n \in DOMAIN tail : Binding(tail[n]) /\ s \in Promised(tail[n].owner))
                => s \in Demanded(tail)
    BY DemandedFacts
  <2> QED BY <1>2, <1>3, <2>1, <2>2
<1>5. Late(steps) => Late(tail)
  <2>1. ASSUME Late(steps), NEW m \in DOMAIN tail, NEW n \in DOMAIN tail, m <= n,
               tail[m].needs # {}
        PROVE  ~Binding(tail[n])
    <3>1. m + 1 \in DOMAIN steps /\ n + 1 \in DOMAIN steps /\ m + 1 <= n + 1 BY <1>2, <2>1
    <3> QED BY <1>2, <2>1, <3>1 DEF Late
  <2> QED BY <2>1 DEF Late
<1>6. Late(steps) /\ Head(steps).needs # {} => Demanded(steps) = {}
  <2>1. ASSUME Late(steps), Head(steps).needs # {}, NEW n \in DOMAIN steps
        PROVE  ~Binding(steps[n])
    BY <1>2, <2>1 DEF Late
  <2> QED BY <2>1, DemandedFacts
<1> QED BY <1>1, <1>4, <1>5, <1>6

LEMMA OwedFacts ==
  ASSUME DiskRight
  PROVE  /\ \A mode \in ModeNames : Owed(mode) \subseteq StoreFiles
         /\ \A mode \in ModeNames \ {"disable"} : Owed(mode) = Demanded(First(mode))
         /\ Owed("disable") = {} /\ (Plan.offers => Owed("plain") = {})
         /\ Demanded(<<>>) = {}
<1>1. \A mode \in ModeNames : First(mode) \in Seq(Known) BY StepsKnown DEF First, Sequels
<1>2. \A mode \in ModeNames \ {"disable"} : Owed(mode) = Demanded(First(mode))
  BY DEF ModeNames, Owed, First
<1>3. Owed("disable") = {} BY DEF Owed
<1>4. Demanded(<<>>) = {} BY DEF Demanded
<1>5. Plan.offers => Plan.before = <<>> BY RowsAre DEF PlanOK
<1>6. Plan.offers => Owed("plain") = {} BY <1>4, <1>5 DEF Owed
<1> QED BY <1>1, <1>2, <1>3, <1>4, <1>6, DemandedFacts

AtSteps == {"steps"} \cup AtOwner
RightMode(i) ==
  /\ session[i].pc \in {"menu", "offer"} => session[i].mode = "plain"
  /\ session[i].pc = "ask" => session[i].mode = "init"
  /\ Editing(i) => session[i].mode \in {"plain", "init"}
  /\ session[i].pc \in AtSteps /\ session[i].then = "menu" => session[i].mode = "plain"
(* The launch owes nothing, or only what it has yet to run.                *)
Settled(i) ==
  \/ session[i].pc \in {"menu", "offer"}
  \/ Editing(i) /\ session[i].mode = "plain"
  \/ session[i].pc = "ended" /\ session[i].code = 0
Paid(i) ==
  /\ Settled(i) => \A s \in Owed(session[i].mode) : Exists(s)
  /\ session[i].pc \in AtSteps =>
       /\ Late(session[i].todo)
       /\ \A s \in Owed(session[i].mode) \ Demanded(session[i].todo) : Exists(s)
(* The files an owner has come past are there, but for those left out.     *)
Behind(i) ==
  session[i].pc \in AtOwner =>
    /\ session[i].pc = "storing" => Exists(Name(i))
    /\ ~session[i].bad =>
         \A n \in DOMAIN Store(i).files :
           n < session[i].at /\ "leave" \notin Store(i).files[n].asks =>
             Exists(Store(i).files[n].name)
Booked(i) == RightMode(i) /\ Paid(i) /\ Behind(i)
Books == Founded /\ \A i \in Instances : Booked(i)

(* No file of an owner goes away.                                          *)
Lasting == \A s \in StoreFiles : Exists(s) => Exists(s)'
LEMMA LastingFacts ==
  ASSUME OwnerTypes, [OwnerNext]_ownerVars PROVE Lasting
<1>1. ASSUME UNCHANGED stores PROVE Lasting BY <1>1 DEF Lasting, Exists
<1>2. ASSUME NEW i \in Instances, session[i].pc \in AtOwner,
             session[i].at <= Len(Store(i).files)
      PROVE  Name(i) \in StoreFiles /\ Slot(i).leaves # "none"
  BY <1>2, SlotFacts
<1>3. stores \in [StoreFiles -> {"none", "part", "blank", "whole"}]
  BY DEF OwnerTypes, DiskRight
<1>4. ASSUME NEW i \in Instances, OpenStore(i) PROVE Lasting
  <2>1. Name(i) \in StoreFiles BY <1>2, <1>4 DEF OpenStore, AtFile, Is, AtOwner
  <2> QED BY <1>3, <1>4, <2>1 DEF OpenStore, Name, Lasting, Exists
<1>5. ASSUME NEW i \in Instances, FillStore(i) PROVE Lasting
  <2>1. Name(i) \in StoreFiles /\ Slot(i).leaves # "none"
    BY <1>2, <1>5 DEF FillStore, AtFile, Is, AtOwner
  <2> QED BY <1>3, <1>5, <2>1 DEF FillStore, Name, Lasting, Exists
<1>6. ASSUME NEW i \in Instances, Place(i) PROVE Lasting
  <2>1. Name(i) \in StoreFiles /\ Slot(i).leaves # "none"
    BY <1>2, <1>6 DEF Place, AtFile, Is, AtOwner
  <2> QED BY <1>3, <1>6, <2>1 DEF Place, Name, Lasting, Exists
<1>7. CASE UNCHANGED ownerVars BY <1>1, <1>7 DEF ownerVars, disk
<1>8. ASSUME NEW i \in Instances,
             \/ \E mode \in LaunchModes : Launch(i, mode)
             \/ \E k \in Keys : \E value \in Rows[k].values : Enter(i, k, value)
             \/ Inspect(i) \/ SynchronizeVersion(i) \/ Truncate(i) \/ Fill(i)
             \/ Read(i) \/ Kill(i)
             \/ EndOfInput(i) \/ Keep(i) \/ Asked(i) \/ Leave(i) \/ Offered(i)
             \/ Complete(i) \/ Skip(i) \/ Unfinished(i) \/ Decline(i)
             \/ StartOwner(i) \/ OwnerReturns(i) \/ Look(i) \/ Answer(i)
             \/ OpenTemp(i) \/ FillTemp(i)
      PROVE  Lasting
  <2>1. UNCHANGED stores
    BY <1>8 DEF Launch, Enter, Inspect, SynchronizeVersion, Truncate, Fill, Read, Kill,
       EndOfInput, Keep, Asked, Leave, Offered, Complete, Skip, Unfinished, Decline, StartOwner,
       OwnerReturns, Look, Answer, OpenTemp, FillTemp, Quiet, disk
  <2> QED BY <1>1, <2>1
<1> QED BY <1>4, <1>5, <1>6, <1>7, <1>8 DEF OwnerNext

LEMMA SameDemands ==
  ASSUME prog' = prog
  PROVE  \A mode, steps : /\ Owed(mode)' = Owed(mode) /\ Demanded(steps)' = Demanded(steps)
                          /\ Late(steps)' = Late(steps)
BY DEF Owed, Demanded, Plan, Late, Binding

(* A session that a step does not touch.                                   *)
LEMMA OthersBooked ==
  ASSUME Books, prog' = prog, Lasting, NEW j \in Instances, session'[j] = session[j]
  PROVE  Booked(j)'
<1>1. Booked(j) BY DEF Books
<1>2. RightMode(j)' BY <1>1 DEF Booked, RightMode, Editing, Holds, Is
<1>3. Owed(session[j].mode) \subseteq StoreFiles
  BY OwedFacts DEF Books, Founded, OwnerTypes, SessionsTyped, SessionRecord
<1>4. Paid(j)'
  <2>1. Settled(j)' = Settled(j) BY DEF Settled, Editing, Holds, Is
  <2>2. /\ Owed(session[j].mode)' = Owed(session[j].mode)
        /\ Demanded(session[j].todo)' = Demanded(session[j].todo)
    BY SameDemands DEF Owed, Demanded, Plan
  <2> QED BY <1>1, <1>3, <2>1, <2>2 DEF Booked, Paid, Lasting, Late, Binding
<1>5. Behind(j)'
  <2>1. CASE session[j].pc \in AtOwner
    <3>1. Store(j)' = Store(j) /\ Slot(j)' = Slot(j) /\ Name(j)' = Name(j)
      BY DEF Store, Slot, Name, NextStep
    <3>2. NextStep(j) \in Known /\ session[j].at <= Len(Store(j).files) => Name(j) \in StoreFiles
      BY <2>1, SlotFacts DEF Books, Founded
    <3>3. \A n \in DOMAIN Store(j).files : Store(j).files[n].name \in StoreFiles
      <4>1. NextStep(j) \in Known BY <2>1, SlotFacts DEF Books, Founded
      <4> QED BY <4>1 DEF Known, FilesOf, Slots, Store
    <3>4. session[j].pc = "storing" => Name(j) \in StoreFiles
      BY <2>1, SlotFacts DEF Books, Founded, OwnerTypes, SessionsRight, PlaceRight
    <3> QED BY <1>1, <3>1, <3>3, <3>4 DEF Booked, Behind, Lasting
  <2>2. CASE session[j].pc \notin AtOwner BY <2>2 DEF Behind
  <2> QED BY <2>1, <2>2
<1> QED BY <1>2, <1>4, <1>5 DEF Booked

(* The books of the session that takes the step.                           *)
LEMMA PaidAfter ==
  ASSUME Books, prog' = prog, Lasting, NEW i \in Instances,
         session'[i].mode = session[i].mode,
         Settled(i)' => \A s \in Owed(session[i].mode) : Exists(s),
         session'[i].pc \in AtSteps =>
           /\ Late(session'[i].todo)
           /\ \A s \in Owed(session[i].mode) \ Demanded(session'[i].todo) : Exists(s)'
  PROVE  Paid(i)'
<1>1. Owed(session[i].mode) \subseteq StoreFiles
  BY OwedFacts DEF Books, Founded, OwnerTypes, SessionsTyped, SessionRecord
<1>2. /\ Owed(session[i].mode)' = Owed(session'[i].mode)
      /\ Demanded(session[i].todo)' = Demanded(session'[i].todo)
  BY DEF Owed, Demanded, Plan
<1> QED BY <1>1, <1>2 DEF Paid, Lasting, Late, Binding

LEMMA EndsBooked ==
  ASSUME Books, prog' = prog, Lasting, NEW i \in Instances, NEW code \in {0, 1},
         LaunchEnds(i, code), code = 0 => \A s \in Owed(session[i].mode) : Exists(s)
  PROVE  Booked(i)'
<1>1. session'[i].pc = "ended" /\ session'[i].code = code /\ session'[i].mode = session[i].mode
  BY EndsFacts DEF Books, Founded, OwnerTypes
<1>2. RightMode(i)' /\ Behind(i)'
  BY <1>1 DEF RightMode, Behind, Editing, Holds, Is, AtSteps, AtOwner
<1>3. Settled(i)' => code = 0 BY <1>1 DEF Settled, Editing, Holds, Is
<1>4. Paid(i)' BY <1>1, <1>3, PaidAfter DEF AtSteps, AtOwner
<1> QED BY <1>2, <1>4 DEF Booked

LEMMA ProceedBooked ==
  ASSUME Books, prog' = prog, Lasting, NEW i \in Instances, Proceed(i, session[i].mode)
  PROVE  Booked(i)'
<1>1. session[i].mode \in ModeNames /\ SessionsTyped /\ DiskRight
  BY DEF Books, Founded, OwnerTypes, SessionsTyped, SessionRecord
<1>2. CASE session[i].mode = "disable"
  <2>1. LaunchEnds(i, 0) BY <1>2 DEF Proceed
  <2> QED BY <1>1, <1>2, <2>1, EndsBooked, OwedFacts
<1>3. CASE session[i].mode # "disable"
  <2>1. /\ session'[i].pc = "steps" /\ session'[i].mode = session[i].mode
        /\ session'[i].todo = First(session[i].mode)
        /\ session'[i].then = IF session[i].mode = "plain" THEN "menu" ELSE "ended"
    BY <1>1, <1>3, ProceedFacts
  <2>2. RightMode(i)' /\ Behind(i)' /\ ~Settled(i)'
    BY <2>1 DEF RightMode, Behind, Settled, Editing, Holds, Is, AtSteps, AtOwner
  <2>3. Late(First(session[i].mode))
    <3>1. First(session[i].mode) \in Sequels BY DEF First, Sequels
    <3> QED BY <1>1, <3>1, StepsKnown
  <2>4. Owed(session[i].mode) = Demanded(First(session[i].mode)) BY <1>1, <1>3, OwedFacts
  <2>5. Paid(i)' BY <2>1, <2>2, <2>3, <2>4, PaidAfter
  <2> QED BY <2>2, <2>5 DEF Booked
<1> QED BY <1>2, <1>3

LEMMA PassBooked ==
  ASSUME Books, prog' = prog, Lasting, NEW i \in Instances, session[i].todo # <<>>,
         session[i].pc \in AtSteps, Pass(i),
         Binding(NextStep(i)) => \A s \in Promised(NextStep(i).owner) : Exists(s)
  PROVE  Booked(i)'
<1>1. session[i].mode \in ModeNames /\ SessionsTyped /\ DiskRight /\ session[i].todo \in Seq(Known)
  BY DEF Books, Founded, OwnerTypes, SessionsTyped, SessionRecord
<1>2. /\ session'[i].pc = "steps" /\ session'[i].mode = session[i].mode
      /\ session'[i].then = session[i].then /\ session'[i].todo = Tail(session[i].todo)
  BY <1>1, PassFacts DEF Keeps
<1>3. RightMode(i) /\ Paid(i) BY DEF Books, Booked
<1>4. RightMode(i)' /\ Behind(i)' /\ ~Settled(i)'
  BY <1>2, <1>3 DEF RightMode, Behind, Settled, Editing, Holds, Is, AtSteps, AtOwner
<1>5. \A s \in Owed(session[i].mode) \ Demanded(Tail(session[i].todo)) : Exists(s)
  BY <1>1, <1>3, TailFacts DEF Paid, NextStep
<1>6. Owed(session[i].mode) \subseteq StoreFiles BY <1>1, OwedFacts
<1>7. \A s \in Owed(session[i].mode) \ Demanded(Tail(session[i].todo)) : Exists(s)'
  BY <1>5, <1>6 DEF Lasting
<1>8. Late(Tail(session[i].todo)) BY <1>1, <1>3, TailFacts DEF Paid
<1>9. Paid(i)' BY <1>2, <1>4, <1>7, <1>8, PaidAfter
<1> QED BY <1>4, <1>9 DEF Booked

LEMMA GiveUpBooked ==
  ASSUME Books, prog' = prog, Lasting, NEW i \in Instances, session[i].todo # <<>>,
         session[i].pc \in AtSteps, GiveUp(i)
  PROVE  Booked(i)'
<1>1. CASE NextStep(i).soft
  BY <1>1, PassBooked DEF GiveUp, Binding
<1>2. CASE ~NextStep(i).soft
  BY <1>2, EndsBooked DEF GiveUp
<1> QED BY <1>1, <1>2

(* A step that stays with the owner.                                       *)
LEMMA OwnerBooked ==
  ASSUME Books, prog' = prog, Lasting, NEW i \in Instances, session[i].pc \in AtSteps,
         session'[i].pc \in AtOwner, session'[i].mode = session[i].mode,
         session'[i].then = session[i].then, session'[i].todo = session[i].todo, Behind(i)'
  PROVE  Booked(i)'
<1>1. RightMode(i) /\ Paid(i) BY DEF Books, Booked
<1>2. RightMode(i)' /\ ~Settled(i)'
  BY <1>1 DEF RightMode, Settled, Editing, Holds, Is, AtSteps, AtOwner
<1>3. Owed(session[i].mode) \subseteq StoreFiles
  BY OwedFacts DEF Books, Founded, OwnerTypes, SessionsTyped, SessionRecord
<1>4. Paid(i)' BY <1>1, <1>2, <1>3, PaidAfter DEF Paid, Lasting
<1> QED BY <1>2, <1>4 DEF Booked

LEMMA NextFileBooked ==
  ASSUME Books, prog' = prog, Lasting, NEW i \in Instances, session[i].pc \in AtOwner,
         session[i].at <= Len(Store(i).files), NextFile(i),
         "leave" \notin Slot(i).asks => stores'[Name(i)] # "none"
  PROVE  Booked(i)'
<1>1. /\ session'[i].pc = "store" /\ session'[i].at = session[i].at + 1
      /\ session'[i].bad = session[i].bad /\ session'[i].todo = session[i].todo /\ Keeps(i)
  BY NextFacts DEF Books, Founded, OwnerTypes
<1>2. Behind(i) BY DEF Books, Booked
<1>3. /\ session[i].at \in Nat /\ DOMAIN Store(i).files = 1..Len(Store(i).files)
      /\ NextStep(i) \in Known
  BY SlotFacts DEF Books, Founded, StoreOK
<1>4. \A n \in DOMAIN Store(i).files : Store(i).files[n].name \in StoreFiles
  BY <1>3 DEF Known, FilesOf, Slots, Store
<1>5. Store(i)' = Store(i) BY <1>1 DEF Store, NextStep
<1>6. \A n \in DOMAIN Store(i).files : n < session[i].at + 1 => n < session[i].at \/ n = session[i].at
  BY <1>3
<1>7. Behind(i)'
  <2>1. ASSUME ~session'[i].bad, NEW n \in DOMAIN Store(i).files, n < session'[i].at,
               "leave" \notin Store(i).files[n].asks
        PROVE  Exists(Store(i).files[n].name)'
    <3>1. CASE n < session[i].at
      BY <1>1, <1>2, <1>4, <1>5, <2>1, <3>1 DEF Behind, Lasting, Exists
    <3>2. CASE n = session[i].at
      BY <1>5, <2>1, <3>2 DEF Exists, Name, Slot
    <3> QED BY <1>1, <1>6, <2>1, <3>1, <3>2
  <2> QED BY <1>1, <1>5, <2>1 DEF Behind
<1> QED BY <1>1, <1>7, OwnerBooked DEF Keeps, AtSteps, AtOwner

LEMMA FailsBooked ==
  ASSUME Books, prog' = prog, Lasting, NEW i \in Instances, session[i].pc \in AtOwner, Fails(i)
  PROVE  Booked(i)'
<1>1. session[i].todo # <<>> /\ SessionsTyped BY SlotFacts DEF Books, Founded, OwnerTypes
<1>2. CASE ~Store(i).goes
  BY <1>1, <1>2, GiveUpBooked DEF Fails, AtSteps
<1>3. CASE Store(i).goes
  <2>1. Move(i, [session[i] EXCEPT !.pc = "store", !.at = @ + 1, !.bad = TRUE])
    BY <1>3 DEF Fails
  <2>2. /\ session'[i].pc = "store" /\ session'[i].bad = TRUE
        /\ session'[i].todo = session[i].todo /\ Keeps(i)
    BY <1>1, <2>1, NextFileFacts
  <2>3. Behind(i)' BY <2>2 DEF Behind
  <2> QED BY <2>2, <2>3, OwnerBooked DEF Keeps, AtSteps, AtOwner
<1> QED BY <1>2, <1>3

LEMMA GoesBooked ==
  ASSUME Books, prog' = prog, Lasting, NEW i \in Instances, session[i].pc \in AtOwner,
         session[i].at <= Len(Store(i).files),
         NEW pc \in AtOwner, GoesTo(i, pc), pc = "storing" => stores'[Name(i)] # "none"
  PROVE  Booked(i)'
<1>1. /\ session'[i].pc = pc /\ session'[i].at = session[i].at /\ Keeps(i)
      /\ session'[i].bad = session[i].bad /\ session'[i].todo = session[i].todo
  BY GoesFacts DEF Books, Founded, OwnerTypes, PlacesOfLaunch
<1>2. Behind(i) BY DEF Books, Booked
<1>3. NextStep(i) \in Known BY SlotFacts DEF Books, Founded
<1>4. \A n \in DOMAIN Store(i).files : Store(i).files[n].name \in StoreFiles
  BY <1>3 DEF Known, FilesOf, Slots, Store
<1>5. Store(i)' = Store(i) /\ Name(i)' = Name(i) BY <1>1 DEF Store, NextStep, Name, Slot
<1>6. Behind(i)'
  <2>1. session'[i].pc = "storing" => Exists(Name(i))'
    BY <1>1, <1>5 DEF Exists
  <2>2. ASSUME ~session'[i].bad, NEW n \in DOMAIN Store(i).files, n < session'[i].at,
               "leave" \notin Store(i).files[n].asks
        PROVE  Exists(Store(i).files[n].name)'
    BY <1>1, <1>2, <1>4, <1>5, <2>2 DEF Behind, Lasting, Exists
  <2> QED BY <1>1, <1>5, <2>1, <2>2 DEF Behind
<1> QED BY <1>1, <1>6, OwnerBooked DEF Keeps, AtSteps

(* The steps at one file of an owner.                                      *)
LEMMA FileBooked ==
  ASSUME Books, Lasting, NEW i \in Instances,
         \/ Look(i) \/ Answer(i) \/ OpenStore(i) \/ FillStore(i)
         \/ OpenTemp(i) \/ FillTemp(i) \/ Place(i)
  PROVE  Booked(i)'
<1>1. prog' = prog BY ProgramKept
<1>2. session[i].pc \in AtOwner /\ session[i].at <= Len(Store(i).files)
  BY DEF Look, Answer, OpenStore, FillStore, OpenTemp, FillTemp, Place, AtFile, Is, AtOwner
<1>3. /\ session[i].todo # <<>> /\ Name(i) \in StoreFiles /\ Slot(i).leaves \in {"whole", "blank"}
      /\ stores \in [StoreFiles -> {"none", "part", "blank", "whole"}]
  BY <1>2, SlotFacts DEF Books, Founded, OwnerTypes, DiskRight
<1>4. ASSUME Fails(i) PROVE Booked(i)' BY <1>1, <1>2, <1>4, FailsBooked
<1>5. ASSUME GiveUp(i) PROVE Booked(i)' BY <1>1, <1>2, <1>3, <1>5, GiveUpBooked DEF AtSteps
<1>6. ASSUME NextFile(i), "leave" \notin Slot(i).asks => stores'[Name(i)] # "none"
      PROVE  Booked(i)'
  BY <1>1, <1>2, <1>6, NextFileBooked
<1>7. ASSUME NEW pc \in AtOwner, GoesTo(i, pc), pc = "storing" => stores'[Name(i)] # "none"
      PROVE  Booked(i)'
  BY <1>1, <1>2, <1>7, GoesBooked
<1>8. CASE Look(i)
  <2>1. stores' = stores BY <1>8 DEF Look
  <2> QED BY <1>4, <1>6, <1>7, <1>8, <2>1 DEF Look, Exists, Name, AtOwner
<1>9. CASE Answer(i)
  <2>1. stores' = stores BY <1>9 DEF Answer, Quiet, disk
  <2> QED BY <1>5, <1>6, <1>9, <2>1 DEF Answer, Exists, Usable
<1>10. CASE OpenStore(i)
  BY <1>3, <1>4, <1>6, <1>7, <1>10 DEF OpenStore, Name, Exists, AtOwner
<1>11. CASE FillStore(i)
  <2>1. Exists(Name(i)) BY <1>2, <1>11 DEF Books, Booked, Behind, FillStore, AtFile, Is
  <2>2. stores'[Name(i)] # "none" BY <1>3, <1>11, <2>1 DEF FillStore, Name, Exists
  <2> QED BY <1>4, <1>6, <1>11, <2>2 DEF FillStore
<1>12. CASE OpenTemp(i)
  BY <1>4, <1>7, <1>12 DEF OpenTemp, AtOwner
<1>13. CASE FillTemp(i)
  BY <1>4, <1>7, <1>13 DEF FillTemp, AtOwner
<1>14. CASE Place(i)
  <2>1. CASE /\ IF Slot(i).how = "keep" /\ Exists(Name(i)) THEN NextFile(i) ELSE Fails(i)
             /\ UNCHANGED stores
    BY <1>4, <1>6, <2>1 DEF Exists
  <2>2. CASE /\ NextFile(i)
             /\ \E answer \in {Slot(i).leaves} \cup (Slot(i).asks \cap {"blank"}) :
                  stores' = [stores EXCEPT ![Name(i)] =
                     IF temps[Name(i)] = "whole" THEN answer ELSE "part"]
    BY <1>3, <1>6, <2>2
  <2> QED BY <1>14, <2>1, <2>2 DEF Place, Name
<1> QED BY <1>8, <1>9, <1>10, <1>11, <1>12, <1>13, <1>14

LEMMA WriteBooked ==
  ASSUME Books, prog' = prog, Lasting, NEW i \in Instances, NEW kind, NEW next,
         Write(i, kind, next), kind = "edit" => Editing(i)
  PROVE  Booked(i)'
<1>1. session[i] \in SessionRecord /\ session \in [Instances -> SessionRecord]
  BY DEF Books, Founded, OwnerTypes, SessionsTyped
<1>2. PICK to : to = [session[i] EXCEPT !.pc = "write", !.kind = kind, !.next = next] OBVIOUS
<1>3. to.pc = "write" /\ to.kind = kind /\ to.mode = session[i].mode
  BY <1>1, <1>2 DEF SessionRecord
<1>4. session' = [session EXCEPT ![i] = to] BY <1>2 DEF Write, Move
<1>5. session'[i] = to BY <1>1, <1>4
<1>6. RightMode(i) /\ Paid(i) BY DEF Books, Booked
<1>7. RightMode(i)' /\ Behind(i)' /\ (Settled(i)' => Editing(i) /\ session[i].mode = "plain")
  BY <1>3, <1>5, <1>6 DEF RightMode, Behind, Settled, Editing, Holds, Is, AtSteps, AtOwner
<1>8. Paid(i)' BY <1>3, <1>5, <1>6, <1>7, PaidAfter DEF Paid, Settled, AtSteps, AtOwner
<1> QED BY <1>7, <1>8 DEF Booked

(* The steps of a launch and of an edit.                                   *)
LEMMA EditBooked ==
  ASSUME Books, Lasting, NEW i \in Instances,
         \/ \E mode \in LaunchModes : Launch(i, mode)
         \/ \E k \in Keys : \E value \in Rows[k].values : Enter(i, k, value)
         \/ Inspect(i) \/ SynchronizeVersion(i) \/ Truncate(i) \/ Fill(i)
         \/ Read(i) \/ Kill(i)
  PROVE  Booked(i)'
<1>1. prog' = prog BY ProgramKept
<1>2. /\ session[i] \in SessionRecord /\ session \in [Instances -> SessionRecord]
      /\ session[i].mode \in ModeNames /\ OwnerTypes /\ SessionsTyped
  BY DEF Books, Founded, OwnerTypes, SessionsTyped, SessionRecord
<1>3. RightMode(i) /\ Paid(i) BY DEF Books, Booked
<1>4. ASSUME LaunchEnds(i, 1) PROVE Booked(i)' BY <1>1, <1>4, EndsBooked
<1>5. ASSUME NEW mode \in LaunchModes, Launch(i, mode) PROVE Booked(i)'
  <2>1. PICK to : to = [Idle EXCEPT !.pc = "inspect", !.mode = mode] OBVIOUS
  <2>2. to.pc = "inspect" BY <2>1 DEF Idle
  <2>3. session' = [session EXCEPT ![i] = to] BY <1>5, <2>1 DEF Launch, Move
  <2>4. session'[i].pc = "inspect" BY <1>2, <2>2, <2>3
  <2> QED BY <2>4 DEF Booked, RightMode, Paid, Behind, Settled, Editing, Holds, Is, AtSteps, AtOwner
<1>6. ASSUME NEW k \in Keys, NEW value \in Rows[k].values, Enter(i, k, value) PROVE Booked(i)'
  <2>1. PICK to : to = [session[i] EXCEPT !.pc = "read", !.key = k, !.value = value] OBVIOUS
  <2>2. to.pc = "read" /\ to.mode = session[i].mode BY <1>2, <2>1 DEF SessionRecord
  <2>3. session' = [session EXCEPT ![i] = to] BY <1>6, <2>1 DEF Enter, Move
  <2>4. session'[i] = to BY <1>2, <2>3
  <2>5. session[i].pc \in {"menu", "ask"} BY <1>6 DEF Enter, Is
  <2>6. RightMode(i)' /\ Behind(i)'
    BY <1>3, <2>2, <2>4, <2>5 DEF RightMode, Behind, Editing, Holds, Is, AtSteps, AtOwner
  <2>7. Settled(i)' => Settled(i)
    BY <1>3, <2>2, <2>4, <2>5 DEF RightMode, Settled, Editing, Holds, Is
  <2>8. Paid(i)' BY <1>1, <1>3, <2>2, <2>4, <2>7, PaidAfter DEF Paid, AtSteps, AtOwner
  <2> QED BY <2>6, <2>8 DEF Booked
<1>7. ASSUME Inspect(i) \/ SynchronizeVersion(i) PROVE Booked(i)'
  BY <1>1, <1>4, <1>7, WriteBooked, ProceedBooked DEF Inspect, SynchronizeVersion
<1>8. ASSUME Read(i) PROVE Booked(i)'
  <2>1. Editing(i) BY <1>8 DEF Read, Editing
  <2> QED BY <1>1, <1>4, <1>8, <2>1, WriteBooked DEF Read
<1>9. ASSUME Truncate(i) PROVE Booked(i)'
  <2>1. CASE GoesTo(i, "fill")
    <3>1. /\ session'[i].pc = "fill" /\ session'[i].mode = session[i].mode
          /\ session'[i].kind = session[i].kind /\ session[i].pc = "write"
      BY <1>1, <1>2, <1>9, <2>1, GoesFacts DEF Truncate, Is, PlacesOfLaunch, Keeps
    <3>2. /\ RightMode(i)' /\ Behind(i)' /\ (Settled(i)' => Settled(i))
      BY <1>3, <3>1 DEF RightMode, Behind, Settled, Editing, Holds, Is, AtSteps, AtOwner
    <3>3. Paid(i)' BY <1>1, <1>3, <3>1, <3>2, PaidAfter DEF Paid, AtSteps, AtOwner
    <3> QED BY <3>2, <3>3 DEF Booked
  <2> QED BY <1>4, <1>9, <2>1 DEF Truncate
<1>10. ASSUME Fill(i) PROVE Booked(i)'
  <2>1. CASE Written(i)
    <3>1. session[i].pc = "fill" BY <1>10 DEF Fill, Is
    <3>2. session'[i].mode = session[i].mode BY <1>1, <1>2, <2>1, WrittenFacts DEF OwnerTypes
    <3>3. CASE session[i].mode = "init" /\ session'[i].pc = "ask"
      <4>1. RightMode(i)' /\ Behind(i)' /\ ~Settled(i)'
        BY <3>2, <3>3 DEF RightMode, Behind, Settled, Editing, Holds, Is, AtSteps, AtOwner
      <4>2. Paid(i)' BY <1>1, <3>2, <3>3, <4>1, PaidAfter DEF AtSteps, AtOwner
      <4> QED BY <4>1, <4>2 DEF Booked
    <3>4. CASE session[i].mode # "init" /\ session[i].kind = "edit" /\ session'[i].pc = "menu"
      <4>1. Editing(i) BY <3>1, <3>4 DEF Editing, Holds
      <4>2. session[i].mode = "plain" BY <1>3, <3>4, <4>1 DEF RightMode
      <4>3. RightMode(i)' /\ Behind(i)' /\ Settled(i)
        BY <3>2, <3>4, <4>1, <4>2 DEF RightMode, Behind, Settled, Editing, Holds, Is, AtSteps, AtOwner
      <4>4. Paid(i)' BY <1>1, <1>3, <3>2, <3>4, <4>3, PaidAfter DEF Paid, AtSteps, AtOwner
      <4> QED BY <4>3, <4>4 DEF Booked
    <3>5. CASE session[i].mode = "plain" /\ Plan.offers /\ session'[i].pc = "offer"
      <4>1. RightMode(i)' /\ Behind(i)'
        BY <3>2, <3>5 DEF RightMode, Behind, Editing, Holds, Is, AtSteps, AtOwner
      <4>2. Owed(session[i].mode) = {} BY <1>2, <3>5, OwedFacts DEF OwnerTypes
      <4>3. Paid(i)' BY <1>1, <3>2, <3>5, <4>2, PaidAfter DEF AtSteps, AtOwner
      <4> QED BY <4>1, <4>3 DEF Booked
    <3>6. CASE Proceed(i, session[i].mode) BY <1>1, <3>6, ProceedBooked
    <3> QED BY <1>1, <1>2, <2>1, <3>3, <3>4, <3>5, <3>6, WrittenFacts DEF OwnerTypes
  <2> QED BY <1>4, <1>10, <2>1 DEF Fill
<1>11. ASSUME Kill(i) PROVE Booked(i)' BY <1>4, <1>11 DEF Kill
<1> QED BY <1>5, <1>6, <1>7, <1>8, <1>9, <1>10, <1>11

(* The user's steps, and those between two owners.                         *)
LEMMA MenuBooked ==
  ASSUME Books, Lasting, NEW i \in Instances,
         \/ EndOfInput(i) \/ Keep(i) \/ Asked(i) \/ Leave(i) \/ Offered(i)
         \/ Complete(i) \/ Skip(i) \/ Unfinished(i) \/ Decline(i)
         \/ StartOwner(i) \/ OwnerReturns(i)
  PROVE  Booked(i)'
<1>1. prog' = prog BY ProgramKept
<1>2. /\ session[i] \in SessionRecord /\ session \in [Instances -> SessionRecord]
      /\ session[i].mode \in ModeNames /\ OwnerTypes /\ SessionsTyped /\ DiskRight
      /\ session[i].todo \in Seq(Known)
  BY DEF Books, Founded, OwnerTypes, SessionsTyped, SessionRecord
<1>3. RightMode(i) /\ Paid(i) /\ Behind(i) BY DEF Books, Booked
<1>4. ASSUME LaunchEnds(i, 1) PROVE Booked(i)' BY <1>1, <1>4, EndsBooked
<1>5. ASSUME LaunchEnds(i, 0), \A s \in Owed(session[i].mode) : Exists(s) PROVE Booked(i)'
  BY <1>1, <1>5, EndsBooked
<1>6. ASSUME GoesTo(i, "menu"), session[i].mode = "plain",
             \A s \in Owed(session[i].mode) : Exists(s)
      PROVE  Booked(i)'
  <2>1. session'[i].pc = "menu" /\ session'[i].mode = session[i].mode
    BY <1>1, <1>2, <1>6, GoesFacts DEF Keeps, PlacesOfLaunch
  <2>2. RightMode(i)' /\ Behind(i)'
    BY <1>6, <2>1 DEF RightMode, Behind, Editing, Holds, Is, AtSteps, AtOwner
  <2>3. Paid(i)' BY <1>1, <1>6, <2>1, PaidAfter DEF AtSteps, AtOwner
  <2> QED BY <2>2, <2>3 DEF Booked
<1>7. ASSUME Keep(i) PROVE Booked(i)'
  <2>1. PICK to : to = [session[i] EXCEPT !.at = @ + 1] OBVIOUS
  <2>2. to.pc = "ask" /\ to.mode = session[i].mode BY <1>2, <1>7, <2>1 DEF SessionRecord, Keep, Is
  <2>3. session' = [session EXCEPT ![i] = to] BY <1>7, <2>1 DEF Keep, Move
  <2>4. session'[i] = to /\ session[i].pc = "ask" BY <1>2, <1>7, <2>3 DEF Keep, Is
  <2>5. RightMode(i)' /\ Behind(i)' /\ ~Settled(i)'
    BY <1>3, <2>2, <2>4 DEF RightMode, Behind, Settled, Editing, Holds, Is, AtSteps, AtOwner
  <2>6. Paid(i)' BY <1>1, <2>2, <2>4, <2>5, PaidAfter DEF AtSteps, AtOwner
  <2> QED BY <2>5, <2>6 DEF Booked
<1>8. ASSUME Asked(i) PROVE Booked(i)'
  <2>1. session[i].mode = "init" BY <1>3, <1>8 DEF Asked, Is, RightMode
  <2> QED BY <1>1, <1>8, <2>1, ProceedBooked DEF Asked
<1>9. ASSUME Leave(i) PROVE Booked(i)'
  <2>1. /\ \A s \in Owed(session[i].mode) : Exists(s)
        /\ session[i].mode = "plain"
    BY <1>3, <1>9 DEF Leave, Is, Paid, Settled, RightMode
  <2>2. CASE Follow(i, Plan.after, "ended")
    <3>1. Plan.after \in Seq(Known) /\ Late(Plan.after) BY <1>2, StepsKnown DEF Sequels
    <3>2. /\ session'[i].pc = "steps" /\ session'[i].todo = Plan.after
          /\ session'[i].then = "ended" /\ session'[i].mode = session[i].mode
      BY <1>1, <1>2, <2>2, <3>1, FollowFacts
    <3>3. RightMode(i)' /\ Behind(i)' /\ ~Settled(i)'
      BY <3>2 DEF RightMode, Behind, Settled, Editing, Holds, Is, AtSteps, AtOwner
    <3>4. Owed(session[i].mode) \subseteq StoreFiles BY <1>2, OwedFacts
    <3>5. Paid(i)' BY <1>1, <2>1, <3>1, <3>2, <3>3, <3>4, PaidAfter DEF Lasting
    <3> QED BY <3>3, <3>5 DEF Booked
  <2> QED BY <1>5, <1>9, <2>1, <2>2 DEF Leave
<1>10. ASSUME Offered(i) PROVE Booked(i)'
  <2>1. /\ \A s \in Owed(session[i].mode) : Exists(s)
        /\ session[i].mode = "plain"
    BY <1>3, <1>10 DEF Offered, Is, Paid, Settled, RightMode
  <2> QED BY <1>5, <1>6, <1>10, <2>1 DEF Offered
<1>11. ASSUME Complete(i) PROVE Booked(i)'
  <2>1. \A s \in Owed(session[i].mode) : Exists(s)
    BY <1>2, <1>3, <1>11, OwedFacts DEF Complete, Is, Paid, AtSteps
  <2>2. session[i].then = "menu" => session[i].mode = "plain"
    BY <1>3, <1>11 DEF Complete, Is, RightMode, AtSteps
  <2> QED BY <1>5, <1>6, <1>11, <2>1, <2>2 DEF Complete
<1>12. ASSUME session[i].todo # <<>>, session[i].pc \in AtSteps, Pass(i),
              Binding(NextStep(i)) => \A s \in Promised(NextStep(i).owner) : Exists(s)
       PROVE  Booked(i)'
  BY <1>1, <1>12, PassBooked
<1>13. ASSUME Skip(i) PROVE Booked(i)'
  <2>1. Made(i) => \A s \in Promised(NextStep(i).owner) : Exists(s)
    BY DEF Made, Promised, FilesOf, Usable, Exists
  <2> QED BY <1>4, <1>12, <1>13, <2>1 DEF Skip, StepDue, Is, AtSteps, Binding
<1>14. ASSUME Decline(i) PROVE Booked(i)'
  BY <1>4, <1>12, <1>14 DEF Decline, StepDue, Is, AtSteps, Binding
<1>15. ASSUME Unfinished(i) PROVE Booked(i)'
  <2>1. session[i].todo # <<>> /\ session[i].pc = "steps" /\ NextStep(i).needs # {}
    BY <1>15 DEF Unfinished, StepDue, Is, Needed
  <2>2. Demanded(session[i].todo) = {}
    BY <1>2, <1>3, <2>1, TailFacts DEF Paid, AtSteps, NextStep
  <2> QED BY <1>3, <1>5, <1>15, <2>1, <2>2 DEF Unfinished, Paid, AtSteps
<1>16. ASSUME StartOwner(i) PROVE Booked(i)'
  <2>1. CASE Move(i, [session[i] EXCEPT !.pc = "store", !.at = 1, !.bad = FALSE])
    <3>1. PICK to : to = [session[i] EXCEPT !.pc = "store", !.at = 1, !.bad = FALSE] OBVIOUS
    <3>2. /\ to.pc = "store" /\ to.at = 1 /\ to.mode = session[i].mode
          /\ to.then = session[i].then /\ to.todo = session[i].todo
      BY <1>2, <3>1 DEF SessionRecord
    <3>3. session' = [session EXCEPT ![i] = to] BY <2>1, <3>1 DEF Move
    <3>4. session'[i] = to BY <1>2, <3>3
    <3>5. \A n \in DOMAIN Store(i).files : ~(n < 1)
      <4>1. NextStep(i).owner \in OwnerNames
        BY <1>2, <1>16 DEF StartOwner, StepDue, NextStep, Known, StepRecord
      <4> QED BY <4>1, StoreFacts DEF StoreOK, Store
    <3>6. Store(i)' = Store(i) BY <3>2, <3>4 DEF Store, NextStep
    <3>7. Behind(i)' BY <3>2, <3>4, <3>5, <3>6 DEF Behind
    <3>8. session[i].pc \in AtSteps BY <1>16 DEF StartOwner, StepDue, Is, AtSteps
    <3> QED BY <1>1, <3>2, <3>4, <3>7, <3>8, OwnerBooked DEF AtOwner
  <2> QED BY <1>4, <1>16, <2>1 DEF StartOwner
<1>17. ASSUME OwnerReturns(i) PROVE Booked(i)'
  <2>1. session[i].pc \in AtOwner /\ session[i].pc \in AtSteps
    BY <1>17 DEF OwnerReturns, Is, AtOwner, AtSteps
  <2>2. session[i].todo # <<>> /\ StoreOK(Store(i)) /\ session[i].at \in Nat
    BY <1>2, <2>1, SlotFacts
  <2>3. CASE session[i].bad
    BY <1>1, <1>17, <2>1, <2>2, <2>3, GiveUpBooked DEF OwnerReturns
  <2>4. CASE ~session[i].bad
    <3>1. \A n \in DOMAIN Store(i).files : n < session[i].at
      BY <1>17, <2>2 DEF OwnerReturns, StoreOK, Store
    <3>2. \A s \in Promised(NextStep(i).owner) : Exists(s)
      BY <1>3, <2>1, <2>4, <3>1 DEF Behind, Promised, Slots, Store
    <3> QED BY <1>12, <1>17, <2>1, <2>2, <2>4, <3>2 DEF OwnerReturns
  <2> QED BY <2>3, <2>4
<1>18. ASSUME EndOfInput(i) PROVE Booked(i)' BY <1>4, <1>18 DEF EndOfInput
<1> QED BY <1>7, <1>8, <1>9, <1>10, <1>11, <1>13, <1>14, <1>15, <1>16, <1>17, <1>18

(***************************************************************************)
(* A file that is cut short is known to be.                                *)
(***************************************************************************)
CutKnown == \A s \in StoreFiles : stores[s] = "part" => s \in spoiled \/ Filling(s)
TempKnown ==
  \A i \in Instances : session[i].pc = "moving" /\ temps[Name(i)] = "part" => Name(i) \in spoiled
Ledger == Books /\ CutKnown /\ TempKnown

LEMMA SamePlace ==
  ASSUME NEW j \in Instances, session'[j] = session[j]
  PROVE  /\ Name(j)' = Name(j) /\ \A pc : AtFile(j, pc)' = AtFile(j, pc)
BY DEF Name, Slot, Store, NextStep, AtFile, Is

(* A step that leaves the files alone, or was about one now known as cut.  *)
LEMMA QuietLedger ==
  ASSUME Ledger, NEW i \in Instances, Elsewhere(i), prog' = prog,
         session'[i].pc = "moving" => Name(i)' = Name(i) /\ temps'[Name(i)] # "part",
         UNCHANGED stores,
         spoiled \subseteq spoiled',
         AtFile(i, "storing") => Name(i) \in spoiled' \/ stores[Name(i)] # "part",
         \A j \in Instances \ {i} : session[j].pc = "moving" /\ temps'[Name(j)] = "part" =>
           temps[Name(j)] = "part" \/ Name(j) \in spoiled'
  PROVE  CutKnown' /\ TempKnown'
<1>1. \A j \in Instances \ {i} :
        /\ session'[j] = session[j] /\ Name(j)' = Name(j)
        /\ AtFile(j, "storing")' = AtFile(j, "storing")
  BY SamePlace DEF Elsewhere
<1>2. CutKnown'
  <2>1. ASSUME NEW s \in StoreFiles, stores[s] = "part", s \notin spoiled'
        PROVE  Filling(s)'
    <3>1. PICK j \in Instances : AtFile(j, "storing") /\ Name(j) = s
      BY <2>1 DEF Ledger, CutKnown, Filling
    <3>2. j # i BY <2>1, <3>1
    <3> QED BY <1>1, <3>1, <3>2 DEF Filling
  <2> QED BY <2>1, SameProgram DEF CutKnown
<1>3. TempKnown' BY <1>1 DEF Ledger, TempKnown
<1> QED BY <1>2, <1>3

(* A step that writes the file its launch is at.                           *)
LEMMA WrittenLedger ==
  ASSUME Ledger, NEW i \in Instances, Elsewhere(i), prog' = prog,
         \A s \in StoreFiles \ {Name(i)} : stores'[s] = stores[s], spoiled \subseteq spoiled',
         \/ stores'[Name(i)] # "part" \/ Name(i) \in spoiled'
         \/ AtFile(i, "storing")' /\ Name(i)' = Name(i),
         session'[i].pc = "moving" => Name(i)' = Name(i) /\ temps'[Name(i)] # "part",
         \A j \in Instances \ {i} : session[j].pc = "moving" /\ temps'[Name(j)] = "part" =>
           temps[Name(j)] = "part" \/ Name(j) \in spoiled'
  PROVE  CutKnown' /\ TempKnown'
<1>1. \A j \in Instances \ {i} :
        /\ session'[j] = session[j] /\ Name(j)' = Name(j)
        /\ AtFile(j, "storing")' = AtFile(j, "storing")
  BY SamePlace DEF Elsewhere
<1>2. CutKnown'
  <2>1. ASSUME NEW s \in StoreFiles, stores'[s] = "part", s \notin spoiled', s # Name(i)
        PROVE  Filling(s)'
    <3>1. PICK j \in Instances : AtFile(j, "storing") /\ Name(j) = s
      BY <2>1 DEF Ledger, CutKnown, Filling
    <3>2. j # i BY <2>1, <3>1
    <3> QED BY <1>1, <3>1, <3>2 DEF Filling
  <2>2. stores'[Name(i)] = "part" /\ Name(i) \notin spoiled' =>
          \E j \in Instances : AtFile(j, "storing")' /\ Name(j)' = Name(i)
    OBVIOUS
  <2> QED BY <2>1, <2>2, SameProgram DEF CutKnown, Filling
<1>3. TempKnown' BY <1>1 DEF Ledger, TempKnown
<1> QED BY <1>2, <1>3

LEMMA LedgerStep == ASSUME Ledger, [OwnerNext]_ownerVars, Books' PROVE CutKnown' /\ TempKnown'
<1>1. OwnerTypes BY DEF Ledger, Books, Founded
<1>2. CASE UNCHANGED ownerVars
  BY <1>2, SameProgram DEF ownerVars, disk, ownerMarks, Ledger, CutKnown, TempKnown, Filling, AtFile,
     Name, Slot, Store, NextStep, Is
<1>3. ASSUME NEW i \in Instances,
             \/ \E mode \in LaunchModes : Launch(i, mode)
             \/ \E k \in Keys : \E value \in Rows[k].values : Enter(i, k, value)
             \/ Inspect(i) \/ SynchronizeVersion(i) \/ Truncate(i) \/ Fill(i)
             \/ Read(i) \/ Kill(i)
             \/ EndOfInput(i) \/ Keep(i) \/ Asked(i) \/ Leave(i) \/ Offered(i)
             \/ Complete(i) \/ Skip(i) \/ Unfinished(i) \/ Decline(i)
             \/ StartOwner(i) \/ OwnerReturns(i) \/ Look(i) \/ Answer(i)
      PROVE  CutKnown' /\ TempKnown'
  <2>1. prog' = prog BY <1>3, ProgramKept
  <2>2. UNCHANGED <<stores, temps>>
    BY <1>3 DEF Launch, Enter, Inspect, SynchronizeVersion, Truncate, Fill, Read, Kill,
       EndOfInput, Keep, Asked, Leave, Offered, Complete, Skip, Unfinished, Decline, StartOwner,
       OwnerReturns, Look, Answer, Quiet, disk
  <2>3. spoiled \subseteq spoiled' /\ (AtFile(i, "storing") => Name(i) \in spoiled')
    <3>1. CASE Kill(i) BY <3>1 DEF Kill, Spoil
    <3>2. CASE ~Kill(i)
      <4>1. UNCHANGED spoiled
        BY <1>3, <3>2 DEF Launch, Enter, Inspect, SynchronizeVersion, Truncate, Fill, Read,
           EndOfInput, Keep, Asked, Leave, Offered, Complete, Skip, Unfinished, Decline, StartOwner,
           OwnerReturns, Look, Answer, Quiet, ownerMarks
      <4>2. session[i].pc # "storing"
        BY <1>3, <3>2 DEF Launch, Enter, Inspect, SynchronizeVersion, Truncate, Fill, Read,
           EndOfInput, Keep, Asked, Leave, Offered, Complete, Skip, Unfinished, Decline, StartOwner,
           OwnerReturns, Look, Answer, StepDue, AtFile, Is
      <4> QED BY <4>1, <4>2 DEF AtFile, Is
    <3> QED BY <3>1, <3>2
  <2>4. Elsewhere(i) /\ session'[i].pc \notin {"storing", "moving"}
    <3>1. CASE \E mode \in LaunchModes : Launch(i, mode)
      <4>1. PICK mode \in LaunchModes : Launch(i, mode) BY <3>1
      <4>2. PICK to : to = [Idle EXCEPT !.pc = "inspect", !.mode = mode] OBVIOUS
      <4>3. to.pc = "inspect" BY <4>2 DEF Idle
      <4>4. session' = [session EXCEPT ![i] = to] BY <4>1, <4>2 DEF Launch, Move
      <4> QED BY <1>1, <4>3, <4>4 DEF Elsewhere, OwnerTypes, SessionsTyped
    <3>2. CASE Kill(i) BY <1>1, <2>1, <3>2, EndsFacts DEF Kill, OwnerTypes
    <3>3. CASE Answer(i)
      <4>1. session[i].todo # <<>>
        BY <1>1, <3>3, SlotFacts DEF Answer, AtFile, Is, AtOwner
      <4> QED BY <1>1, <2>1, <3>3, <4>1, GiveUpFacts, PassFacts, NextFacts DEF Answer, OwnerTypes
    <3>4. CASE ~(\E mode \in LaunchModes : Launch(i, mode)) /\ ~Kill(i) /\ ~Answer(i)
      <4>1. session[i].pc \notin {"make", "temp"}
        BY <1>3, <3>4 DEF Enter, Inspect, SynchronizeVersion, Truncate, Fill, Read,
           EndOfInput, Keep, Asked, Leave, Offered, Complete, Skip, Unfinished, Decline, StartOwner,
           OwnerReturns, Look, StepDue, AtFile, Is
      <4>2. ~OpenStore(i) /\ ~FillTemp(i) BY <4>1 DEF OpenStore, FillTemp, AtFile, Is
      <4> QED BY <1>1, <1>3, <3>4, <4>2, OnwardFacts
    <3> QED BY <3>1, <3>2, <3>3, <3>4
  <2> QED BY <2>1, <2>2, <2>3, <2>4, QuietLedger
<1>4. ASSUME NEW i \in Instances,
             OpenStore(i) \/ FillStore(i) \/ OpenTemp(i) \/ FillTemp(i) \/ Place(i)
      PROVE  CutKnown' /\ TempKnown'
  <2>1. prog' = prog BY <1>4, ProgramKept
  <2>2. session[i].pc \in AtOwner /\ session[i].at <= Len(Store(i).files)
    BY <1>4 DEF OpenStore, FillStore, OpenTemp, FillTemp, Place, AtFile, Is, AtOwner
  <2>3. /\ session[i].todo # <<>> /\ Name(i) \in StoreFiles /\ Slot(i).leaves \in {"whole", "blank"}
        /\ stores \in [StoreFiles -> {"none", "part", "blank", "whole"}]
        /\ temps \in [StoreFiles -> {"none", "part", "whole"}] /\ SessionsTyped
    BY <1>1, <2>2, SlotFacts DEF OwnerTypes, DiskRight
  <2>4. Elsewhere(i) BY <1>1, <1>4, OnwardFacts
  <2>5. \A j \in Instances \ {i} :
          /\ session'[j] = session[j] /\ Name(j)' = Name(j)
          /\ AtFile(j, "storing")' = AtFile(j, "storing")
    BY <2>4, SamePlace DEF Elsewhere
  <2>6. ASSUME NEW j \in Instances \ {i}, session[j].pc = "moving", temps'[Name(j)] = "part"
        PROVE  temps[Name(j)] = "part" \/ Name(j) \in spoiled'
    <3>1. Name(j) \in StoreFiles
      BY <1>1, <2>6, SlotFacts DEF AtOwner, OwnerTypes, SessionsRight, PlaceRight
    <3> QED BY <1>4, <2>3, <2>6, <3>1
            DEF OpenStore, FillStore, OpenTemp, FillTemp, Place, Name, Crossed, Spoil
  <2>7. spoiled \subseteq spoiled'
    BY <1>4 DEF OpenStore, FillStore, OpenTemp, FillTemp, Place, Spoil
  <2>8. ASSUME NEW pc \in AtOwner, GoesTo(i, pc)
        PROVE  /\ session'[i].pc = pc /\ Name(i)' = Name(i)
               /\ pc = "storing" => AtFile(i, "storing")'
    <3>1. /\ session'[i].pc = pc /\ session'[i].at = session[i].at
          /\ session'[i].todo = session[i].todo
      BY <2>1, <2>3, <2>8, GoesFacts DEF PlacesOfLaunch
    <3> QED BY <2>2, <3>1 DEF Name, Slot, Store, NextStep, AtFile, Is
  <2>9. ASSUME NextFile(i) PROVE session'[i].pc \notin {"storing", "moving"}
    BY <2>1, <2>3, <2>9, NextFacts
  <2>10. ASSUME Fails(i) PROVE session'[i].pc \notin {"storing", "moving"}
    BY <2>1, <2>3, <2>10, FailsFacts, PassFacts
  <2>11. CASE OpenStore(i) /\ GoesTo(i, "storing")
    <3>1. \A s \in StoreFiles \ {Name(i)} : stores'[s] = stores[s]
      BY <2>3, <2>11 DEF OpenStore, Name
    <3> QED BY <2>1, <2>4, <2>6, <2>7, <2>8, <2>11, <3>1, WrittenLedger DEF AtOwner
  <2>12. CASE OpenStore(i) /\ NextFile(i) /\ stores' = [stores EXCEPT ![Name(i)] = "whole"]
    BY <2>1, <2>3, <2>4, <2>6, <2>7, <2>9, <2>12, WrittenLedger
  <2>13. CASE FillStore(i) /\ NextFile(i) /\ stores' = [stores EXCEPT ![Name(i)] = Slot(i).leaves]
    BY <2>1, <2>3, <2>4, <2>6, <2>7, <2>9, <2>13, WrittenLedger
  <2>14. CASE FillTemp(i) /\ GoesTo(i, "moving") /\ temps' = [temps EXCEPT ![Name(i)] = "whole"]
    <3>1. UNCHANGED stores BY <2>14 DEF FillTemp
    <3>2. ~AtFile(i, "storing") BY <2>14 DEF FillTemp, AtFile, Is
    <3> QED BY <2>1, <2>3, <2>4, <2>6, <2>7, <2>8, <2>14, <3>1, <3>2, QuietLedger
            DEF AtOwner
  <2>15. CASE /\ Place(i) /\ NextFile(i) /\ temps[Name(i)] # "none"
              /\ \E answer \in {Slot(i).leaves} \cup (Slot(i).asks \cap {"blank"}) :
                   stores' = [stores EXCEPT ![Name(i)] =
                     IF temps[Name(i)] = "whole" THEN answer ELSE "part"]
    <3>1. \A s \in StoreFiles \ {Name(i)} : stores'[s] = stores[s]
      BY <2>3, <2>15
    <3>2. stores'[Name(i)] # "part" \/ temps[Name(i)] = "part" BY <2>3, <2>15
    <3>3. temps[Name(i)] = "part" => Name(i) \in spoiled'
      BY <2>7, <2>15 DEF Place, AtFile, Is, Ledger, TempKnown
    <3> QED BY <2>1, <2>4, <2>6, <2>7, <2>9, <2>15, <3>1, <3>2, <3>3, WrittenLedger
  <2>16. CASE /\ UNCHANGED stores /\ session'[i].pc \notin {"storing", "moving"}
              /\ AtFile(i, "storing") => Name(i) \in spoiled'
    BY <2>1, <2>4, <2>6, <2>7, <2>16, QuietLedger
  <2>17. CASE OpenStore(i)
    <3>1. session[i].pc = "make" BY <2>17 DEF OpenStore, AtFile, Is
    <3> QED BY <2>10, <2>11, <2>12, <2>16, <2>17, <3>1 DEF OpenStore, Name, AtFile, Is
  <2>18. CASE FillStore(i)
    BY <2>9, <2>10, <2>13, <2>16, <2>18 DEF FillStore, Name, Spoil
  <2>19. CASE OpenTemp(i)
    <3>1. session[i].pc = "make" BY <2>19 DEF OpenTemp, AtFile, Is
    <3> QED BY <2>8, <2>10, <2>16, <2>19, <3>1 DEF OpenTemp, AtFile, Is, AtOwner
  <2>20. CASE FillTemp(i)
    <3>1. session[i].pc = "temp" BY <2>20 DEF FillTemp, AtFile, Is
    <3> QED BY <2>10, <2>14, <2>16, <2>20, <3>1 DEF FillTemp, AtFile, Is
  <2>21. CASE Place(i)
    <3>1. session[i].pc = "moving" BY <2>21 DEF Place, AtFile, Is
    <3> QED BY <2>9, <2>10, <2>15, <2>16, <2>21, <3>1 DEF Place, Name, AtFile, Is
  <2> QED BY <1>4, <2>17, <2>18, <2>19, <2>20, <2>21
<1>5. CASE OwnerNext
  BY <1>3, <1>4, <1>5 DEF OwnerNext
<1> QED BY <1>2, <1>5

LEMMA BooksStep == ASSUME Books, [OwnerNext]_ownerVars PROVE Books'
<1>1. Founded' BY FoundedStep DEF Books
<1>2. Lasting BY LastingFacts DEF Books, Founded
<1>3. CASE UNCHANGED ownerVars
  <2>1. prog' = prog /\ \A i \in Instances : session'[i] = session[i] BY <1>3 DEF ownerVars
  <2> QED BY <1>1, <1>2, <2>1, OthersBooked DEF Books
<1>4. CASE OwnerNext
  <2>1. PICK i \in Instances :
    \/ \E mode \in LaunchModes : Launch(i, mode)
    \/ \E k \in Keys : \E value \in Rows[k].values : Enter(i, k, value)
    \/ Inspect(i) \/ SynchronizeVersion(i) \/ Truncate(i) \/ Fill(i)
    \/ Read(i) \/ Kill(i)
    \/ EndOfInput(i) \/ Keep(i) \/ Asked(i) \/ Leave(i) \/ Offered(i)
    \/ Complete(i) \/ Skip(i) \/ Unfinished(i) \/ Decline(i)
    \/ StartOwner(i) \/ OwnerReturns(i) \/ Look(i) \/ Answer(i)
    \/ OpenStore(i) \/ FillStore(i)
    \/ OpenTemp(i) \/ FillTemp(i) \/ Place(i)
    BY <1>4 DEF OwnerNext
  <2>2. prog' = prog BY <2>1, ProgramKept
  <2>3. Booked(i)' BY <1>2, <2>1, EditBooked, MenuBooked, FileBooked
  <2>4. Elsewhere(i)
    <3>1. ASSUME NEW mode \in LaunchModes, Launch(i, mode) PROVE Elsewhere(i)
      BY <3>1 DEF Launch, Move, Elsewhere, Books, Founded, OwnerTypes, SessionsTyped
    <3> QED BY <2>1, <3>1, OnwardFacts DEF Books, Founded
  <2>5. \A j \in Instances \ {i} : Booked(j)' BY <1>2, <2>2, <2>4, OthersBooked DEF Elsewhere
  <2> QED BY <1>1, <2>3, <2>5 DEF Books
<1> QED BY <1>3, <1>4

LEMMA LedgerStart == ASSUME OwnerInit PROVE Ledger
<1>1. Founded BY MemoryStart DEF Memory
<1>2. \A i \in Instances : session[i].pc = "idle" BY DEF OwnerInit, Idle
<1>3. \A i \in Instances : Booked(i)
  BY <1>2 DEF Booked, RightMode, Paid, Settled, Behind, Editing, Holds, Is, AtSteps, AtOwner
<1>4. \A s \in StoreFiles : stores[s] = "none" BY DEF OwnerInit
<1> QED BY <1>1, <1>2, <1>3, <1>4 DEF Ledger, Books, CutKnown, TempKnown

(* A launch that ends with 0 leaves the INI file and every file of the     *)
(* owners it must run, none of them cut short but by a write that failed,  *)
(* was ended or crossed another one.                                       *)
THEOREM ZeroIsAlwaysDone == OwnerSpec => []ZeroIsDone
<1>1. OwnerInit => Ledger BY LedgerStart
<1>2. Ledger /\ [OwnerNext]_ownerVars => Ledger'
  <2> SUFFICES ASSUME Ledger, [OwnerNext]_ownerVars PROVE Ledger' OBVIOUS
  <2>1. Books' BY BooksStep DEF Ledger
  <2> QED BY <2>1, LedgerStep DEF Ledger
<1>3. Ledger => ZeroIsDone
  <2> SUFFICES ASSUME Ledger, NEW i \in Instances, Is(i, "ended"), session[i].code = 0
               PROVE  /\ present
                      /\ \A s \in Owed(session[i].mode) :
                           Exists(s) /\ (stores[s] = "part" => s \in spoiled \/ Filling(s))
    BY DEF ZeroIsDone
  <2>1. present BY DEF Ledger, Books, Founded, FileThere, Is
  <2>2. \A s \in Owed(session[i].mode) : Exists(s)
    BY DEF Ledger, Books, Booked, Paid, Settled, Is
  <2>3. Owed(session[i].mode) \subseteq StoreFiles
    BY OwedFacts DEF Ledger, Books, Founded, OwnerTypes, SessionsTyped, SessionRecord
  <2> QED BY <2>1, <2>2, <2>3 DEF Ledger, CutKnown
<1> QED BY <1>1, <1>2, <1>3, PTL DEF OwnerSpec

-----------------------------------------------------------------------------
(* The list of components.                                                 *)

LEMMA LineFacts ==
  ASSUME NEW line \in Line
  PROVE  /\ IsSection(line) => line = Section(line.name)
         /\ line.kind = "entry" => line.name \in Names /\ line.value \in Values
         /\ line.kind # "absent"
<1>1. CASE \E s : line = Section(s)
  <2>1. PICK s : line = Section(s) BY <1>1
  <2>2. line.kind = "section" /\ line.name = s BY <2>1 DEF Section
  <2> QED BY <2>1, <2>2 DEF IsSection
<1>2. CASE line = Comment
  BY <1>2 DEF Comment, IsSection
<1>3. CASE \E n \in Names, v \in Values : line = Entry(n, v)
  BY <1>3 DEF Entry, IsSection
<1> QED BY <1>1, <1>2, <1>3 DEF Line

(* A set of line numbers has a first and a last.                           *)
LEMMA FirstFacts ==
  ASSUME NEW S \in SUBSET Nat, S # {}
  PROVE  Min(S) \in S /\ \A y \in S : Min(S) <= y
<1>1. PICK x \in S : \A y \in S : <<y, x>> \notin OpToRel(<, Nat)
  BY NatLessThanWellFounded, WFMin, Zenon
<1>2. \A y \in S : ~(y < x) BY <1>1 DEF OpToRel
<1>3. \A y \in S : x <= y BY <1>2
<1> QED BY <1>3 DEF Min

LEMMA LastFacts ==
  ASSUME NEW n \in Nat, NEW S \in SUBSET (1..n), S # {}
  PROVE  Max(S) \in S /\ \A y \in S : Max(S) >= y
<1> DEFINE T == {n - y : y \in S}
<1>1. T \in SUBSET Nat /\ T # {}
  <2>1. PICK x \in S : TRUE OBVIOUS
  <2>2. n - x \in T OBVIOUS
  <2>3. \A y \in 1..n : n - y \in Nat OBVIOUS
  <2> QED BY <2>2, <2>3
<1>2. Min(T) \in T /\ \A y \in T : Min(T) <= y
  <2> HIDE DEF T
  <2> QED BY <1>1, FirstFacts
<1>3. PICK x \in S : Min(T) = n - x BY <1>2
<1>4. \A y \in S : n - y \in T OBVIOUS
<1>5. \A y \in S : x >= y
  <2> SUFFICES ASSUME NEW y \in S PROVE x >= y OBVIOUS
  <2>1. n - x <= n - y BY <1>2, <1>3, <1>4
  <2>2. x \in Nat /\ y \in Nat OBVIOUS
  <2> QED BY <2>1, <2>2
<1> QED BY <1>5 DEF Max

(* The header a line stands under.                                         *)
LEMMA UnderFacts ==
  ASSUME NEW t \in Contents, NEW k \in DOMAIN t
  PROVE  \/ /\ \A j \in 1..k : ~IsSection(t[j])
            /\ SectionOf(t, k) = "blank"
         \/ \E j \in 1..k : /\ IsSection(t[j]) /\ SectionOf(t, k) = t[j].name
                            /\ \A i \in 1..k : IsSection(t[i]) => i <= j
<1> DEFINE headers == {j \in 1..k : IsSection(t[j])}
<1>1. k \in Nat BY DEF Contents
<1>2. CASE headers = {} BY <1>2 DEF SectionOf
<1>3. CASE headers # {}
  <2>1. headers \in SUBSET (1..k) OBVIOUS
  <2>2. Max(headers) \in headers /\ \A y \in headers : Max(headers) >= y
    <3> HIDE DEF headers
    <3> QED BY <1>1, <1>3, <2>1, LastFacts
  <2>3. SectionOf(t, k) = t[Max(headers)].name BY <1>3 DEF SectionOf
  <2>4. \A i \in 1..k : IsSection(t[i]) => i <= Max(headers) BY <1>1, <2>2
  <2> QED BY <2>2, <2>3, <2>4
<1> QED BY <1>2, <1>3

(* Lines up to k decide the section of line k.                             *)
LEMMA SectionIs ==
  ASSUME NEW t \in Contents, NEW k \in DOMAIN t, NEW j \in 1..k, IsSection(t[j]),
         \A i \in 1..k : IsSection(t[i]) => i <= j
  PROVE  SectionOf(t, k) = t[j].name
<1>1. k \in Nat BY DEF Contents
<1>2. PICK h \in 1..k : /\ IsSection(t[h]) /\ SectionOf(t, k) = t[h].name
                        /\ \A i \in 1..k : IsSection(t[i]) => i <= h
  BY UnderFacts
<1>3. h = j BY <1>1, <1>2
<1> QED BY <1>2, <1>3

LEMMA LastIs ==
  ASSUME NEW n \in Nat, NEW S \in SUBSET (1..n), NEW x \in S, \A y \in S : y <= x
  PROVE  Max(S) = x
<1>1. PICK y \in S : Max(S) = y /\ y >= x BY LastFacts
<1>2. y \in Nat /\ x \in Nat /\ y <= x OBVIOUS
<1> QED BY <1>1, <1>2

-----------------------------------------------------------------------------
(* The reading of a text, and an edit that changes that of one name.       *)
LEMMA LinesFacts ==
  ASSUME NEW t \in Contents, NEW m
  PROVE  /\ LinesOf(t, m) \subseteq 1..Len(t) /\ Len(t) \in Nat /\ DOMAIN t = 1..Len(t)
         /\ LinesOf(t, m) # {} => /\ Max(LinesOf(t, m)) \in LinesOf(t, m)
                                  /\ \A y \in LinesOf(t, m) : y <= Max(LinesOf(t, m))
<1>1. LinesOf(t, m) \in SUBSET (1..Len(t)) /\ Len(t) \in Nat /\ DOMAIN t = 1..Len(t)
  BY DEF Contents, LinesOf
<1>2. ASSUME LinesOf(t, m) # {}
      PROVE  /\ Max(LinesOf(t, m)) \in LinesOf(t, m)
             /\ \A y \in LinesOf(t, m) : Max(LinesOf(t, m)) >= y
  BY <1>1, <1>2, LastFacts
<1> QED BY <1>1, <1>2

LEMMA ContentsThere == ASSUME NEW t \in Contents PROVE t # Absent
<1> SUFFICES ASSUME t = Absent PROVE FALSE OBVIOUS
<1>1. Len(t) = 1 /\ t[1].kind = "absent" BY DEF Absent
<1>2. t[1] \in Line BY <1>1 DEF Contents
<1> QED BY <1>1, <1>2, LineFacts

(* What text u says of n is v, and of other names what t says.             *)
Sets(t, u, n, v) ==
  /\ u \in Contents
  /\ LinesOf(u, n) # {} /\ \A k \in LinesOf(u, n) : u[k].value = v
  /\ \A m \in Names \ {n} : /\ (LinesOf(u, m) = {}) = (LinesOf(t, m) = {})
                            /\ LinesOf(t, m) # {} => Value(u, m) = Value(t, m)

LEMMA SettingFacts ==
  ASSUME NEW t \in Contents, NEW u, NEW n \in Names, NEW v, Sets(t, u, n, v)
  PROVE  /\ u # Absent /\ Listed(u) = Listed(t) \cup {n} /\ Value(u, n) = v
         /\ Enabled(u) \ {n} = Enabled(t) \ {n}
<1>1. t # Absent /\ u # Absent BY ContentsThere DEF Sets
<1>2. Listed(u) = Listed(t) \cup {n} BY <1>1 DEF Listed, Sets
<1>3. Value(u, n) = v BY LinesFacts DEF Value, Sets
<1>4. \A m \in Names \ {n} : m \in Listed(t) => Value(u, m) = Value(t, m)
  BY <1>1 DEF Listed, Sets
<1>5. Enabled(u) \ {n} = Enabled(t) \ {n}
  BY <1>2, <1>4 DEF Enabled, Listed
<1> QED BY <1>1, <1>2, <1>3, <1>5

(* A text that has the section of each line of another in the same place.  *)
LEMMA SameSections ==
  ASSUME NEW t \in Contents, NEW u \in Contents, NEW e \in Nat, e <= Len(t), e <= Len(u),
         \A k \in 1..e : IsSection(u[k]) = IsSection(t[k])
                          /\ (IsSection(t[k]) => u[k] = t[k]),
         NEW k \in 1..e
  PROVE  SectionOf(u, k) = SectionOf(t, k)
<1>1. {j \in 1..k : IsSection(t[j])} = {j \in 1..k : IsSection(u[j])} OBVIOUS
<1>2. k \in DOMAIN t /\ k \in DOMAIN u /\ k \in Nat BY DEF Contents
<1>3. CASE \A j \in 1..k : ~IsSection(t[j]) BY <1>1, <1>2, <1>3, UnderFacts
<1>4. CASE \E j \in 1..k : /\ IsSection(t[j]) /\ SectionOf(t, k) = t[j].name
                           /\ \A i \in 1..k : IsSection(t[i]) => i <= j
  <2>1. PICK j \in 1..k : /\ IsSection(t[j]) /\ SectionOf(t, k) = t[j].name
                          /\ \A i \in 1..k : IsSection(t[i]) => i <= j
    BY <1>4
  <2>2. SectionOf(u, k) = u[j].name BY <1>2, <2>1, SectionIs
  <2> QED BY <2>1, <2>2
<1> QED BY <1>2, <1>3, <1>4, UnderFacts

(* Every line of the name is replaced.                                     *)
Replaced(t, n, v) ==
  [k \in DOMAIN t |-> IF k \in LinesOf(t, n) THEN Entry(n, v) ELSE t[k]]

LEMMA ReplacedFacts ==
  ASSUME NEW t \in Contents, NEW n \in Names, NEW v \in Values
  PROVE  LET r == Replaced(t, n, v) IN
         /\ r \in Contents /\ Len(r) = Len(t)
         /\ \A k \in 1..Len(t) : /\ IsSection(r[k]) = IsSection(t[k])
                                 /\ IsSection(t[k]) => r[k] = t[k]
                                 /\ SectionOf(r, k) = SectionOf(t, k)
         /\ \A m \in Names : LinesOf(r, m) = LinesOf(t, m)
         /\ \A k \in LinesOf(r, n) : r[k].value = v
         /\ \A m \in Names \ {n} : \A k \in LinesOf(t, m) : r[k] = t[k]
<1> DEFINE r == Replaced(t, n, v)
<1>1. Entry(n, v) \in Line /\ ~IsSection(Entry(n, v)) /\ Entry(n, v).kind = "entry"
      /\ Entry(n, v).name = n /\ Entry(n, v).value = v
  BY DEF Line, Entry, IsSection
<1>2. DOMAIN t = 1..Len(t) /\ Len(t) \in Nat /\ \A k \in 1..Len(t) : t[k] \in Line
  BY DEF Contents
<1>3. /\ DOMAIN r = 1..Len(t)
      /\ \A k \in 1..Len(t) : r[k] = IF k \in LinesOf(t, n) THEN Entry(n, v) ELSE t[k]
  BY <1>2 DEF Replaced
<1>4. r \in Contents /\ Len(r) = Len(t)
  <2>1. r \in [1..Len(t) -> Line] BY <1>1, <1>2, <1>3 DEF Replaced
  <2>2. r \in Seq(Line) BY <1>2, <2>1
  <2>3. Len(r) = Len(t) BY <1>2, <1>3, <2>2
  <2> QED BY <2>2, <2>3 DEF Contents
<1>5. \A k \in LinesOf(t, n) : ~IsSection(t[k]) /\ t[k].name = n /\ t[k].kind = "entry"
  BY DEF LinesOf, IsSection
<1> HIDE DEF r
<1>6. \A k \in 1..Len(t) : IsSection(r[k]) = IsSection(t[k]) /\ (IsSection(t[k]) => r[k] = t[k])
  BY <1>1, <1>3, <1>5 DEF IsSection
<1>7. \A k \in 1..Len(t) : SectionOf(r, k) = SectionOf(t, k)
  BY <1>2, <1>4, <1>6, SameSections
<1>8. \A k \in 1..Len(t) : r[k].kind = t[k].kind /\ r[k].name = t[k].name
  BY <1>1, <1>3, <1>5
<1>9. \A m \in Names : LinesOf(r, m) = LinesOf(t, m)
  BY <1>2, <1>3, <1>7, <1>8 DEF LinesOf
<1>10. \A k \in LinesOf(r, n) : r[k].value = v
  BY <1>1, <1>2, <1>3, <1>9 DEF LinesOf
<1>11. \A m \in Names \ {n} : \A k \in LinesOf(t, m) : r[k] = t[k]
  BY <1>2, <1>3, <1>5 DEF LinesOf
<1> QED BY <1>4, <1>6, <1>7, <1>9, <1>10, <1>11 DEF r

(* A line of the name is put in behind line e.                             *)
Shifted(e, k) == IF k <= e THEN k ELSE k + 1

LEMMA InsertedLines ==
  ASSUME NEW t \in Contents, NEW e \in 0..Len(t), NEW line \in Line
  PROVE  LET u == InsertAt(t, e + 1, line) IN
         /\ u \in Contents /\ Len(u) = Len(t) + 1 /\ u[e + 1] = line
         /\ \A k \in 1..Len(t) : u[Shifted(e, k)] = t[k]
<1> DEFINE a == SubSeq(t, 1, e)
           b == SubSeq(t, e + 1, Len(t))
           u == InsertAt(t, e + 1, line)
<1>1. t \in Seq(Line) /\ Len(t) \in Nat /\ e \in Nat /\ e <= Len(t) BY DEF Contents
<1>2. /\ a \in Seq(Line) /\ Len(a) = e /\ \A k \in 1..e : a[k] = t[k]
  BY <1>1
<1>3. /\ b \in Seq(Line) /\ Len(b) = Len(t) - e
      /\ \A k \in 1..(Len(t) - e) : b[k] = t[e + k]
  BY <1>1
<1>4. u = a \o <<line>> \o b
  <2>1. (e + 1) - 1 = e BY <1>1
  <2> QED BY <2>1, Zenon DEF InsertAt
<1> HIDE DEF a, b, u
<1>5. u \in Seq(Line) /\ Len(u) = Len(t) + 1 BY <1>1, <1>2, <1>3, <1>4
<1>6. u[e + 1] = line BY <1>1, <1>2, <1>3, <1>4
<1>7. ASSUME NEW k \in 1..Len(t) PROVE u[Shifted(e, k)] = t[k]
  <2>1. CASE k <= e
    <3>1. u[k] = a[k] BY <1>1, <1>2, <1>3, <1>4, <2>1
    <3> QED BY <1>2, <2>1, <3>1 DEF Shifted
  <2>2. CASE k > e
    <3>1. u[k + 1] = b[k - e] BY <1>1, <1>2, <1>3, <1>4, <2>2
    <3>2. k - e \in 1..(Len(t) - e) /\ e + (k - e) = k BY <1>1, <2>2
    <3> QED BY <1>1, <1>3, <2>2, <3>1, <3>2 DEF Shifted
  <2> QED BY <1>1, <2>1, <2>2
<1> QED BY <1>5, <1>6, <1>7 DEF Contents, u

(* An entry put in behind the last line of a block of the section (a       *)
(* header, or a line of the section) says what it says and moves the rest. *)
LEMMA InsertedFacts ==
  ASSUME NEW t \in Contents, NEW e \in 1..Len(t), SectionOf(t, e) = "components",
         NEW n \in Names, NEW v \in Values, \A k \in LinesOf(t, n) : t[k].value = v
  PROVE  Sets(t, InsertAt(t, e + 1, Entry(n, v)), n, v)
<1>1. PICK line : line = Entry(n, v) OBVIOUS
<1>2. line \in Line /\ ~IsSection(line) /\ line.kind = "entry" /\ line.name = n
      /\ line.value = v
  BY <1>1 DEF Line, Entry, IsSection
<1>3. PICK u : u = InsertAt(t, e + 1, line) OBVIOUS
<1>4. /\ u \in Contents /\ Len(u) = Len(t) + 1 /\ u[e + 1] = line
      /\ \A k \in 1..Len(t) : u[Shifted(e, k)] = t[k]
  BY <1>2, <1>3, InsertedLines
<1>5. DOMAIN t = 1..Len(t) /\ Len(t) \in Nat /\ DOMAIN u = 1..Len(u) /\ e \in Nat /\ e <= Len(t)
  BY <1>4 DEF Contents
<1>6. /\ \A k \in 1..Len(t) : Shifted(e, k) \in 1..Len(u) /\ Shifted(e, k) # e + 1
      /\ \A j \in 1..Len(u) : j = e + 1 \/ \E k \in 1..Len(t) : j = Shifted(e, k)
      /\ \A j, k \in 1..Len(t) : (j <= k) = (Shifted(e, j) <= Shifted(e, k))
  <2>1. \A j \in 1..Len(u) :
          /\ j <= e => j \in 1..Len(t) /\ j = Shifted(e, j)
          /\ j > e + 1 => j - 1 \in 1..Len(t) /\ j = Shifted(e, j - 1)
    BY <1>4, <1>5 DEF Shifted
  <2>2. \A j \in 1..Len(u) : j <= e \/ j = e + 1 \/ j > e + 1 BY <1>4, <1>5
  <2>3. \A k \in 1..Len(t) : Shifted(e, k) \in 1..Len(u) /\ Shifted(e, k) # e + 1
    BY <1>4, <1>5 DEF Shifted
  <2>4. \A j, k \in 1..Len(t) : (j <= k) = (Shifted(e, j) <= Shifted(e, k))
    BY <1>5 DEF Shifted
  <2> QED BY <2>1, <2>2, <2>3, <2>4
(* Headers move with their lines.                                          *)
<1>7. ASSUME NEW k \in 1..Len(t) PROVE SectionOf(u, Shifted(e, k)) = SectionOf(t, k)
  <2>1. Shifted(e, k) \in DOMAIN u /\ k \in DOMAIN t BY <1>5, <1>6
  <2>2. \A i \in 1..Shifted(e, k) : IsSection(u[i]) =>
          \E h \in 1..k : i = Shifted(e, h) /\ u[i] = t[h]
    <3> SUFFICES ASSUME NEW i \in 1..Shifted(e, k), IsSection(u[i])
                 PROVE  \E h \in 1..k : i = Shifted(e, h) /\ u[i] = t[h]
      OBVIOUS
    <3>1. i # e + 1 /\ i \in 1..Len(u) BY <1>2, <1>4, <1>5, <1>6, <2>1
    <3>2. PICK h \in 1..Len(t) : i = Shifted(e, h) BY <1>6, <3>1
    <3>3. i <= Shifted(e, k) /\ (h <= k) = (Shifted(e, h) <= Shifted(e, k)) BY <1>6
    <3>4. h <= k BY <3>2, <3>3
    <3> QED BY <1>4, <3>2, <3>4
  <2>3. CASE \A j \in 1..k : ~IsSection(t[j])
    <3>1. SectionOf(t, k) = "blank" BY <2>1, <2>3, UnderFacts
    <3>2. \A i \in 1..Shifted(e, k) : ~IsSection(u[i]) BY <2>2, <2>3
    <3>3. SectionOf(u, Shifted(e, k)) = "blank" BY <1>4, <2>1, <3>2, UnderFacts
    <3> QED BY <3>1, <3>3
  <2>4. ASSUME NEW j \in 1..k, IsSection(t[j]), SectionOf(t, k) = t[j].name,
               \A i \in 1..k : IsSection(t[i]) => i <= j
        PROVE  SectionOf(u, Shifted(e, k)) = SectionOf(t, k)
    <3>1. j \in 1..Len(t) /\ j <= k BY <1>5
    <3>2. Shifted(e, j) \in 1..Shifted(e, k) /\ u[Shifted(e, j)] = t[j]
      BY <1>4, <1>5, <1>6, <3>1
    <3>3. \A i \in 1..Shifted(e, k) : IsSection(u[i]) => i <= Shifted(e, j)
      <4> SUFFICES ASSUME NEW i \in 1..Shifted(e, k), IsSection(u[i]) PROVE i <= Shifted(e, j)
        OBVIOUS
      <4>1. PICK h \in 1..k : i = Shifted(e, h) /\ u[i] = t[h] BY <2>2
      <4>2. h <= j /\ h \in 1..Len(t) BY <1>5, <2>4, <4>1
      <4> QED BY <1>6, <3>1, <4>1, <4>2
    <3> QED BY <1>4, <2>1, <2>4, <3>2, <3>3, SectionIs
  <2> QED BY <2>1, <2>3, <2>4, UnderFacts
<1>8. SectionOf(u, e + 1) = "components"
  <2>1. e \in DOMAIN t /\ e + 1 \in DOMAIN u /\ \A k \in 1..e : u[k] = t[k]
    BY <1>4, <1>5 DEF Shifted
  <2>2. PICK j \in 1..e : /\ IsSection(t[j]) /\ SectionOf(t, e) = t[j].name
                          /\ \A i \in 1..e : IsSection(t[i]) => i <= j
    BY <2>1, UnderFacts
  <2>3. j \in 1..(e + 1) /\ IsSection(u[j]) /\ u[j] = t[j] BY <1>5, <2>1, <2>2
  <2>4. \A i \in 1..(e + 1) : IsSection(u[i]) => i <= j
    <3>1. \A i \in 1..(e + 1) : i = e + 1 \/ i \in 1..e BY <1>5
    <3> QED BY <1>2, <1>4, <2>1, <2>2, <3>1
  <2> QED BY <1>4, <2>1, <2>2, <2>3, <2>4, SectionIs
(* The lines of a name.                                                    *)
<1>9. \A m \in Names : \A k \in 1..Len(t) : Shifted(e, k) \in LinesOf(u, m) <=> k \in LinesOf(t, m)
  BY <1>4, <1>5, <1>6, <1>7 DEF LinesOf
<1>10. \A m \in Names : e + 1 \in LinesOf(u, m) <=> m = n
  BY <1>2, <1>4, <1>5, <1>8 DEF LinesOf
<1>11. \A m \in Names : \A i \in LinesOf(u, m) :
         i = e + 1 \/ \E k \in LinesOf(t, m) : i = Shifted(e, k) /\ u[i] = t[k]
  <2>1. \A m \in Names : LinesOf(u, m) \subseteq 1..Len(u) BY <1>4, LinesFacts
  <2> QED BY <1>4, <1>6, <1>9, <2>1
<1>12. LinesOf(u, n) # {} /\ \A k \in LinesOf(u, n) : u[k].value = v
  BY <1>2, <1>4, <1>10, <1>11
<1>13. ASSUME NEW m \in Names \ {n}
       PROVE  /\ (LinesOf(u, m) = {}) = (LinesOf(t, m) = {})
              /\ LinesOf(t, m) # {} => Value(u, m) = Value(t, m)
  <2>1. \A i \in LinesOf(u, m) : \E k \in LinesOf(t, m) : i = Shifted(e, k) BY <1>10, <1>11
  <2>2. LinesOf(t, m) \subseteq 1..Len(t) /\ LinesOf(u, m) \subseteq 1..Len(u)
    BY <1>4, LinesFacts
  <2>3. (LinesOf(u, m) = {}) = (LinesOf(t, m) = {}) BY <1>9, <2>1, <2>2
  <2>4. ASSUME LinesOf(t, m) # {} PROVE Value(u, m) = Value(t, m)
    <3>1. PICK last \in LinesOf(t, m) : /\ Max(LinesOf(t, m)) = last
                                       /\ \A y \in LinesOf(t, m) : y <= last
      BY <2>4, LinesFacts
    <3>2. Shifted(e, last) \in LinesOf(u, m) /\ last \in 1..Len(t) BY <1>9, <2>2, <3>1
    <3>3. \A y \in LinesOf(u, m) : y <= Shifted(e, last)
      <4> SUFFICES ASSUME NEW y \in LinesOf(u, m) PROVE y <= Shifted(e, last) OBVIOUS
      <4>1. PICK k \in LinesOf(t, m) : y = Shifted(e, k) BY <2>1
      <4>2. k <= last /\ k \in 1..Len(t) BY <2>2, <3>1
      <4> QED BY <1>6, <3>2, <4>1, <4>2
    <3>4. Max(LinesOf(u, m)) = Shifted(e, last)
      <4>1. LinesOf(u, m) \in SUBSET (1..Len(u)) /\ Len(u) \in Nat BY <1>4, <1>5, <2>2
      <4> QED BY <3>2, <3>3, <4>1, LastIs
    <3> QED BY <1>4, <3>1, <3>2, <3>4 DEF Value
  <2> QED BY <2>3, <2>4
<1> QED BY <1>1, <1>3, <1>4, <1>12, <1>13 DEF Sets

LEMMA HeaderFacts ==
  ASSUME NEW head, head = Section("components")
  PROVE  /\ head \in Line /\ IsSection(head)
         /\ head.name = "components" /\ head.kind # "entry"
<1>1. head.kind = "section" /\ head.name = "components" BY DEF Section
<1>2. head \in Line BY DEF Line
<1> QED BY <1>1, <1>2 DEF IsSection

(* A text without the section gets one, with the name.                     *)
LEMMA AddedFacts ==
  ASSUME NEW t \in Contents, \A k \in DOMAIN t : t[k] # Section("components"),
         NEW n \in Names, NEW v \in Values
  PROVE  Sets(t, t \o << Section("components"), Entry(n, v) >>, n, v)
<1>1. PICK line, head : line = Entry(n, v) /\ head = Section("components") OBVIOUS
<1>2. /\ line \in Line /\ ~IsSection(line) /\ line.kind = "entry" /\ line.name = n
      /\ line.value = v
      /\ head \in Line /\ IsSection(head) /\ head.name = "components" /\ head.kind # "entry"
  <2>1. line \in Line BY <1>1 DEF Line
  <2>2. /\ ~IsSection(line) /\ line.kind = "entry" /\ line.name = n /\ line.value = v
    BY <1>1 DEF Entry, IsSection
  <2> QED BY <1>1, <2>1, <2>2, HeaderFacts
<1>3. PICK u : u = t \o << head, line >> OBVIOUS
<1>4. t \in Seq(Line) /\ Len(t) \in Nat /\ DOMAIN t = 1..Len(t) BY DEF Contents
<1>5. /\ u \in Contents /\ Len(u) = Len(t) + 2 /\ DOMAIN u = 1..Len(u)
      /\ u[Len(t) + 1] = head /\ u[Len(t) + 2] = line
      /\ \A k \in 1..Len(t) : u[k] = t[k]
  BY <1>2, <1>3, <1>4 DEF Contents
<1>6. \A k \in 1..Len(t) : SectionOf(t, k) # "components"
  <2> SUFFICES ASSUME NEW k \in 1..Len(t), SectionOf(t, k) = "components" PROVE FALSE
    OBVIOUS
  <2>1. PICK j \in 1..k : IsSection(t[j]) /\ t[j].name = "components"
    BY <1>4, UnderFacts
  <2>2. t[j] \in Line /\ j \in DOMAIN t BY <1>4
  <2> QED BY <2>1, <2>2, LineFacts
<1>7. \A k \in 1..Len(t) : SectionOf(u, k) = SectionOf(t, k)
  BY <1>4, <1>5, SameSections
<1>8. \A k \in 1..Len(u) : k \in 1..Len(t) \/ k = Len(t) + 1 \/ k = Len(t) + 2
  BY <1>4, <1>5
<1>9. SectionOf(u, Len(t) + 2) = "components"
  <2>1. Len(t) + 2 \in DOMAIN u /\ Len(t) + 1 \in 1..(Len(t) + 2) BY <1>4, <1>5
  <2>2. \A i \in 1..(Len(t) + 2) : IsSection(u[i]) => i <= Len(t) + 1
    BY <1>2, <1>4, <1>5
  <2> QED BY <1>2, <1>5, <2>1, <2>2, SectionIs
<1>10. \A m \in Names : LinesOf(t, m) = {} BY <1>4, <1>6 DEF LinesOf
<1>11. \A m \in Names \ {n} : LinesOf(u, m) = {}
  BY <1>2, <1>5, <1>6, <1>7, <1>8 DEF LinesOf
<1>12. LinesOf(u, n) = {Len(t) + 2}
  <2>1. Len(t) + 2 \in 1..Len(u) BY <1>4, <1>5
  <2> QED BY <1>2, <1>5, <1>6, <1>7, <1>8, <1>9, <2>1 DEF LinesOf
<1> QED BY <1>1, <1>2, <1>3, <1>5, <1>10, <1>11, <1>12 DEF Sets

LEMMA SetListedSets ==
  ASSUME NEW t \in Contents, NEW n \in Names, NEW v \in Values
  PROVE  Sets(t, SetListed(t, n, v), n, v)
<1> DEFINE headers == {k \in DOMAIN t : t[k] = Section("components")}
           first == Min(headers)
           next == {k \in DOMAIN t : k > first /\ IsSection(t[k])}
           end == IF next = {} THEN Len(t) ELSE Min(next) - 1
           r == Replaced(t, n, v)
<1>1. DOMAIN t = 1..Len(t) /\ Len(t) \in Nat /\ \A k \in 1..Len(t) : t[k] \in Line
  BY DEF Contents
<1>2. CASE headers = {}
  <2>1. SetListed(t, n, v) = t \o << Section("components"), Entry(n, v) >>
    BY <1>2 DEF SetListed
  <2> QED BY <1>2, <2>1, AddedFacts
<1>3. CASE headers # {}
  <2>1. /\ r \in Contents /\ Len(r) = Len(t)
        /\ \A k \in 1..Len(t) : SectionOf(r, k) = SectionOf(t, k)
        /\ \A m \in Names : LinesOf(r, m) = LinesOf(t, m)
        /\ \A k \in LinesOf(r, n) : r[k].value = v
        /\ \A m \in Names \ {n} : \A k \in LinesOf(t, m) : r[k] = t[k]
    BY ReplacedFacts
  <2>2. SetListed(t, n, v) = IF LinesOf(t, n) \cap first..end # {} THEN r
                             ELSE InsertAt(r, end + 1, Entry(n, v))
    BY <1>3 DEF SetListed, Replaced
  <2>3. first \in headers /\ \A y \in headers : first <= y
    <3>1. headers \in SUBSET Nat BY <1>1
    <3> HIDE DEF headers
    <3> QED BY <1>3, <3>1, FirstFacts
  <2>4. first \in 1..Len(t) /\ t[first] = Section("components") BY <1>1, <2>3
  <2> HIDE DEF first
  <2>5. end \in first..Len(t) /\ \A k \in (first + 1)..end : ~IsSection(t[k])
    <3>1. CASE next = {} BY <1>1, <2>4, <3>1
    <3>2. CASE next # {}
      <4>1. next \in SUBSET Nat BY <1>1
      <4>2. PICK m \in next : Min(next) = m /\ \A y \in next : m <= y
        <5> HIDE DEF next
        <5> QED BY <3>2, <4>1, FirstFacts
      <4>3. m \in 1..Len(t) /\ m > first BY <1>1
      <4>4. \A k \in (first + 1)..(m - 1) : ~IsSection(t[k])
        <5> SUFFICES ASSUME NEW k \in (first + 1)..(m - 1), IsSection(t[k]) PROVE FALSE
          OBVIOUS
        <5>1. k \in 1..Len(t) /\ k > first /\ k < m BY <1>1, <2>4, <4>3
        <5>2. k \in next BY <1>1, <5>1
        <5> QED BY <4>2, <4>3, <5>1, <5>2
      <4>5. end = m - 1 BY <3>2, <4>2
      <4>6. m - 1 \in first..Len(t) BY <1>1, <2>4, <4>3
      <4> QED BY <4>4, <4>5, <4>6
    <3> QED BY <3>1, <3>2
  <2> HIDE DEF headers, next, end, r
  <2>6. SectionOf(t, end) = "components"
    <3>1. end \in DOMAIN t /\ first \in 1..end BY <1>1, <2>4, <2>5
    <3>2. IsSection(t[first]) /\ t[first].name = "components"
      BY <2>4, HeaderFacts
    <3>3. \A i \in 1..end : IsSection(t[i]) => i <= first
      <4> SUFFICES ASSUME NEW i \in 1..end, IsSection(t[i]), ~(i <= first) PROVE FALSE OBVIOUS
      <4>1. i \in (first + 1)..end BY <1>1, <2>4, <2>5
      <4> QED BY <2>5, <4>1
    <3> QED BY <3>1, <3>2, <3>3, SectionIs
  <2>7. CASE LinesOf(t, n) \cap first..end # {}
    <3>1. \A m \in Names \ {n} : LinesOf(t, m) # {} => Value(r, m) = Value(t, m)
      BY <2>1, LinesFacts DEF Value
    <3> QED BY <2>1, <2>2, <2>7, <3>1 DEF Sets
  <2>8. CASE LinesOf(t, n) \cap first..end = {}
    <3>1. end \in 1..Len(r) /\ SectionOf(r, end) = "components" BY <1>1, <2>1, <2>4, <2>5, <2>6
    <3>2. Sets(r, InsertAt(r, end + 1, Entry(n, v)), n, v)
      BY <2>1, <3>1, InsertedFacts
    <3>3. \A m \in Names \ {n} : LinesOf(t, m) # {} => Value(r, m) = Value(t, m)
      BY <2>1, LinesFacts DEF Value
    <3> QED BY <2>1, <2>2, <2>8, <3>2, <3>3 DEF Sets
  <2> QED BY <2>7, <2>8
<1> QED BY <1>2, <1>3

-----------------------------------------------------------------------------
(* The rewritten list.                                                     *)
LEMMA InOrder ==
  ASSUME NEW S \in SUBSET Names
  PROVE  LET s == SetToSeq(S) IN
         /\ Cardinality(S) \in Nat /\ s \in [1..Cardinality(S) -> S]
         /\ \A j, k \in 1..Cardinality(S) : s[j] = s[k] => j = k
         /\ \A n \in S : \E k \in 1..Cardinality(S) : s[k] = n
<1> DEFINE c == Cardinality(S)
           s == SetToSeq(S)
<1>1. IsFiniteSet(S) BY FS_Subset, NamesAssumption
<1>2. c \in Nat /\ ExistsBijection(1..c, S) BY <1>1, FS_CardinalityType
<1>3. \E f \in [1..c -> S] : IsInjective(f)
  BY <1>2 DEF ExistsBijection, Bijection, Injection
<1>4. s \in [1..c -> S] /\ IsInjective(s) BY <1>3 DEF SetToSeq
<1>5. s \in Injection(1..c, S) BY <1>4 DEF Injection
<1>6. IsFiniteSet(1..c) /\ Cardinality(1..c) = c
  BY <1>2, FS_Interval
<1> HIDE DEF c, s
<1>7. s \in Surjection(1..c, S) BY <1>1, <1>5, <1>6, FS_Injection DEF c
<1> QED BY <1>2, <1>4, <1>7 DEF c, s, IsInjective, Surjection

Row(on, n) == Entry(n, IF n \in on THEN "blank" ELSE "off")
LEMMA FormatFacts ==
  ASSUME NEW names \in SUBSET Names, NEW on
  PROVE  LET t == Format(names, on) IN
         t \in Contents /\ Listed(t) = names /\ Enabled(t) = names \cap on
<1> DEFINE s == SetToSeq(names)
           c == Cardinality(names)
           rows == [k \in 1..c |-> LET n == s[k] IN Row(on, n)]
           t == Format(names, on)
<1>1. /\ c \in Nat /\ s \in [1..c -> names]
      /\ \A j, k \in 1..c : s[j] = s[k] => j = k
      /\ \A n \in names : \E k \in 1..c : s[k] = n
  BY InOrder
<1>2. t = << Comment, Section("components") >> \o rows BY DEF Format, Row
<1>3. PICK head : head = Section("components") OBVIOUS
<1>4. head \in Line /\ IsSection(head) /\ head.name = "components" /\ head.kind # "entry"
  BY <1>3, HeaderFacts
<1>5. Comment \in Line /\ ~IsSection(Comment) /\ Comment.kind # "entry"
  BY DEF Line, Comment, IsSection
<1>6. \A n \in Names : /\ Row(on, n) \in Line /\ ~IsSection(Row(on, n)) /\ Row(on, n).kind = "entry"
                       /\ Row(on, n).name = n /\ (Row(on, n).value \in {"blank", "on"}) = (n \in on)
  <2> SUFFICES ASSUME NEW n \in Names
               PROVE  /\ Row(on, n) \in Line /\ ~IsSection(Row(on, n)) /\ Row(on, n).kind = "entry"
                      /\ Row(on, n).name = n /\ (Row(on, n).value \in {"blank", "on"}) = (n \in on)
    OBVIOUS
  <2>1. PICK v \in {"blank", "off"} : v = IF n \in on THEN "blank" ELSE "off" OBVIOUS
  <2>2. Row(on, n) = Entry(n, v) BY <2>1 DEF Row
  <2>3. Row(on, n).kind = "entry" /\ Row(on, n).name = n /\ Row(on, n).value = v
    BY <2>2 DEF Entry
  <2>4. Row(on, n) \in Line
    <3>1. v \in Values BY DEF Values
    <3> QED BY <2>2, <3>1 DEF Line
  <2>5. (v \in {"blank", "on"}) = (n \in on)
    <3>1. CASE n \in on BY <2>1, <3>1
    <3>2. CASE n \notin on BY <2>1, <3>2
    <3> QED BY <3>1, <3>2
  <2> QED BY <2>3, <2>4, <2>5 DEF IsSection
<1> HIDE DEF s, c, t
<1>7. \A k \in 1..c : rows[k] = Row(on, s[k]) BY DEF Row
<1>8. \A k \in 1..c : s[k] \in Names BY <1>1
<1>9. rows \in Seq(Line) /\ Len(rows) = c
  <2>1. rows \in [1..c -> Line] BY <1>6, <1>7, <1>8
  <2> HIDE DEF rows
  <2> QED BY <1>1, <2>1
<1> HIDE DEF rows
<1>10. /\ t \in Contents /\ Len(t) = c + 2 /\ DOMAIN t = 1..(c + 2)
       /\ t[1] = Comment /\ t[2] = head /\ \A k \in 1..c : t[k + 2] = Row(on, s[k])
  BY <1>1, <1>2, <1>3, <1>4, <1>5, <1>7, <1>9 DEF Contents
<1>11. \A j \in 1..(c + 2) : j = 1 \/ j = 2 \/ \E k \in 1..c : j = k + 2
  <2>1. \A j \in 1..(c + 2) : j = 1 \/ j = 2 \/ (j - 2 \in 1..c /\ j = (j - 2) + 2) BY <1>1
  <2> QED BY <2>1
<1>12. \A k \in 1..c : SectionOf(t, k + 2) = "components"
  <2> SUFFICES ASSUME NEW k \in 1..c PROVE SectionOf(t, k + 2) = "components" OBVIOUS
  <2>1. k + 2 \in DOMAIN t /\ 2 \in 1..(k + 2) /\ IsSection(t[2]) BY <1>1, <1>4, <1>10
  <2>2. \A i \in 1..(k + 2) : IsSection(t[i]) => i <= 2
    <3> SUFFICES ASSUME NEW i \in 1..(k + 2), IsSection(t[i]), ~(i <= 2) PROVE FALSE
      OBVIOUS
    <3>1. i \in 1..(c + 2) BY <1>1
    <3>2. PICK h \in 1..c : i = h + 2 BY <1>11, <3>1
    <3> QED BY <1>6, <1>8, <1>10, <3>2
  <2> QED BY <1>4, <1>10, <2>1, <2>2, SectionIs
<1>13. \A n \in Names : \A k \in 1..c : k + 2 \in LinesOf(t, n) <=> s[k] = n
  <2> SUFFICES ASSUME NEW n \in Names, NEW k \in 1..c
               PROVE  k + 2 \in LinesOf(t, n) <=> s[k] = n
    OBVIOUS
  <2>1. k + 2 \in DOMAIN t BY <1>1, <1>10
  <2>2. t[k + 2].kind = "entry" /\ t[k + 2].name = s[k] BY <1>6, <1>8, <1>10
  <2> QED BY <1>12, <2>1, <2>2 DEF LinesOf
<1>14. \A n \in Names : \A j \in LinesOf(t, n) : \E k \in 1..c : j = k + 2 /\ s[k] = n
  <2> SUFFICES ASSUME NEW n \in Names, NEW j \in LinesOf(t, n)
               PROVE  \E k \in 1..c : j = k + 2 /\ s[k] = n
    OBVIOUS
  <2>1. j \in 1..(c + 2) /\ t[j].kind = "entry" BY <1>10 DEF LinesOf
  <2>2. PICK k \in 1..c : j = k + 2 BY <1>4, <1>5, <1>10, <1>11, <2>1
  <2> QED BY <1>13, <2>2
<1>15. t # Absent BY <1>10, ContentsThere
<1>16. Listed(t) = names
  <2>1. \A n \in names : LinesOf(t, n) # {} BY <1>1, <1>13
  <2>2. \A n \in Names : LinesOf(t, n) # {} => n \in names BY <1>1, <1>14
  <2> QED BY <1>15, <2>1, <2>2 DEF Listed
<1>17. ASSUME NEW n \in names PROVE Value(t, n) \in {"blank", "on"} <=> n \in on
  <2>1. PICK j \in LinesOf(t, n) : j = Max(LinesOf(t, n))
    BY <1>10, <1>15, <1>16, LinesFacts DEF Listed
  <2>2. PICK k \in 1..c : j = k + 2 /\ s[k] = n BY <1>14, <2>1
  <2>3. Value(t, n) = Row(on, n).value BY <1>10, <2>1, <2>2 DEF Value
  <2> QED BY <1>6, <2>3
<1> QED BY <1>10, <1>16, <1>17 DEF t, Enabled

-----------------------------------------------------------------------------
(* Types.                                                                  *)
LEMMA TextFacts ==
  /\ StartTexts \subseteq Contents /\ <<>> \in Contents
  /\ \A t \in Contents \cup {Absent} : Listed(t) \subseteq Names /\ Enabled(t) \subseteq Listed(t)
<1>1. Lines \subseteq Line /\ Section("components") \in Line
  BY DEF Lines, Line, Values
<1>2. StartTexts \subseteq Contents
  <2>1. PICK head \in Line : head = Section("components") BY <1>1
  <2>2. \A a \in Lines : <<a>> \in Contents BY <1>1 DEF Contents
  <2>3. \A a, b \in Lines : <<a, b>> \in Contents BY <1>1 DEF Contents
  <2>4. \A a, b, c \in Lines : <<Section("components"), a, b, c>> \in Contents
    BY <1>1, <2>1 DEF Contents
  <2>5. <<>> \in Contents BY DEF Contents
  <2>6. ASSUME NEW t \in {<<a>> : a \in Lines} PROVE t \in Contents BY <2>2
  <2>7. ASSUME NEW t \in {<<a, b>> : a, b \in Lines} PROVE t \in Contents
    <3>1. PICK a \in Lines, b \in Lines : t = <<a, b>> BY <2>7
    <3> QED BY <2>3, <3>1
  <2>8. ASSUME NEW t \in {<<Section("components"), a, b, c>> : a, b, c \in Lines}
        PROVE  t \in Contents
    <3>1. PICK a \in Lines, b \in Lines, c \in Lines :
            t = <<Section("components"), a, b, c>>
      BY <2>8
    <3> QED BY <2>4, <3>1
  <2> QED BY <2>5, <2>6, <2>7, <2>8 DEF StartTexts
<1>3. <<>> \in Contents BY DEF Contents
<1> QED BY <1>2, <1>3 DEF Listed, Enabled

LEMMA RestingFacts ==
  /\ Resting \in EditorState /\ Resting.pc = "idle"
  /\ \A n \in Names, a \in Shows :
       LET s == [Resting EXCEPT !.pc = "shown", !.keep = {n}, !.ask = [m \in {n} |-> a]] IN
       s \in EditorState /\ s.pc = "shown"
<1>1. [n \in {} |-> Unasked] \in Asks(Shows)
  <2>1. [n \in {} |-> Unasked] \in [{} -> Shows] OBVIOUS
  <2> QED BY <2>1 DEF Asks
<1>2. \A n \in Names, a \in Shows : [m \in {n} |-> a] \in Asks(Shows)
  <2> SUFFICES ASSUME NEW n \in Names, NEW a \in Shows PROVE [m \in {n} |-> a] \in Asks(Shows)
    OBVIOUS
  <2>1. [m \in {n} |-> a] \in [{n} -> Shows] OBVIOUS
  <2> QED BY <2>1 DEF Asks
<1>3. PICK none : none = [n \in {} |-> Unasked] OBVIOUS
<1>4. Resting = [pc |-> "idle", next |-> <<>>, keep |-> {}, ask |-> none]
  BY <1>3 DEF Resting
<1> QED BY <1>1, <1>2, <1>3, <1>4 DEF EditorState

(* An editor that goes on to write.                                        *)
LEMMA HoldFacts ==
  ASSUME ListTypeOK, NEW e \in Editors, NEW next \in Contents, NEW keep \in SUBSET Names,
         NEW ask \in Asks(Switch), Hold(e, next, keep, ask)
  PROVE  /\ editor' \in [Editors -> EditorState]
         /\ \A d \in Editors : d # e => editor'[d] = editor[d]
         /\ editor'[e].pc = "write" /\ editor'[e].next = next /\ editor'[e].keep = keep
         /\ editor'[e].ask = ask
<1>1. PICK w : w = [pc |-> "write", next |-> next, keep |-> keep, ask |-> ask] OBVIOUS
<1>2. /\ w \in EditorState /\ w.pc = "write" /\ w.next = next /\ w.keep = keep
      /\ w.ask = ask
  BY <1>1 DEF EditorState
<1>3. editor' = [editor EXCEPT ![e] = w] BY <1>1 DEF Hold
<1> QED BY <1>2, <1>3 DEF ListTypeOK

LEMMA AsksFacts ==
  ASSUME NEW S \in SUBSET Names, NEW yes
  PROVE  [n \in S |-> IF n \in yes THEN "on" ELSE "off"] \in Asks(Switch)
<1>1. [n \in S |-> IF n \in yes THEN "on" ELSE "off"] \in [S -> Switch] BY DEF Switch
<1> QED BY <1>1 DEF Asks

(* The editor rewrites the list from the names it keeps and the new ones.  *)
Chosen(new, yes) == [n \in new |-> IF n \in yes THEN "on" ELSE "off"]
Rewrites(e, kept, new, yes) ==
  /\ kept \subseteq Listed(text) /\ new \subseteq Names /\ yes \subseteq new
  /\ kept \cap new = {}
  /\ editor'[e].next \in Contents /\ editor'[e].keep = kept \cup new
  /\ Listed(editor'[e].next) = kept \cup new
  /\ Enabled(editor'[e].next) = (Enabled(text) \cap kept) \cup yes
  /\ editor'[e].ask = Chosen(new, yes)
OthersStay(e) == /\ editor' \in [Editors -> EditorState]
             /\ \A d \in Editors : d # e => editor'[d] = editor[d]

LEMMA RewriteFacts ==
  ASSUME ListTypeOK, NEW e \in Editors, NEW kept \in SUBSET Listed(text),
         NEW new \in SUBSET Names, kept \cap new = {}, NEW yes \in SUBSET new,
         NEW names, names = kept \cup new,
         NEW on, on = (Enabled(text) \cap kept) \cup yes,
         Hold(e, Format(names, on), names, Chosen(new, yes))
  PROVE  OthersStay(e) /\ editor'[e].pc = "write" /\ Rewrites(e, kept, new, yes)
<1>1. Listed(text) \subseteq Names BY TextFacts DEF ListTypeOK
<1>2. names \in SUBSET Names /\ on \subseteq names BY <1>1
<1>3. PICK next : next = Format(names, on) OBVIOUS
<1>4. next \in Contents /\ Listed(next) = names /\ Enabled(next) = on
  <2>1. /\ Format(names, on) \in Contents /\ Listed(Format(names, on)) = names
        /\ Enabled(Format(names, on)) = names \cap on
    BY <1>2, FormatFacts
  <2> QED BY <1>2, <1>3, <2>1
<1>5. Chosen(new, yes) \in Asks(Switch) BY AsksFacts DEF Chosen
<1>6. /\ OthersStay(e) /\ editor'[e].pc = "write" /\ editor'[e].next = next
      /\ editor'[e].keep = names /\ editor'[e].ask = Chosen(new, yes)
  BY <1>2, <1>3, <1>4, <1>5, HoldFacts DEF OthersStay
<1> QED BY <1>4, <1>6 DEF Rewrites

LEMMA SynchronizeFacts ==
  ASSUME ListTypeOK, NEW e \in Editors, Synchronize(e)
  PROVE  /\ OthersStay(e) /\ editor'[e].pc = "write"
         /\ \E kept, new, yes : Rewrites(e, kept, new, yes)
<1> DEFINE kept == Remaining(text)
           new == New(text, bin)
<1>1. kept \in SUBSET Listed(text) BY DEF Remaining
<1>2. new \in SUBSET Names /\ kept \cap new = {} BY DEF New, ListTypeOK
<1>3. PICK yes \in Answers(new) :
        Hold(e, Format(kept \cup new, (Enabled(text) \cap kept) \cup yes), kept \cup new,
             Chosen(new, yes))
  BY DEF Synchronize, Chosen
<1>4. yes \in SUBSET new BY DEF Answers, ListTypeOK
<1> HIDE DEF kept, new
<1> QED BY <1>1, <1>2, <1>3, <1>4, RewriteFacts

LEMMA AddFacts ==
  ASSUME ListTypeOK, NEW e \in Editors, NEW n \in Names, Add(e, n)
  PROVE  /\ OthersStay(e) /\ editor'[e].pc = "write"
         /\ \E kept, new, yes : Rewrites(e, kept, new, yes)
<1> DEFINE kept == Listed(text)
           new == {n} \ Listed(text)
<1>1. kept \in SUBSET Listed(text) /\ new \in SUBSET Names /\ kept \cap new = {} OBVIOUS
<1>2. PICK yes \in Answers(new) :
        Hold(e, Format(kept \cup new, Enabled(text) \cup yes), kept \cup new,
             Chosen(new, yes))
  BY DEF Add, Chosen
<1>3. yes \in SUBSET new BY DEF Answers, ListTypeOK
<1>4. Enabled(text) \cup yes = (Enabled(text) \cap kept) \cup yes
  BY TextFacts DEF ListTypeOK
<1> HIDE DEF kept, new
<1> QED BY <1>1, <1>2, <1>3, <1>4, RewriteFacts

LEMMA ExplicitFacts ==
  ASSUME ListTypeOK, NEW e \in Editors, NEW n, NEW v \in Switch, Explicit(e, n, v)
  PROVE  /\ OthersStay(e) /\ editor'[e].pc = "write" /\ n \in Names /\ text \in Contents
         /\ editor'[e].keep = Names /\ editor'[e].ask = [m \in {n} |-> v]
         /\ editor'[e].next \in Contents
         /\ Listed(editor'[e].next) = Listed(text) \cup {n}
         /\ Value(editor'[e].next, n) = v
         /\ Enabled(editor'[e].next) \ {n} = Enabled(text) \ {n}
<1>1. n \in Names /\ text \in Contents BY DEF Explicit, ListTypeOK
<1>2. PICK next : next = SetListed(text, n, v) OBVIOUS
<1>3. Sets(text, next, n, v)
  <2>1. v \in Values BY DEF Switch, Values
  <2> QED BY <1>1, <1>2, <2>1, SetListedSets
<1>4. [m \in {n} |-> v] \in Asks(Switch)
  <2>1. [m \in {n} |-> v] \in [{n} -> Switch] OBVIOUS
  <2> QED BY <1>1, <2>1 DEF Asks
<1>5. /\ OthersStay(e) /\ editor'[e].pc = "write" /\ editor'[e].next = next
      /\ editor'[e].keep = Names /\ editor'[e].ask = [m \in {n} |-> v]
  BY <1>2, <1>3, <1>4, HoldFacts DEF OthersStay, Sets, Explicit
<1>6. /\ next \in Contents /\ Listed(next) = Listed(text) \cup {n} /\ Value(next, n) = v
      /\ Enabled(next) \ {n} = Enabled(text) \ {n}
  <2>1. next \in Contents BY <1>3 DEF Sets
  <2> QED BY <1>1, <1>3, <2>1, SettingFacts
<1> QED BY <1>1, <1>5, <1>6

(* The name of a menu.                                                     *)
ToggledName(e) == CHOOSE m \in editor[e].keep : TRUE
LEMMA ToggleFacts ==
  ASSUME NEW e \in Editors, Toggle(e)
  PROVE  \E n : \E v \in Switch : Explicit(e, n, v)
BY DEF Toggle, Switch

-----------------------------------------------------------------------------
(* What stays of a choice.                                                 *)
Told(t, w) ==
  \A n \in Names : w[n] # Unasked =>
    n \in Listed(t) /\ (n \in Enabled(t)) = (w[n] = "on")
(* What will have been asked for when the write is done.                   *)
AskedThen(e) == [n \in Names |-> IF n \in DOMAIN editor[e].ask THEN editor[e].ask[n]
                             ELSE IF n \in editor[e].keep THEN wanted[n] ELSE Unasked]
Apart == ~overlapped /\ ~cutOff
AloneInWrite ==
  ~overlapped => \A d, e \in Editors : Doing(d, "write") /\ Doing(e, "write") => d = e
ChoicesInv ==
  /\ ListTypeOK /\ AloneInWrite
  /\ Apart => Told(text, wanted)
  /\ \A e \in Editors : Apart /\ Doing(e, "write") => Told(editor[e].next, AskedThen(e))

LEMMA RewriteTold ==
  ASSUME ListTypeOK, Told(text, wanted), NEW e \in Editors, UNCHANGED wanted,
         NEW kept, NEW new, NEW yes, Rewrites(e, kept, new, yes)
  PROVE  Told(editor'[e].next, AskedThen(e)')
<1>1. DOMAIN editor'[e].ask = new /\ \A n \in new : editor'[e].ask[n] = IF n \in yes THEN "on" ELSE "off"
  BY DEF Rewrites, Chosen
<1>2. ASSUME NEW n \in Names, AskedThen(e)'[n] # Unasked
      PROVE  /\ n \in Listed(editor'[e].next)
             /\ (n \in Enabled(editor'[e].next)) = (AskedThen(e)'[n] = "on")
  <2>1. CASE n \in new
    BY <1>1, <2>1 DEF AskedThen, Rewrites
  <2>2. CASE n \notin new
    <3>1. n \in kept /\ AskedThen(e)'[n] = wanted[n] BY <1>1, <1>2, <2>2 DEF AskedThen, Rewrites
    <3> QED BY <1>2, <2>2, <3>1 DEF Told, Rewrites
  <2> QED BY <2>1, <2>2
<1> QED BY <1>2 DEF Told

LEMMA ExplicitTold ==
  ASSUME ListTypeOK, Told(text, wanted), NEW e \in Editors, UNCHANGED wanted,
         NEW n, NEW v \in Switch, Explicit(e, n, v)
  PROVE  Told(editor'[e].next, AskedThen(e)')
<1>1. /\ n \in Names /\ editor'[e].keep = Names /\ editor'[e].ask = [m \in {n} |-> v]
      /\ Listed(editor'[e].next) = Listed(text) \cup {n}
      /\ Value(editor'[e].next, n) = v
      /\ Enabled(editor'[e].next) \ {n} = Enabled(text) \ {n}
  BY ExplicitFacts
<1>2. \A m \in Names : AskedThen(e)'[m] = IF m = n THEN v ELSE wanted[m]
  BY <1>1 DEF AskedThen
<1>3. n \in Enabled(editor'[e].next) <=> v = "on"
  BY <1>1 DEF Enabled, Switch
<1>4. ASSUME NEW m \in Names, AskedThen(e)'[m] # Unasked
      PROVE  /\ m \in Listed(editor'[e].next)
             /\ (m \in Enabled(editor'[e].next)) = (AskedThen(e)'[m] = "on")
  <2>1. CASE m = n BY <1>1, <1>2, <1>3, <2>1
  <2>2. CASE m # n BY <1>1, <1>2, <1>4, <2>2 DEF Told
  <2> QED BY <2>1, <2>2
<1> QED BY <1>4 DEF Told

(* A step of editor e to a write.                                          *)
LEMMA ToWrite ==
  ASSUME ChoicesInv, NEW e \in Editors, OthersStay(e), editor'[e].pc = "write",
         Rest, runs' \in 0..MaxRuns, overlapped' \in BOOLEAN,
         ~overlapped' => ~overlapped /\ \A d \in Editors : ~Doing(d, "write"),
         Told(text, wanted) => Told(editor'[e].next, AskedThen(e)')
  PROVE  ChoicesInv'
<1>1. ListTypeOK' BY DEF ChoicesInv, ListTypeOK, OthersStay, Rest
<1>2. AloneInWrite'
  <2> SUFFICES ASSUME ~overlapped', NEW d \in Editors, NEW f \in Editors,
                      Doing(d, "write")', Doing(f, "write")'
               PROVE  d = f
    BY DEF AloneInWrite
  <2> QED BY DEF Doing, OthersStay
<1>3. Apart' => Apart BY DEF Apart, Rest
<1>4. Apart' => Told(text', wanted') BY <1>3 DEF ChoicesInv, Rest, Told
<1>5. ASSUME Apart', NEW d \in Editors, Doing(d, "write")'
      PROVE  Told(editor'[d].next, AskedThen(d)')
  <2>1. d = e BY <1>5 DEF Apart, Doing, OthersStay
  <2> QED BY <1>3, <1>5, <2>1 DEF ChoicesInv
<1> QED BY <1>1, <1>2, <1>4, <1>5 DEF ChoicesInv

(* A step of editor e from a write, to a menu or away from it.             *)
LEMMA ToRest ==
  ASSUME ChoicesInv, NEW e \in Editors, OthersStay(e), editor'[e].pc # "write",
         UNCHANGED <<ini, bin, policy, overlapped>>, runs' \in 0..MaxRuns,
         text' \in Contents \cup {Absent}, wanted' \in [Names -> Switch \cup {Unasked}],
         cutOff' \in BOOLEAN, cutOff => cutOff', Apart' => Told(text', wanted'),
         UNCHANGED wanted \/ Doing(e, "write")
  PROVE  ChoicesInv'
<1>1. ListTypeOK' BY DEF ChoicesInv, ListTypeOK, OthersStay
<1>2. AloneInWrite' BY DEF AloneInWrite, Doing, OthersStay, ChoicesInv
<1>3. ASSUME Apart', NEW d \in Editors, Doing(d, "write")'
      PROVE  Told(editor'[d].next, AskedThen(d)')
  <2>1. d # e /\ editor'[d] = editor[d] /\ Doing(d, "write") BY <1>3 DEF Doing, OthersStay
  <2>2. Apart BY <1>3 DEF Apart
  <2>3. UNCHANGED wanted BY <2>1, <2>2 DEF Apart, ChoicesInv, AloneInWrite
  <2>4. AskedThen(d)' = AskedThen(d) BY <2>1, <2>3 DEF AskedThen
  <2> QED BY <2>1, <2>2, <2>4 DEF ChoicesInv
<1> QED BY <1>1, <1>2, <1>3 DEF ChoicesInv

LEMMA RestFacts ==
  ASSUME ListTypeOK, NEW e \in Editors, NEW s \in EditorState,
         editor' = [editor EXCEPT ![e] = s]
  PROVE  OthersStay(e) /\ editor'[e] = s
BY DEF OthersStay, ListTypeOK

LEMMA WriteListKeeps == ASSUME ChoicesInv, NEW e \in Editors, WriteList(e) PROVE ChoicesInv'
<1>1. OthersStay(e) /\ editor'[e] = Resting /\ editor'[e].pc = "idle"
  BY RestFacts, RestingFacts DEF ChoicesInv, WriteList
<1>2. /\ editor[e] \in EditorState /\ editor[e].pc = "write" /\ Doing(e, "write")
      /\ runs' = runs /\ runs \in 0..MaxRuns /\ cutOff \in BOOLEAN
      /\ wanted \in [Names -> Switch \cup {Unasked}]
  BY DEF WriteList, Doing, ChoicesInv, ListTypeOK
<1>3. editor[e].next \in Contents /\ editor[e].ask \in Asks(Switch)
  BY <1>2 DEF EditorState
<1>4. CASE text' = editor[e].next /\ UNCHANGED cutOff /\ wanted' = AskedThen(e)
  <2>1. AskedThen(e) \in [Names -> Switch \cup {Unasked}]
    <3>1. PICK S \in SUBSET Names : editor[e].ask \in [S -> Switch] BY <1>3 DEF Asks
    <3> QED BY <1>2, <3>1 DEF AskedThen
  <2>2. Apart' => Told(text', wanted')
    BY <1>2, <1>4 DEF ChoicesInv, Apart, WriteList
  <2> QED BY <1>1, <1>2, <1>3, <1>4, <2>1, <2>2, ToRest DEF WriteList
<1>5. CASE cutOff' = TRUE /\ text' = <<>> /\ UNCHANGED wanted
  BY <1>1, <1>2, <1>5, TextFacts, ToRest DEF WriteList, Apart
<1> QED BY <1>4, <1>5 DEF WriteList, AskedThen

LEMMA ShowKeeps ==
  ASSUME ChoicesInv, NEW e \in Editors, NEW n \in Names, Show(e, n) PROVE ChoicesInv'
<1>1. PICK a \in Shows : a = Shown(n) BY DEF Show, Shown, Shows
<1>2. PICK s : s = [Resting EXCEPT !.pc = "shown", !.keep = {n}, !.ask = [m \in {n} |-> a]]
  OBVIOUS
<1>3. s \in EditorState /\ s.pc = "shown" BY <1>2, RestingFacts
<1>4. editor' = [editor EXCEPT ![e] = s] BY <1>1, <1>2 DEF Show
<1>5. OthersStay(e) /\ editor'[e].pc = "shown" BY <1>3, <1>4, RestFacts DEF ChoicesInv
<1>6. runs' \in 0..MaxRuns BY ListAssumption DEF Show, ChoicesInv, ListTypeOK
<1>7. Apart' => Told(text', wanted') BY DEF Show, Rest, ChoicesInv, Apart, Told
<1> QED BY <1>5, <1>6, <1>7, ToRest DEF Show, Rest, ChoicesInv, ListTypeOK

LEMMA LeaveMenuKeeps == ASSUME ChoicesInv, NEW e \in Editors, LeaveMenu(e) PROVE ChoicesInv'
<1>1. OthersStay(e) /\ editor'[e].pc = "idle"
  BY RestFacts, RestingFacts DEF ChoicesInv, LeaveMenu
<1>2. Apart' => Told(text', wanted') BY DEF LeaveMenu, Rest, ChoicesInv, Apart, Told
<1> QED BY <1>1, <1>2, ToRest DEF LeaveMenu, Rest, ChoicesInv, ListTypeOK

LEMMA BeginFacts ==
  ASSUME ChoicesInv, NEW e \in Editors, StartEditor(e)
  PROVE  /\ runs' \in 0..MaxRuns /\ overlapped' \in BOOLEAN
         /\ ~overlapped' => ~overlapped /\ \A d \in Editors : ~Doing(d, "write")
<1>1. runs' \in 0..MaxRuns /\ overlapped' \in BOOLEAN
  BY ListAssumption DEF StartEditor, ChoicesInv, ListTypeOK
<1>2. \A d \in Editors : Doing(d, "idle") => ~Doing(d, "write") BY DEF Doing
<1> QED BY <1>1, <1>2 DEF StartEditor

LEMMA ExplicitKeeps ==
  ASSUME ChoicesInv, NEW e \in Editors, NEW n, NEW v \in Switch, Explicit(e, n, v),
         runs' \in 0..MaxRuns, overlapped' \in BOOLEAN,
         ~overlapped' => ~overlapped /\ \A d \in Editors : ~Doing(d, "write")
  PROVE  ChoicesInv'
<1>1. ListTypeOK BY DEF ChoicesInv
<1>2. OthersStay(e) /\ editor'[e].pc = "write" BY <1>1, ExplicitFacts
<1>3. Rest /\ UNCHANGED wanted BY DEF Explicit, Rest
<1>4. Told(text, wanted) => Told(editor'[e].next, AskedThen(e)')
  BY <1>1, <1>3, ExplicitTold
<1> QED BY <1>2, <1>3, <1>4, ToWrite

LEMMA ListStep == ASSUME ChoicesInv, [ListNext]_listVars PROVE ChoicesInv'
<1>1. CASE UNCHANGED listVars
  BY <1>1 DEF listVars, ChoicesInv, ListTypeOK, AloneInWrite, Doing, Apart, Told, AskedThen
<1>2. ASSUME NEW e \in Editors, Synchronize(e) PROVE ChoicesInv'
  BY <1>2, SynchronizeFacts, RewriteTold, BeginFacts, ToWrite DEF Synchronize, ChoicesInv, Rest
<1>3. ASSUME NEW e \in Editors, NEW n \in Names, Add(e, n) PROVE ChoicesInv'
  BY <1>3, AddFacts, RewriteTold, BeginFacts, ToWrite DEF Add, ChoicesInv, Rest
<1>4. ASSUME NEW e \in Editors, NEW n \in Names, NEW v \in Switch, SetState(e, n, v)
      PROVE  ChoicesInv'
  BY <1>4, BeginFacts, ExplicitKeeps DEF SetState
<1>5. ASSUME NEW e \in Editors, Toggle(e) PROVE ChoicesInv'
  <2>1. PICK n : \E v \in Switch : Explicit(e, n, v) BY <1>5, ToggleFacts
  <2>2. PICK v \in Switch : Explicit(e, n, v) BY <2>1
  <2>3. /\ runs' \in 0..MaxRuns /\ overlapped' \in BOOLEAN
        /\ ~overlapped' => ~overlapped /\ \A d \in Editors : ~Doing(d, "write")
    BY <1>5 DEF Toggle, ChoicesInv, ListTypeOK
  <2> QED BY <2>2, <2>3, ExplicitKeeps
<1>6. CASE ListNext
  BY <1>2, <1>3, <1>4, <1>5, <1>6, WriteListKeeps, ShowKeeps, LeaveMenuKeeps
     DEF ListNext, Switch
<1> QED BY <1>1, <1>6

LEMMA ListStart == ASSUME ListInit PROVE ChoicesInv
<1>1. text \in Contents \cup {Absent} BY TextFacts DEF ListInit
<1>2. \A e \in Editors : editor[e] = Resting /\ ~Doing(e, "write")
  BY RestingFacts DEF ListInit, Doing
<1>3. wanted \in [Names -> Switch \cup {Unasked}] BY DEF ListInit, Effective, Switch
<1>4. editor \in [Editors -> EditorState] BY RestingFacts DEF ListInit
<1>5. ListTypeOK
  <2>1. /\ ini \subseteq Names /\ bin \subseteq Names
        /\ policy \in [new : {"prompt", "on", "off"}, remove : {"on", "off"}]
    BY DEF ListInit
  <2>2. overlapped = FALSE /\ cutOff = FALSE /\ runs = 0 BY DEF ListInit
  <2>3. overlapped \in BOOLEAN /\ cutOff \in BOOLEAN BY <2>2
  <2>4. runs \in 0..MaxRuns BY <2>2, ListAssumption
  <2> QED BY <1>1, <1>3, <1>4, <2>1, <2>3, <2>4 DEF ListTypeOK
<1>6. Told(text, wanted) BY DEF ListInit, Effective, Told, Unasked
<1> QED BY <1>2, <1>5, <1>6 DEF ChoicesInv, AloneInWrite

LEMMA ListInvariant == ListSpec => []ChoicesInv
<1>1. ListInit => ChoicesInv BY ListStart
<1>2. ChoicesInv /\ [ListNext]_listVars => ChoicesInv' BY ListStep
<1> QED BY <1>1, <1>2, PTL DEF ListSpec

(* components.list has only lines that its writers and its users write,    *)
(* and an editor at a write has the whole text in hand (write_list).       *)
THEOREM ListTyped == ListSpec => []ListTypeOK
<1>1. ChoicesInv => ListTypeOK BY DEF ChoicesInv
<1> QED BY <1>1, ListInvariant, PTL

(* In every text that can come about, --on and --off (set_listed_state)    *)
(* change what is read of the one name, and of no other (parse).           *)
THEOREM SetIsAlwaysLocal == ListSpec => []SetIsLocal
<1>1. ListTypeOK => SetIsLocal
  <2> SUFFICES ASSUME ListTypeOK, text # Absent, NEW n \in Names, NEW v \in {"on", "off"}
               PROVE  LET set == SetListed(text, n, v) IN
                      /\ Listed(set) = Listed(text) \cup {n} /\ Value(set, n) = v
                      /\ Enabled(set) \ {n} = Enabled(text) \ {n}
    BY DEF SetIsLocal
  <2>1. text \in Contents /\ v \in Values BY DEF ListTypeOK, Values
  <2> QED BY <2>1, SetListedSets, SettingFacts
<1> QED BY <1>1, ListTyped, PTL

(* What the user turned on or off (--on, --off, a menu, an answer about a  *)
(* new name) is what Main starts, through any number of synchronisations   *)
(* and changes of other names, until the name is removed: unless two       *)
(* editors overlap or a write is cut off.                                  *)
THEOREM ChoiceAlwaysStays == ListSpec => []ChoiceStays
<1>1. ChoicesInv => ChoiceStays
  <2> SUFFICES ASSUME ChoicesInv, Apart, NEW n \in Names, wanted[n] # Unasked
               PROVE  n \in Listed(text) /\ (n \in Started(text)) = (wanted[n] = "on")
    BY DEF ChoiceStays, Apart
  <2>1. n \in Listed(text) /\ (n \in Enabled(text)) = (wanted[n] = "on")
    BY DEF ChoicesInv, Told
  <2>2. text # Absent BY <2>1 DEF Listed
  <2> QED BY <2>1, <2>2 DEF Started
<1> QED BY <1>1, ListInvariant, PTL
=============================================================================
