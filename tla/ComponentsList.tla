--------------------------- MODULE ComponentsList ---------------------------
(***************************************************************************)
(* components.list and the programs that change it: components_editor.exe  *)
(* (a full synchronisation, --seed, --component <name> with --on, --off or *)
(* neither) and the Enable/Disable entry of a <name>_settings.exe menu,    *)
(* which runs the editor.  Main reads the list once, when it starts.       *)
(*                                                                         *)
(* The list is a sequence of lines.  Nothing locks it: an editor reads it, *)
(* may ask the user about new names, and writes it as a whole.             *)
(***************************************************************************)
EXTENDS Integers, SequencesExt, FiniteSetsExt

CONSTANTS Names,      \* names of components
          Editors,    \* editor processes
          MaxRuns,    \* bound: runs of an editor
          MaxCuts     \* bound: writes cut off

ASSUME NamesAssumption == IsFiniteSet(Names)  \* those of the executables of a directory
ASSUME ListAssumption == MaxRuns \in Nat /\ MaxCuts \in Nat

VARIABLES text,       \* the lines of components.list, or Absent
          ini,        \* names with config/components/<name>.ini
          bin,        \* names with <name>_ac.exe
          policy,     \* components_policy.ini
          editor,     \* what each editor is doing
          wanted,     \* what the user last asked for, or Unasked
          overlapped, \* two editors were at work at once
          cutOff,     \* a write stopped after the truncation
          runs

listVars == <<text, ini, bin, policy, editor, wanted, overlapped, cutOff, runs>>

(* A line is its kind, its name and its value; "blank" is no text.          *)
Absent == << [kind |-> "absent", name |-> "blank", value |-> "blank"] >>
Unasked == "none"
Values == {"blank", "on", "off", "bad"}

Section(s) == [kind |-> "section", name |-> s, value |-> "blank"]
Entry(n, v) == [kind |-> "entry", name |-> n, value |-> v]
Comment == [kind |-> "comment", name |-> "blank", value |-> "blank"]

-----------------------------------------------------------------------------
(* Reading the list.                                                       *)

IsSection(line) == line.kind = "section"

(* The section a line of t stands in: that of the last header before it.   *)
SectionOf(t, k) ==
  LET headers == {j \in 1..k : IsSection(t[j])}
  IN IF headers = {} THEN "blank" ELSE t[Max(headers)].name

(* The lines of [components] that name n, and the names they list.         *)
LinesOf(t, n) ==
  {k \in DOMAIN t : t[k].kind = "entry" /\ t[k].name = n
                      /\ SectionOf(t, k) = "components"}
Listed(t) == IF t = Absent THEN {} ELSE {n \in Names : LinesOf(t, n) # {}}

(* parse: a later line of the same name replaces the value of an earlier.  *)
Value(t, n) == t[Max(LinesOf(t, n))].value
Enabled(t) == {n \in Listed(t) : Value(t, n) \in {"blank", "on"}}

(* load_runtime_catalog: without a list Main takes every executable.       *)
Started(t) == IF t = Absent THEN bin ELSE Enabled(t)

(* listed_enablement, as a menu shows it.                                  *)
Shown(n) == IF text = Absent THEN "unavailable"
            ELSE IF n \in Enabled(text) THEN "enabled" ELSE "disabled"

-----------------------------------------------------------------------------
(* Writing it.                                                             *)

(* format_list: every listed name once, without a value or off.            *)
Format(listed, on) ==
  << Comment, Section("components") >> \o
    [k \in 1..Cardinality(listed) |->
       LET n == SetToSeq(listed)[k] IN Entry(n, IF n \in on THEN "blank" ELSE "off")]

(* Mutant of SetListed: a new name goes to the end of the file.            *)
SetListedAtEnd(t, n, v) ==
  LET at == LinesOf(t, n)
      replaced == [k \in DOMAIN t |-> IF k \in at THEN Entry(n, v) ELSE t[k]]
  IN IF at # {} THEN replaced
     ELSE IF \E k \in DOMAIN t : t[k] = Section("components")
          THEN Append(t, Entry(n, v))
          ELSE t \o << Section("components"), Entry(n, v) >>

(* set_listed_state: every line of the name is replaced; the name is added *)
(* at the end of the first [components] block when that block lacks it,    *)
(* and a text without the section gets one.  Other lines stay.             *)
SetListed(t, n, v) ==
  LET replaced == [k \in DOMAIN t |->
                     IF k \in LinesOf(t, n) THEN Entry(n, v) ELSE t[k]]
      headers == {k \in DOMAIN t : t[k] = Section("components")}
      first == Min(headers)
      next == {k \in DOMAIN t : k > first /\ IsSection(t[k])}
      end == IF next = {} THEN Len(t) ELSE Min(next) - 1
  IN IF headers = {}
     THEN t \o << Section("components"), Entry(n, v) >>
     ELSE IF LinesOf(t, n) \cap first..end # {}
          THEN replaced
          ELSE InsertAt(replaced, end + 1, Entry(n, v))

(* remove_missing drops names without an executable, when the policy asks. *)
Remaining(t) ==
  IF policy.remove = "on" THEN Listed(t) \cap bin ELSE Listed(t)

(* apply_new_names: the names to add, those discovered that have an INI    *)
(* file; under the policy prompt the user decides each.                    *)
New(t, names) == {n \in names \ Remaining(t) : n \in ini}
Answers(new) ==
  CASE policy.new = "on"     -> {new}
    [] policy.new = "off"    -> {{}}
    [] policy.new = "prompt" -> SUBSET new

-----------------------------------------------------------------------------
Resting ==
  [pc |-> "idle", next |-> <<>>, keep |-> {}, ask |-> [n \in {} |-> Unasked]]

(* Texts a user may have written: any short sequence of lines.             *)
Lines == {Section("components"), Section("other")}
           \cup {Entry(n, v) : n \in Names, v \in {"blank", "off", "bad"}}
StartTexts == {<<>>} \cup {<<a>> : a \in Lines} \cup {<<a, b>> : a, b \in Lines}
                \cup {<<Section("components"), a, b, c>> : a, b, c \in Lines}

Effective(t) == [n \in Names |-> IF n \notin Listed(t) THEN Unasked
                                 ELSE IF n \in Enabled(t) THEN "on" ELSE "off"]

ListInit ==
  /\ text \in StartTexts \cup {Absent}
  /\ ini = Names
  /\ bin \in {Names, Names \ {CHOOSE n \in Names : TRUE}}
  /\ policy \in [new : {"prompt", "on", "off"}, remove : {"on", "off"}]
  /\ editor = [e \in Editors |-> Resting]
  /\ wanted = Effective(text)
  /\ overlapped = FALSE /\ cutOff = FALSE /\ runs = 0

Doing(e, pc) == editor[e].pc = pc
StartEditor(e) ==
  /\ Doing(e, "idle")
  /\ runs < MaxRuns /\ runs' = runs + 1
  /\ overlapped' = (overlapped \/ \E d \in Editors : ~Doing(d, "idle"))
Hold(e, next, keep, ask) ==
  editor' = [editor EXCEPT
               ![e] = [pc |-> "write", next |-> next, keep |-> keep, ask |-> ask]]
Rest == UNCHANGED <<text, ini, bin, policy, wanted, cutOff>>

(* Mutant of Synchronize: a name whose value is not "off" is written on.   *)
SynchronizeLoosely(e) ==
  /\ StartEditor(e)
  /\ \E yes \in Answers(New(text, bin)) :
       LET listed == Remaining(text) \cup New(text, bin)
           on == {n \in Remaining(text) : Value(text, n) # "off"} \cup yes
       IN Hold(e, Format(listed, on), listed,
               [n \in New(text, bin) |-> IF n \in yes THEN "on" ELSE "off"])
  /\ Rest

(* full_synchronize: the list is read, new names are added, the whole list *)
(* is written anew.  --seed does so only without a list.  The end of the   *)
(* input at a question leaves the list alone.                              *)
Synchronize(e) ==
  /\ StartEditor(e)
  /\ \E yes \in Answers(New(text, bin)) :
       LET listed == Remaining(text) \cup New(text, bin)
           on == (Enabled(text) \cap Remaining(text)) \cup yes
       IN Hold(e, Format(listed, on), listed,
               [n \in New(text, bin) |-> IF n \in yes THEN "on" ELSE "off"])
  /\ Rest

(* single_component_update: one name is added, nothing is removed.         *)
Add(e, n) ==
  LET new == {n} \ Listed(text) IN
  /\ n \in ini
  /\ StartEditor(e)
  /\ \E yes \in Answers(new) :
       Hold(e, Format(Listed(text) \cup new, Enabled(text) \cup yes),
            Listed(text) \cup new,
            [m \in new |-> IF m \in yes THEN "on" ELSE "off"])
  /\ Rest

(* set_explicit_state needs the INI file and the list.                     *)
Explicit(e, n, v) ==
  /\ n \in ini /\ text # Absent
  /\ Hold(e, SetListed(text, n, v), Names, [m \in {n} |-> v])
  /\ Rest
SetState(e, n, v) == StartEditor(e) /\ Explicit(e, n, v)

(* A settings menu shows Enable or Disable and waits.                      *)
Show(e, n) ==
  /\ Doing(e, "idle") /\ Shown(n) # "unavailable"
  /\ runs < MaxRuns /\ runs' = runs + 1
  /\ editor' = [editor EXCEPT ![e] =
       [Resting EXCEPT !.pc = "shown", !.keep = {n},
                    !.ask = [m \in {n} |-> Shown(n)]]]
  /\ UNCHANGED overlapped /\ Rest

(* The choice stands for what was shown, whatever the list says by now.    *)
Toggle(e) ==
  LET n == CHOOSE m \in editor[e].keep : TRUE IN
  /\ Doing(e, "shown")
  /\ overlapped' = (overlapped \/ \E d \in Editors : Doing(d, "write"))
  /\ Explicit(e, n, IF editor[e].ask[n] = "enabled" THEN "off" ELSE "on")
  /\ UNCHANGED runs

LeaveMenu(e) ==
  /\ Doing(e, "shown")
  /\ editor' = [editor EXCEPT ![e] = Resting]
  /\ UNCHANGED <<overlapped, runs>> /\ Rest

(* write_bytes: the file is truncated and filled; it can end in between.   *)
WriteList(e) ==
  LET w == editor[e] IN
  /\ Doing(e, "write")
  /\ editor' = [editor EXCEPT ![e] = Resting]
  /\ \/ /\ text' = w.next /\ UNCHANGED cutOff
        /\ wanted' = [n \in Names |->
             IF n \in DOMAIN w.ask THEN w.ask[n]
             ELSE IF n \in w.keep THEN wanted[n] ELSE Unasked]
     \/ /\ MaxCuts > 0 /\ ~cutOff /\ cutOff' = TRUE
        /\ text' = <<>> /\ UNCHANGED wanted
  /\ UNCHANGED <<ini, bin, policy, overlapped, runs>>

ListNext ==
  \E e \in Editors :
    \/ Synchronize(e) \/ Toggle(e) \/ LeaveMenu(e) \/ WriteList(e)
    \/ \E n \in Names :
         \/ Add(e, n) \/ Show(e, n)
         \/ \E v \in {"on", "off"} : SetState(e, n, v)

ListSpec == ListInit /\ [][ListNext]_listVars

-----------------------------------------------------------------------------
(* The lists and menus that there can be.                                  *)
Line == {Comment} \cup {Section(s) : s \in {"components", "other"}}
          \cup {Entry(n, v) : n \in Names, v \in Values}
Contents == Seq(Line)
Shows == {"enabled", "disabled"}
Switch == {"on", "off"}
Asks(answers) == UNION {[S -> answers] : S \in SUBSET Names}
EditorState ==
  [pc : {"idle", "shown"}, next : {<<>>}, keep : SUBSET Names, ask : Asks(Shows)]
    \cup [pc : {"write"}, next : Contents, keep : SUBSET Names, ask : Asks(Switch)]

ListTypeOK ==
  /\ text \in Contents \cup {Absent}
  /\ ini \subseteq Names /\ bin \subseteq Names
  /\ policy \in [new : {"prompt", "on", "off"}, remove : {"on", "off"}]
  /\ editor \in [Editors -> EditorState]
  /\ wanted \in [Names -> Switch \cup {Unasked}]
  /\ overlapped \in BOOLEAN /\ cutOff \in BOOLEAN /\ runs \in 0..MaxRuns

(* Turning one component on or off changes that component alone, in any    *)
(* text a user may have left: names listed twice, in two [components]      *)
(* blocks or before another section included.                              *)
SetIsLocal ==
  text # Absent =>
    \A n \in Names : \A v \in {"on", "off"} :
      LET set == SetListed(text, n, v) IN
      /\ Listed(set) = Listed(text) \cup {n}
      /\ Value(set, n) = v
      /\ Enabled(set) \ {n} = Enabled(text) \ {n}

(* What the user turned on or off stays so through synchronisations and    *)
(* changes of other names, until the name is removed, as long as no two    *)
(* editors overlap and no write is cut off.                                *)
ChoiceStays ==
  (~overlapped /\ ~cutOff) =>
    \A n \in Names : wanted[n] # Unasked =>
      n \in Listed(text) /\ (n \in Started(text)) = (wanted[n] = "on")
=============================================================================
