------------------------------ MODULE KeyLoop ------------------------------
(***************************************************************************)
(* auto_core.exe: the keyboard hook, the message loop of the main thread,  *)
(* the function-key lock, and the taskbar cycling that a key can start     *)
(* (keyboard_input.cxx, run_message_loop of main.cxx, close_program_impl   *)
(* of main_component.cxx, main_taskbar.cxx).                               *)
(*                                                                         *)
(* While a native cycle is on, Main holds the Windows key down for the     *)
(* whole system; while an emulated one is on, it focuses windows itself.   *)
(* Keys then go to the cycle and not to their bindings.  Messages are      *)
(* handled one by one, but the hook and other threads post at any time.    *)
(***************************************************************************)
EXTENDS Naturals, Sequences, FiniteSets

CONSTANTS
  Keys,         \* the keys in active_keymap
  NumpadZero,   \* key_codes::numpad_0
  Binding,      \* their actions: [Keys -> [primary, secondary : Actions]]
  Apps,         \* programs with a taskbar map
  Native,       \* those with a native Win+position
  Cycling,      \* those with multi_window = cycle
  Unresolved,   \* those whose executable path is not worked out
  Windows,      \* windows that may be open
  AppOf,        \* [Windows -> Apps]
  NoWindow,     \* no window of these programs
  MaxQueue,     \* bound: messages in the queue
  MaxChanges,   \* bound: windows opened, closed or raised by the user
  MaxFaults     \* bound: handlers in which a call fails

Actions == {"lock", "unlock", "close", "command", "none"} \cup Apps

ASSUME KeysAssumption ==
  Binding \in [Keys -> [primary : Actions, secondary : Actions]]
ASSUME AppsAssumption ==
  /\ Native \subseteq Apps /\ Cycling \subseteq Apps /\ AppOf \in [Windows -> Apps]
  /\ Unresolved \subseteq Apps
  /\ NoWindow \notin Windows /\ IsFiniteSet(Windows)
ASSUME BoundsAssumption ==
  MaxQueue \in Nat /\ MaxChanges \in Nat /\ MaxFaults \in Nat

VARIABLES
  queue,         \* the main thread's message queue
  hooked,        \* the keyboard hook is installed
  primary,       \* bindings use their primary action
  switchSet,     \* a cycle is on
  emulated,      \* ... and Main emulates it
  switchKey,     \* switch_keycode
  cycleApp,      \* the program an emulated cycle is about
  cycleWindows,  \* its windows when the cycle last moved
  cycleIndex,    \* and the one that was focused then
  zorder,        \* open windows, topmost first
  front,         \* the foreground window, or NoWindow
  iconic,        \* minimized windows
  winDown,       \* the system sees the Windows key held
  leaks,         \* history: what kept it down since it was last let go
  loop,          \* "running" or "ended"
  closed,        \* close_program has run
  last,          \* history: the last key handled, and whether it threw
  changes, faults

cycle   == <<switchSet, emulated, cycleApp, cycleWindows, cycleIndex>>
desktop == <<zorder, front, iconic>>
held    == <<winDown, leaks>>
vars == <<queue, hooked, primary, cycle, switchKey, desktop, held, loop, closed,
          last, changes, faults>>

Open(s) == {s[i] : i \in DOMAIN s}

\* The entries of s at the positions in P, in their order.
Place(i, P) == Cardinality({h \in P : h <= i})
Those(s) ==
  [P \in SUBSET DOMAIN s |->
    [j \in 1..Cardinality(P) |-> s[CHOOSE i \in P : Place(i, P) = j]]]
NoKey == [key |-> "none", threw |-> FALSE]

Init ==
  /\ queue = <<>> /\ hooked = TRUE /\ primary = TRUE
  /\ switchSet = FALSE /\ emulated = FALSE /\ switchKey = "none"
  /\ cycleApp = "none" /\ cycleWindows = <<>> /\ cycleIndex = 0
  /\ zorder \in {s \in [1..Cardinality(Windows) -> Windows] : Open(s) = Windows}
  /\ front = NoWindow /\ iconic = {}
  /\ winDown = FALSE /\ leaks = {} /\ loop = "running" /\ closed = FALSE /\ last = NoKey
  /\ changes = 0 /\ faults = 0

-----------------------------------------------------------------------------
(***************************************************************************)
(* What gets into the queue.                                               *)
(***************************************************************************)

Key(k) == [type |-> "key", key |-> k]
Quit == [type |-> "quit"]
CloseRequest == [type |-> "close"]
Post(message) == queue' = Append(queue, message)

\* hook_callback: a key of the keymap is posted and swallowed.
Press(k) ==
  /\ hooked /\ loop = "running" /\ Len(queue) < MaxQueue
  /\ Post(Key(k))
  /\ UNCHANGED <<hooked, primary, cycle, switchKey, desktop, held, loop, closed,
                 last, changes, faults>>

\* console_control_handler on its own thread (before close_program), or the end
\* of the Windows session (at any time).
RequestShutdown ==
  /\ loop = "running" /\ Len(queue) < MaxQueue
  /\ Post(CloseRequest)
  /\ UNCHANGED <<hooked, primary, cycle, switchKey, desktop, held, loop, closed,
                 last, changes, faults>>

-----------------------------------------------------------------------------
(***************************************************************************)
(* The user at the desktop.                                                *)
(***************************************************************************)
Without(w) == Those(zorder)[{i \in DOMAIN zorder : zorder[i] # w}]
Raise(w) == <<w>> \o Without(w)

ChangeDesktop ==
  /\ changes < MaxChanges /\ changes' = changes + 1
  /\ \/ \E w \in Windows :
          /\ zorder' = Raise(w) /\ front' = w /\ iconic' = iconic \ {w}
     \/ \E w \in Open(zorder) :
          /\ zorder' = Without(w) /\ iconic' = iconic \ {w}
          /\ front' = IF front = w THEN NoWindow ELSE front
     \/ front # NoWindow /\ front' = NoWindow /\ UNCHANGED <<zorder, iconic>>
  /\ UNCHANGED <<queue, hooked, primary, cycle, switchKey, held, loop, closed,
                 last, faults>>

\* Windows keeps the front; the window may have been raised, and Main's console
\* may have come forward instead.
Refused(w) ==
  /\ zorder' \in {zorder, Raise(w)} /\ front' \in {front, NoWindow}
  /\ iconic' = iconic \ {w}

\* activate_window.
Focus(w, focuses) ==
  \/ focuses /\ zorder' = Raise(w) /\ front' = w /\ iconic' = iconic \ {w}
  \/ ~focuses /\ front # w /\ Refused(w)

\* EnumWindows: topmost first.
MatchingWindows(app) ==
  Those(zorder)[{i \in DOMAIN zorder : AppOf[zorder[i]] = app}]

-----------------------------------------------------------------------------
(***************************************************************************)
(* MainTaskbarState.                                                       *)
(***************************************************************************)
ClearEmulated == /\ emulated' = FALSE /\ cycleApp' = "none"
                 /\ cycleWindows' = <<>> /\ cycleIndex' = 0

\* release_winkey, or the last event of a shortcut with the Windows key.
Release == winDown' = FALSE /\ leaks' = {}

\* send_key_combination of the Windows key and a digit: one SendInput of four
\* events.  Windows may take the first few only, and then the key stays down.
SendWithWin(sends) ==
  \/ sends /\ Release
  \/ ~sends /\ UNCHANGED held
  \/ ~sends /\ winDown' = TRUE /\ leaks' = leaks \cup {"torn"}

\* Seeded fault: the cycle is over although the key was not let go.
EndCycleSessionForgets(sends) ==
  \/ emulated /\ ClearEmulated /\ switchSet' = FALSE /\ UNCHANGED held
  \/ /\ ~emulated /\ switchSet' = FALSE
     /\ IF sends THEN Release ELSE UNCHANGED held
     /\ UNCHANGED <<emulated, cycleApp, cycleWindows, cycleIndex>>

\* end_cycle_session: only a native cycle holds the key, and only if it is let
\* go is the cycle over.
EndCycleSession(sends) ==
  \/ emulated /\ ClearEmulated /\ switchSet' = FALSE /\ UNCHANGED held
  \/ /\ ~emulated /\ switchSet /\ sends
     /\ switchSet' = FALSE /\ Release
     /\ UNCHANGED <<emulated, cycleApp, cycleWindows, cycleIndex>>
  \/ /\ ~emulated /\ switchSet /\ ~sends
     /\ leaks' = leaks \cup {"refused"} /\ UNCHANGED <<cycle, winDown>>
  \/ ~emulated /\ ~switchSet /\ UNCHANGED <<cycle, held>>

\* advance_emulated_cycle.
Position(w, s) == CHOOSE i \in DOMAIN s : s[i] = w

\* Seeded fault: the index goes on without a look at where the window is now.
NextIndexBlind(windows) == (cycleIndex % Len(windows)) + 1

NextIndex(windows) ==
  LET current == cycleWindows[cycleIndex]
  IN IF current \in Open(windows)
       THEN (Position(current, windows) % Len(windows)) + 1
       ELSE (cycleIndex % Len(windows)) + 1

AdvanceEmulated(focuses) ==
  LET windows == MatchingWindows(cycleApp)
  IN \/ /\ Len(windows) < 2
        /\ ClearEmulated /\ switchSet' = FALSE
        /\ IF Len(windows) = 1 THEN Focus(windows[1], focuses) ELSE UNCHANGED desktop
     \/ /\ Len(windows) >= 2
        /\ cycleWindows' = windows /\ cycleIndex' = NextIndex(windows)
        /\ Focus(windows[NextIndex(windows)], focuses)
        /\ UNCHANGED <<switchSet, emulated, cycleApp>>

\* begin_emulated_cycle: from the window after the foreground one.
BeginEmulated(app, windows, focuses) ==
  LET index == IF front \in Open(windows)
                 THEN (Position(front, windows) % Len(windows)) + 1 ELSE 1
  IN /\ Focus(windows[index], focuses)
     /\ cycleApp' = app /\ cycleWindows' = windows /\ cycleIndex' = index
     /\ emulated' = TRUE /\ switchSet' = TRUE

\* emulate_configured: launch, restore, minimize, switch, or cycle.
Emulate(app, focuses) ==
  LET windows == MatchingWindows(app)
  IN \/ /\ Len(windows) >= 2 /\ app \in Cycling
        /\ BeginEmulated(app, windows, focuses)
     \/ /\ Len(windows) >= 2 /\ app \notin Cycling
        /\ Focus(windows[1], focuses) /\ UNCHANGED cycle
     \/ /\ Len(windows) = 1
        /\ IF front = windows[1] /\ windows[1] \notin iconic
             THEN front' = NoWindow /\ iconic' = iconic \cup {windows[1]}
                  /\ UNCHANGED zorder
             ELSE Focus(windows[1], focuses)
        /\ UNCHANGED cycle
     \/ /\ Len(windows) = 0
        /\ \/ UNCHANGED desktop
           \/ \E w \in Windows : AppOf[w] = app /\ Focus(w, TRUE)
        /\ UNCHANGED cycle

\* begin_native_cycle; what the shell makes of the keys is a ChangeDesktop.
BeginNative ==
  /\ switchSet' = TRUE /\ ClearEmulated
  /\ winDown' = TRUE /\ leaks' = leaks \cup (IF closed THEN {"late"} ELSE {})
  /\ UNCHANGED desktop

ShouldCycle(app) == app \in Cycling /\ Len(MatchingWindows(app)) >= 2

\* try_activate_configured: "sends" is whether SendInput takes all of the keys.
ActivateNative(app, sends) ==
  /\ app \in Native /\ sends
  /\ \/ ShouldCycle(app) /\ BeginNative
     \/ ~ShouldCycle(app) /\ SendWithWin(TRUE) /\ UNCHANGED <<desktop, cycle>>

\* ... and what it leaves behind where it returns false.
NativeFails(app, sends) ==
  \/ app \notin Native /\ UNCHANGED held
  \/ app \in Native /\ ~sends /\ ShouldCycle(app) /\ UNCHANGED held
  \/ app \in Native /\ ~sends /\ ~ShouldCycle(app) /\ SendWithWin(FALSE)

\* activate_configured: natively, or else by emulation.
Activate(app, sends, focuses) ==
  \/ ActivateNative(app, sends)
  \/ /\ NativeFails(app, sends)
     /\ \/ app \in Unresolved /\ UNCHANGED <<desktop, cycle>>
        \/ app \notin Unresolved /\ Emulate(app, focuses)

-----------------------------------------------------------------------------
(***************************************************************************)
(* The message loop.                                                       *)
(***************************************************************************)
Took(k, threw) == last' = [key |-> k, threw |-> threw]
Calls(sends, focuses) ==
  \/ sends /\ focuses /\ UNCHANGED faults
  \/ ~(sends /\ focuses) /\ faults < MaxFaults /\ faults' = faults + 1

\* Seeded fault: no message for the loop.
CloseProgramQuietly(sends, rest) ==
  /\ EndCycleSession(sends)
  /\ hooked' = FALSE /\ closed' = TRUE
  /\ queue' = rest

\* close_program_impl; HostSession models what it does to the children.
CloseProgram(sends, rest) ==
  /\ EndCycleSession(sends)
  /\ hooked' = FALSE /\ closed' = TRUE
  /\ queue' = Append(rest, Quit)

\* process_shutdown_event.
HandleClose(sends) ==
  /\ loop = "running" /\ queue # <<>> /\ Head(queue).type = "close"
  /\ Calls(sends, TRUE)
  /\ CloseProgram(sends, Tail(queue))
  /\ UNCHANGED <<primary, switchKey, desktop, loop, last, changes>>

HandleQuit ==
  /\ loop = "running" /\ queue # <<>> /\ Head(queue).type = "quit"
  /\ queue' = Tail(queue)
  /\ loop' = "ended"
  /\ UNCHANGED <<hooked, primary, cycle, switchKey, desktop, held, closed, last,
                 changes, faults>>

KeyInHand(k) == loop = "running" /\ queue # <<>> /\ Head(queue) = Key(k)
NextMessage == queue' = Tail(queue)

\* switch_windows: the same key moves the cycle, any other ends it.
HandleKeyInCycle(k, sends, focuses) ==
  /\ KeyInHand(k) /\ switchSet /\ Calls(sends, focuses)
  /\ NextMessage
  /\ \/ k = switchKey /\ emulated /\ AdvanceEmulated(focuses) /\ UNCHANGED held
     \/ k = switchKey /\ ~emulated /\ UNCHANGED <<cycle, desktop, held>>
     \/ k # switchKey /\ EndCycleSession(sends) /\ UNCHANGED desktop
  /\ primary' = TRUE /\ Took(k, FALSE)
  /\ UNCHANGED <<hooked, switchKey, loop, closed, changes>>

Chosen(k) == IF primary THEN Binding[k].primary ELSE Binding[k].secondary

\* The binding's effect; the function key changes "primary".
Perform(action, sends, focuses) ==
  \/ action = "close" /\ CloseProgram(sends, Tail(queue)) /\ UNCHANGED desktop
  \/ /\ action \in Apps /\ Activate(action, sends, focuses)
     /\ NextMessage /\ UNCHANGED <<hooked, closed>>
  \/ /\ action \in {"lock", "unlock", "command", "none"}
     /\ NextMessage /\ UNCHANGED <<cycle, desktop, held, hooked, closed>>

\* What "primary" is after the binding.
Locked(action) == IF action = "lock" THEN FALSE
                  ELSE IF action = "unlock" THEN TRUE ELSE primary

\* Seeded fault: the lock is not given back.
HandleKeyStaysLocked(k, sends, focuses) ==
  /\ KeyInHand(k) /\ ~switchSet /\ Calls(sends, focuses)
  /\ Perform(Chosen(k), sends, focuses)
  /\ switchKey' = k /\ primary' = Locked(Chosen(k))
  /\ Took(k, FALSE)
  /\ UNCHANGED <<loop, changes>>

\* process_key_event without a cycle.
HandleKey(k, sends, focuses) ==
  /\ KeyInHand(k) /\ ~switchSet /\ Calls(sends, focuses)
  /\ Perform(Chosen(k), sends, focuses)
  /\ switchKey' = k
  /\ primary' = (Locked(Chosen(k)) \/ k # NumpadZero)
  /\ Took(k, FALSE)
  /\ UNCHANGED <<loop, changes>>

\* A command throws; run_message_loop catches, the rest of the handler is left.
CommandThrows(k) ==
  /\ KeyInHand(k) /\ ~switchSet /\ Chosen(k) = "command"
  /\ Calls(FALSE, TRUE)
  /\ NextMessage /\ Took(k, TRUE)
  /\ UNCHANGED <<hooked, primary, cycle, switchKey, desktop, held, loop, closed,
                 changes>>

Handle ==
  \/ HandleQuit
  \/ \E sends \in BOOLEAN : HandleClose(sends)
  \/ \E k \in Keys : \/ CommandThrows(k)
                     \/ \E sends, focuses \in BOOLEAN :
                          \/ HandleKeyInCycle(k, sends, focuses)
                          \/ HandleKey(k, sends, focuses)

Next == Handle \/ RequestShutdown \/ ChangeDesktop \/ \E k \in Keys : Press(k)

Spec == Init /\ [][Next]_vars

\* The main thread takes its messages.
FairSpec == Spec /\ WF_vars(Handle)

-----------------------------------------------------------------------------
Messages == {Quit, CloseRequest} \cup {Key(k) : k \in Keys}

TypeOK ==
  /\ queue \in Seq(Messages) /\ hooked \in BOOLEAN /\ primary \in BOOLEAN
  /\ switchSet \in BOOLEAN /\ emulated \in BOOLEAN
  /\ switchKey \in Keys \cup {"none"} /\ cycleApp \in Apps \cup {"none"}
  /\ cycleWindows \in Seq(Windows) /\ cycleIndex \in 0..Len(cycleWindows)
  /\ zorder \in Seq(Windows) /\ front \in Windows \cup {NoWindow}
  /\ iconic \subseteq Open(zorder) /\ front \notin iconic
  /\ winDown \in BOOLEAN /\ leaks \subseteq {"torn", "refused", "late"}
  /\ loop \in {"running", "ended"} /\ closed \in BOOLEAN
  /\ last \in [key : Keys \cup {"none"}, threw : BOOLEAN]
  /\ changes \in 0..MaxChanges /\ faults \in 0..MaxFaults

\* Main forgets no Windows key that it holds.  A native cycle that is on does
\* hold it; one held without a cycle is that of a shortcut Windows took in part;
\* and where the loop ends with the key down, then a shortcut was taken in part,
\* Windows refused the release, or the cycle was begun by a key behind the close
\* request.  In these three nobody releases it, although keyboard.ixx:57 asks for it.
WinDownAccounted ==
  /\ switchSet /\ ~emulated => winDown
  /\ winDown => (switchSet /\ ~emulated) \/ "torn" \in leaks
  /\ winDown /\ loop = "ended" => leaks # {}

\* Every step of an emulated cycle goes to a window that is open and is not the
\* one the cycle stood on, whatever was closed, opened or raised in between.
CycleMoves ==
  [][emulated /\ emulated' /\ Len(queue') < Len(queue) /\ Head(queue).type = "key"
       => cycleWindows'[cycleIndex'] # cycleWindows[cycleIndex]]_vars

\* A key other than numpad 0 runs its secondary action only straight after the
\* function key, or after a command that threw.
SecondaryOnce ==
  [][\A k \in Keys : ~primary /\ ~switchSet /\ k # NumpadZero /\ KeyInHand(k)
       => last.key = NumpadZero \/ last.threw]_vars

\* Whatever cycle is on, a request to close the program ends the loop.
CloseEnds == (\E i \in DOMAIN queue : queue[i] = CloseRequest) ~> loop = "ended"

=============================================================================
