--------------------------- MODULE KeyLoopProofs ---------------------------
(***************************************************************************)
(* For every keymap, every set of programs and windows and every bound:    *)
(* the function key arms one key, a step of an emulated cycle moves, and   *)
(* every Windows key that is down has a reason.  The second needs the type *)
(* invariant and that no window is twice in the order of the desktop, and  *)
(* so it begins with what the filter of a sequence keeps.                  *)
(***************************************************************************)
EXTENDS KeyLoop, FiniteSetTheorems, TLAPS

\* Closing windows, raising them, refusals: none of it reaches the lock, the
\* Windows key or what the loop remembers of its last key.
LEMMA DesktopApart ==
  ChangeDesktop =>
    UNCHANGED <<queue, primary, cycle, held, switchKey, last, loop, closed>>
BY DEF ChangeDesktop

-----------------------------------------------------------------------------
\* What SecondaryOnce rests on: the lock is off only behind the function key or
\* a command that threw, also while a cycle is on and after it.
Armed == ~primary => last.key = NumpadZero \/ last.threw

LEMMA ArmedStep == Armed /\ [Next]_vars => Armed'
<1> SUFFICES ASSUME Armed, [Next]_vars PROVE Armed'
  OBVIOUS
<1>1. CASE HandleQuit
  BY <1>1 DEF HandleQuit, Armed
<1>2. ASSUME NEW sends \in BOOLEAN, HandleClose(sends) PROVE Armed'
  BY <1>2 DEF HandleClose, Armed
<1>3. ASSUME NEW k \in Keys, CommandThrows(k) PROVE Armed'
  BY <1>3 DEF CommandThrows, Took, Armed
<1>4. ASSUME NEW k \in Keys, NEW sends \in BOOLEAN, NEW focuses \in BOOLEAN,
             HandleKeyInCycle(k, sends, focuses)
      PROVE  Armed'
  BY <1>4 DEF HandleKeyInCycle, Armed
<1>5. ASSUME NEW k \in Keys, NEW sends \in BOOLEAN, NEW focuses \in BOOLEAN,
             HandleKey(k, sends, focuses)
      PROVE  Armed'
  <2>1. primary' = (Locked(Chosen(k)) \/ k # NumpadZero) /\ last'.key = k
    BY <1>5 DEF HandleKey, Took
  <2>2. QED BY <2>1 DEF Armed
<1>6. CASE RequestShutdown
  BY <1>6 DEF RequestShutdown, Armed
<1>7. CASE ChangeDesktop
  BY <1>7, DesktopApart DEF Armed
<1>8. ASSUME NEW k \in Keys, Press(k) PROVE Armed'
  BY <1>8 DEF Press, Armed
<1>9. CASE UNCHANGED vars
  BY <1>9 DEF vars, Armed
<1>10. QED
  BY <1>1, <1>2, <1>3, <1>4, <1>5, <1>6, <1>7, <1>8, <1>9 DEF Next, Handle

\* process_key_event runs a secondary action, of a key other than numpad 0, only
\* straight behind the function key or a command that threw.
THEOREM SecondaryOnlyArmed == Spec => SecondaryOnce
<1>1. Init => Armed
  BY DEF Init, Armed
<1>2. Spec => []Armed
  BY <1>1, ArmedStep, PTL DEF Spec
<1>3. Armed => (\A k \in Keys : ~primary /\ ~switchSet /\ k # NumpadZero /\ KeyInHand(k)
                  => last.key = NumpadZero \/ last.threw)
  BY DEF Armed
<1>4. Armed /\ [Next]_vars
      => [\A k \in Keys : ~primary /\ ~switchSet /\ k # NumpadZero /\ KeyInHand(k)
            => last.key = NumpadZero \/ last.threw]_vars
  BY <1>3
<1>5. QED BY <1>2, <1>4, PTL DEF Spec, SecondaryOnce
-----------------------------------------------------------------------------
\* The entries of a sequence at some positions.
Distinct(s) == \A i, j \in DOMAIN s : s[i] = s[j] => i = j

\* The places of a finite set of positions, in their order.
LEMMA PlaceFacts ==
  ASSUME NEW P \in SUBSET Nat, IsFiniteSet(P), NEW i \in P, NEW j \in P
  PROVE  /\ Place(i, P) \in 1..Cardinality(P)
         /\ Place(i, P) = Place(j, P) => i = j
<1> DEFINE Upto(k) == {h \in P : h <= k}
<1>1. /\ Cardinality(P) \in Nat
      /\ \A k \in P : /\ IsFiniteSet(Upto(k)) /\ Cardinality(Upto(k)) \in Nat
                      /\ Cardinality(Upto(k)) <= Cardinality(P)
  BY FS_Subset, FS_CardinalityType
<1>2. Cardinality(Upto(i)) # 0
  <2>1. i \in Upto(i)
    OBVIOUS
  <2> QED BY <1>1, <2>1, FS_EmptySet
<1>3. ASSUME NEW a \in P, NEW b \in P, a < b
      PROVE  Cardinality(Upto(a)) # Cardinality(Upto(b))
  <2>0. P \subseteq Nat /\ a \in Nat /\ b \in Nat
    OBVIOUS
  <2>1. Upto(a) \in SUBSET Upto(b) /\ b \in Upto(b) /\ b \notin Upto(a)
    <3>1. \A h \in Nat : h <= a => h <= b
      BY <1>3, <2>0
    <3>2. b <= b /\ ~(b <= a)
      BY <1>3, <2>0
    <3> QED BY <2>0, <3>1, <3>2
  <2>2. IsFiniteSet(Upto(b)) /\ Upto(a) # Upto(b)
    BY <1>1, <2>1
  <2> QED BY <2>1, <2>2, FS_Subset
<1>4. i = j \/ i < j \/ j < i
  OBVIOUS
<1>5. Place(i, P) = Cardinality(Upto(i)) /\ Place(j, P) = Cardinality(Upto(j))
  BY DEF Place
<1>6. Cardinality(Upto(i)) \in 1..Cardinality(P)
  BY <1>1, <1>2
<1> HIDE DEF Upto
<1> QED BY <1>3, <1>4, <1>5, <1>6

\* Every place is taken: as many places as positions.
LEMMA PlacesTaken ==
  ASSUME NEW P \in SUBSET Nat, IsFiniteSet(P), NEW j \in 1..Cardinality(P)
  PROVE  \E i \in P : Place(i, P) = j
<1> DEFINE place == [i \in P |-> Place(i, P)]
           places == 1..Cardinality(P)
<1>1. place \in Injection(P, places)
  BY PlaceFacts DEF Injection, IsInjective
<1>2. Cardinality(P) \in Nat
  BY FS_CardinalityType
<1>3. IsFiniteSet(places) /\ Cardinality(places) = Cardinality(P)
  BY <1>2, FS_Interval
<1>4. place \in Surjection(P, places)
  BY <1>1, <1>3, FS_Injection
<1> QED BY <1>4 DEF Surjection

\* What is kept of a sequence: its entries there, each once if they were.
LEMMA ThoseFacts ==
  ASSUME NEW S, NEW s \in Seq(S), NEW P \in SUBSET DOMAIN s
  PROVE  /\ Those(s)[P] \in Seq(S)
         /\ Open(Those(s)[P]) = {s[i] : i \in P}
         /\ Distinct(s) => Distinct(Those(s)[P])
<1>1. /\ P \in SUBSET Nat /\ IsFiniteSet(P) /\ Cardinality(P) \in Nat
      /\ \A i \in P : s[i] \in S /\ i \in DOMAIN s
  <2>1. DOMAIN s = 1..Len(s) /\ Len(s) \in Nat
    OBVIOUS
  <2>2. IsFiniteSet(1..Len(s))
    BY <2>1, FS_Interval
  <2> QED BY <2>1, <2>2, FS_Subset, FS_CardinalityType
<1> DEFINE at(j) == CHOOSE i \in P : Place(i, P) = j
<1>2. \A j \in 1..Cardinality(P) : at(j) \in P /\ Place(at(j), P) = j
  BY <1>1, PlacesTaken
<1>3. \A i \in P : Place(i, P) \in 1..Cardinality(P) /\ at(Place(i, P)) = i
  <2> SUFFICES ASSUME NEW i \in P
               PROVE  Place(i, P) \in 1..Cardinality(P) /\ at(Place(i, P)) = i
    OBVIOUS
  <2>1. Place(i, P) \in 1..Cardinality(P)
    BY <1>1, PlaceFacts
  <2>2. at(Place(i, P)) \in P /\ Place(at(Place(i, P)), P) = Place(i, P)
    BY <1>2, <2>1
  <2> HIDE DEF at
  <2> QED BY <1>1, <2>1, <2>2, PlaceFacts
<1>4. Those(s)[P] = [j \in 1..Cardinality(P) |-> s[at(j)]]
  BY DEF Those
<1> HIDE DEF at
<1>5. /\ DOMAIN Those(s)[P] = 1..Cardinality(P)
      /\ \A j \in 1..Cardinality(P) : Those(s)[P][j] = s[at(j)]
  BY <1>4
<1>6. Those(s)[P] \in Seq(S)
  BY <1>1, <1>2, <1>4
<1>7. Open(Those(s)[P]) = {s[i] : i \in P}
  BY <1>2, <1>3, <1>5 DEF Open
<1>8. ASSUME Distinct(s) PROVE Distinct(Those(s)[P])
  <2> SUFFICES ASSUME NEW i \in 1..Cardinality(P), NEW j \in 1..Cardinality(P),
                      s[at(i)] = s[at(j)]
               PROVE  i = j
    BY <1>5 DEF Distinct
  <2>1. at(i) = at(j)
    BY <1>1, <1>2, <1>8 DEF Distinct
  <2> QED BY <1>2, <2>1
<1> QED BY <1>6, <1>7, <1>8

-----------------------------------------------------------------------------
\* The desktop: the windows in their order, no window twice.
Desktop(z, f, m) ==
  /\ z \in Seq(Windows) /\ Distinct(z)
  /\ f \in Windows \cup {NoWindow} /\ m \subseteq Open(z) /\ f \notin m
DesktopOK == Desktop(zorder, front, iconic)

LEMMA WithoutFacts ==
  ASSUME DesktopOK, NEW w
  PROVE  /\ Without(w) \in Seq(Windows) /\ Distinct(Without(w))
         /\ Open(Without(w)) = Open(zorder) \ {w}
<1> DEFINE P == {i \in DOMAIN zorder : zorder[i] # w}
<1>1. Open(zorder) \ {w} = {zorder[i] : i \in P}
  BY DEF Open
<1>2. zorder \in Seq(Windows) /\ Distinct(zorder) /\ P \in SUBSET DOMAIN zorder
  BY DEF DesktopOK, Desktop
<1>3. Without(w) = Those(zorder)[P]
  BY DEF Without
<1> HIDE DEF P
<1> QED BY <1>1, <1>2, <1>3, ThoseFacts

LEMMA RaiseFacts ==
  ASSUME DesktopOK, NEW w \in Windows
  PROVE  /\ Raise(w) \in Seq(Windows) /\ Distinct(Raise(w))
         /\ Open(Raise(w)) = Open(zorder) \cup {w}
<1> DEFINE rest == Without(w)
<1>1. /\ rest \in Seq(Windows) /\ Distinct(rest)
      /\ Open(rest) = Open(zorder) \ {w}
  BY WithoutFacts
<1>2. Raise(w) = <<w>> \o rest
  BY DEF Raise
<1> HIDE DEF rest
<1>3. /\ Raise(w) \in Seq(Windows) /\ Len(rest) \in Nat
      /\ DOMAIN rest = 1..Len(rest)
      /\ DOMAIN Raise(w) = 1..(Len(rest) + 1)
      /\ Raise(w)[1] = w
      /\ \A i \in 1..Len(rest) : Raise(w)[i + 1] = rest[i]
  BY <1>1, <1>2
<1>4. \A i \in DOMAIN Raise(w) \ {1} :
        i - 1 \in DOMAIN rest /\ Raise(w)[i] = rest[i - 1]
  <2> TAKE i \in DOMAIN Raise(w) \ {1}
  <2>1. i - 1 \in 1..Len(rest) /\ (i - 1) + 1 = i
    BY <1>3
  <2> QED BY <1>3, <2>1
<1>5. \A i \in DOMAIN rest : rest[i] # w
  BY <1>1 DEF Open
<1>6. Distinct(Raise(w))
  <2> SUFFICES ASSUME NEW i \in DOMAIN Raise(w), NEW j \in DOMAIN Raise(w),
                      Raise(w)[i] = Raise(w)[j]
               PROVE  i = j
    BY DEF Distinct
  <2>1. CASE i = 1 \/ j = 1
    BY <1>3, <1>4, <1>5, <2>1
  <2>2. CASE i # 1 /\ j # 1
    <3>1. i - 1 = j - 1
      BY <1>1, <1>4, <2>2 DEF Distinct
    <3> QED BY <1>3, <3>1
  <2> QED BY <2>1, <2>2
<1>7. Open(Raise(w)) = Open(zorder) \cup {w}
  <2>1. Open(Raise(w)) = {w} \cup Open(rest)
    <3>1. ASSUME NEW x \in Open(Raise(w)) PROVE x \in {w} \cup Open(rest)
      BY <1>3, <1>4, <3>1 DEF Open
    <3>2. ASSUME NEW x \in Open(rest) PROVE x \in Open(Raise(w))
      <4>1. PICK i \in 1..Len(rest) : x = rest[i]
        BY <1>3, <3>2 DEF Open
      <4>2. i + 1 \in DOMAIN Raise(w) /\ Raise(w)[i + 1] = x
        BY <1>3, <4>1
      <4> QED BY <4>2 DEF Open
    <3>3. w \in Open(Raise(w))
      BY <1>3 DEF Open
    <3> QED BY <3>1, <3>2, <3>3
  <2> QED BY <1>1, <2>1
<1> QED BY <1>3, <1>6, <1>7

LEMMA MatchingFacts ==
  ASSUME DesktopOK, NEW app
  PROVE  /\ MatchingWindows(app) \in Seq(Windows)
         /\ Distinct(MatchingWindows(app))
         /\ Open(MatchingWindows(app)) \subseteq Open(zorder)
<1> DEFINE P == {i \in DOMAIN zorder : AppOf[zorder[i]] = app}
<1>1. zorder \in Seq(Windows) /\ Distinct(zorder) /\ P \in SUBSET DOMAIN zorder
  BY DEF DesktopOK, Desktop
<1>2. {zorder[i] : i \in P} \subseteq Open(zorder)
  BY DEF Open
<1>3. MatchingWindows(app) = Those(zorder)[P]
  BY DEF MatchingWindows
<1> HIDE DEF P
<1> QED BY <1>1, <1>2, <1>3, ThoseFacts

\* Raising and closing windows, being refused, and activate_window.
LEMMA RaisedOK ==
  ASSUME DesktopOK, NEW w \in Windows, zorder' = Raise(w), front' = w,
         iconic' = iconic \ {w}
  PROVE  DesktopOK'
BY RaiseFacts DEF DesktopOK, Desktop

LEMMA FocusKeeps ==
  ASSUME DesktopOK, NEW w \in Windows, NEW focuses \in BOOLEAN,
         Focus(w, focuses)
  PROVE  DesktopOK'
<1>1. CASE focuses
  BY <1>1, RaisedOK DEF Focus
<1>2. CASE ~focuses
  <2>1. /\ zorder' = zorder \/ zorder' = Raise(w)
        /\ front' = front \/ front' = NoWindow
        /\ iconic' = iconic \ {w}
    BY <1>2 DEF Focus, Refused
  <2>2. zorder' \in Seq(Windows) /\ Distinct(zorder')
        /\ Open(zorder) \subseteq Open(zorder')
    BY <2>1, RaiseFacts DEF DesktopOK, Desktop
  <2>3. iconic \subseteq Windows
    BY DEF DesktopOK, Desktop, Open
  <2> QED BY <2>1, <2>2, <2>3, AppsAssumption DEF DesktopOK, Desktop
<1> QED BY <1>1, <1>2

LEMMA ChangeDesktopKeeps ==
  ASSUME DesktopOK, ChangeDesktop
  PROVE  DesktopOK'
<1>1. ASSUME NEW w \in Windows,
             zorder' = Raise(w) /\ front' = w /\ iconic' = iconic \ {w}
      PROVE  DesktopOK'
  BY <1>1, RaisedOK
<1>2. ASSUME NEW w \in Open(zorder),
             /\ zorder' = Without(w) /\ iconic' = iconic \ {w}
             /\ front' = IF front = w THEN NoWindow ELSE front
      PROVE  DesktopOK'
  <2>1. iconic \subseteq Windows
    BY DEF DesktopOK, Desktop, Open
  <2> QED BY <1>2, <2>1, WithoutFacts, AppsAssumption DEF DesktopOK, Desktop
<1>3. CASE front' = NoWindow /\ UNCHANGED <<zorder, iconic>>
  <2>1. iconic \subseteq Windows
    BY DEF DesktopOK, Desktop, Open
  <2> QED BY <1>3, <2>1, AppsAssumption DEF DesktopOK, Desktop
<1> QED BY <1>1, <1>2, <1>3 DEF ChangeDesktop

-----------------------------------------------------------------------------
\* The cycle: what it remembers is from when it last moved.
CycleOK ==
  /\ switchSet \in BOOLEAN /\ emulated \in BOOLEAN /\ (emulated => switchSet)
  /\ cycleApp \in Apps \cup {"none"}
  /\ cycleWindows \in Seq(Windows) /\ cycleIndex \in 0..Len(cycleWindows)

\* The next place around a ring is another place, if there is one.
LEMMA AroundFacts ==
  ASSUME NEW n \in Nat, NEW size \in Nat \ {0}
  PROVE  /\ (n % size) + 1 \in 1..size
         /\ size >= 2 /\ n \in 1..size => (n % size) + 1 # n
<1>1. n % size \in 0..(size - 1)
  OBVIOUS
<1>2. ASSUME size >= 2, n \in 1..size PROVE (n % size) + 1 # n
  <2>1. CASE n < size
    <3>1. n % size = n
      BY <2>1
    <3> QED BY <3>1
  <2>2. CASE n = size
    <3>1. n % size = 0
      BY <2>2
    <3> QED BY <1>2, <2>2, <3>1
  <2> QED BY <1>2, <2>1, <2>2
<1> QED BY <1>1, <1>2

LEMMA PositionFacts ==
  ASSUME NEW s \in Seq(Windows), NEW w \in Open(s)
  PROVE  Position(w, s) \in 1..Len(s) /\ s[Position(w, s)] = w
BY DEF Position, Open

LEMMA NoneFacts == <<>> \in Seq(Windows) /\ Len(<<>>) = 0 /\ 0 \in 0..0
OBVIOUS

LEMMA ClearedCycle ==
  ASSUME ClearEmulated, switchSet' \in BOOLEAN
  PROVE  CycleOK' /\ ~emulated'
<1>1. cycleWindows' \in Seq(Windows) /\ cycleIndex' \in 0..Len(cycleWindows')
  BY NoneFacts DEF ClearEmulated
<1>2. cycleApp' = "none" /\ emulated' = FALSE
  BY DEF ClearEmulated
<1> QED BY <1>1, <1>2 DEF CycleOK

LEMMA EndKeepsCycle ==
  ASSUME CycleOK, NEW sends, EndCycleSession(sends)
  PROVE  CycleOK' /\ (emulated => ~emulated')
<1>1. CASE emulated /\ ClearEmulated /\ switchSet' = FALSE
  BY <1>1, ClearedCycle
<1>2. CASE /\ ~emulated /\ switchSet' = FALSE
           /\ UNCHANGED <<emulated, cycleApp, cycleWindows, cycleIndex>>
  BY <1>2 DEF CycleOK
<1>3. CASE ~emulated /\ UNCHANGED cycle
  BY <1>3 DEF CycleOK, cycle
<1> QED BY <1>1, <1>2, <1>3 DEF EndCycleSession

\* advance_emulated_cycle goes on to an open window, and to another one.
LEMMA NextFacts ==
  ASSUME CycleOK, NEW windows \in Seq(Windows), Distinct(windows),
         Len(windows) >= 2
  PROVE  /\ NextIndex(windows) \in 1..Len(windows)
         /\ windows[NextIndex(windows)] # cycleWindows[cycleIndex]
<1> DEFINE current == cycleWindows[cycleIndex]
<1>1. cycleIndex \in Nat /\ Len(windows) \in Nat \ {0}
  BY DEF CycleOK
<1>2. CASE current \in Open(windows)
  <2>1. /\ Position(current, windows) \in 1..Len(windows)
        /\ windows[Position(current, windows)] = current
    BY <1>2, PositionFacts
  <2>2. NextIndex(windows) = (Position(current, windows) % Len(windows)) + 1
    BY <1>2 DEF NextIndex
  <2>3. /\ NextIndex(windows) \in 1..Len(windows)
        /\ NextIndex(windows) # Position(current, windows)
    BY <1>1, <2>1, <2>2, AroundFacts
  <2> QED BY <2>1, <2>3 DEF Distinct
<1>3. CASE current \notin Open(windows)
  <2>1. NextIndex(windows) = (cycleIndex % Len(windows)) + 1
    BY <1>3 DEF NextIndex
  <2>2. NextIndex(windows) \in 1..Len(windows)
    BY <1>1, <2>1, AroundFacts
  <2>3. windows[NextIndex(windows)] \in Open(windows)
    BY <2>2 DEF Open
  <2> QED BY <1>3, <2>2, <2>3
<1> QED BY <1>2, <1>3

LEMMA AdvanceKeeps ==
  ASSUME DesktopOK, CycleOK, emulated, NEW focuses \in BOOLEAN,
         AdvanceEmulated(focuses)
  PROVE  /\ DesktopOK' /\ CycleOK'
         /\ emulated' => cycleWindows'[cycleIndex'] # cycleWindows[cycleIndex]
<1> DEFINE windows == MatchingWindows(cycleApp)
<1>1. windows \in Seq(Windows) /\ Distinct(windows) /\ Len(windows) \in Nat
  BY MatchingFacts
<1>2. CASE /\ ClearEmulated /\ switchSet' = FALSE
           /\ IF Len(windows) = 1 THEN Focus(windows[1], focuses)
              ELSE UNCHANGED desktop
  <2>1. CycleOK' /\ ~emulated'
    BY <1>2, ClearedCycle
  <2> HIDE DEF windows
  <2>2. Len(windows) = 1 => windows[1] \in Windows
    BY <1>1
  <2>3. UNCHANGED desktop => DesktopOK'
    BY DEF desktop, DesktopOK
  <2> QED BY <1>2, <2>1, <2>2, <2>3, FocusKeeps
<1>3. CASE /\ Len(windows) >= 2
           /\ cycleWindows' = windows /\ cycleIndex' = NextIndex(windows)
           /\ Focus(windows[NextIndex(windows)], focuses)
           /\ UNCHANGED <<switchSet, emulated, cycleApp>>
  <2> HIDE DEF windows
  <2>1. /\ NextIndex(windows) \in 1..Len(windows)
        /\ windows[NextIndex(windows)] # cycleWindows[cycleIndex]
    BY <1>1, <1>3, NextFacts
  <2>2. windows[NextIndex(windows)] \in Windows
    BY <1>1, <2>1
  <2>3. DesktopOK'
    BY <1>3, <2>2, FocusKeeps
  <2>4. CycleOK'
    BY <1>1, <1>3, <2>1 DEF CycleOK
  <2> QED BY <1>3, <2>1, <2>3, <2>4
<1> QED BY <1>2, <1>3 DEF AdvanceEmulated

LEMMA BeginEmulatedKeeps ==
  ASSUME DesktopOK, CycleOK, NEW app \in Apps, NEW focuses \in BOOLEAN,
         NEW windows \in Seq(Windows), Len(windows) >= 2,
         BeginEmulated(app, windows, focuses)
  PROVE  DesktopOK' /\ CycleOK'
<1>1. PICK index : /\ index = IF front \in Open(windows)
                              THEN (Position(front, windows) % Len(windows)) + 1
                              ELSE 1
                   /\ Focus(windows[index], focuses)
                   /\ cycleApp' = app /\ cycleWindows' = windows
                   /\ cycleIndex' = index /\ emulated' = TRUE
                   /\ switchSet' = TRUE
  BY DEF BeginEmulated
<1>2. index \in 1..Len(windows)
  BY <1>1, PositionFacts, AroundFacts
<1>3. windows[index] \in Windows
  BY <1>2
<1> QED BY <1>1, <1>2, <1>3, FocusKeeps DEF CycleOK

LEMMA EmulateKeeps ==
  ASSUME DesktopOK, CycleOK, NEW app \in Apps, NEW focuses \in BOOLEAN,
         Emulate(app, focuses)
  PROVE  DesktopOK' /\ CycleOK'
<1> DEFINE windows == MatchingWindows(app)
<1>1. /\ windows \in Seq(Windows) /\ Len(windows) \in Nat
      /\ Open(windows) \subseteq Open(zorder)
  BY MatchingFacts
<1>2. UNCHANGED cycle => CycleOK'
  BY DEF cycle, CycleOK
<1>3. UNCHANGED desktop => DesktopOK'
  BY DEF desktop, DesktopOK
<1>4. Len(windows) # 0 => windows[1] \in Windows /\ windows[1] \in Open(windows)
  BY <1>1 DEF Open
<1>5. CASE Len(windows) >= 2 /\ BeginEmulated(app, windows, focuses)
  <2> HIDE DEF windows
  <2> QED BY <1>1, <1>5, BeginEmulatedKeeps
<1>6. CASE Len(windows) # 0 /\ Focus(windows[1], focuses) /\ UNCHANGED cycle
  <2> HIDE DEF windows
  <2> QED BY <1>2, <1>4, <1>6, FocusKeeps
<1>7. CASE /\ Len(windows) = 1
           /\ front' = NoWindow /\ iconic' = iconic \cup {windows[1]}
           /\ UNCHANGED <<zorder, cycle>>
  <2> HIDE DEF windows
  <2>1. windows[1] \in Open(zorder)
    BY <1>1, <1>4, <1>7
  <2>2. iconic' \subseteq Open(zorder) /\ Open(zorder) \subseteq Windows
    BY <1>7, <2>1 DEF DesktopOK, Desktop, Open
  <2> QED BY <1>2, <1>7, <2>2, AppsAssumption DEF DesktopOK, Desktop, cycle
<1>8. CASE UNCHANGED desktop /\ UNCHANGED cycle
  BY <1>2, <1>3, <1>8
<1>9. ASSUME NEW w \in Windows, Focus(w, TRUE), UNCHANGED cycle
      PROVE  DesktopOK' /\ CycleOK'
  BY <1>2, <1>9, FocusKeeps
<1> HIDE DEF windows
<1>10. Emulate(app, focuses) =>
         \/ Len(windows) >= 2 /\ BeginEmulated(app, windows, focuses)
         \/ Len(windows) # 0 /\ Focus(windows[1], focuses) /\ UNCHANGED cycle
         \/ /\ Len(windows) = 1
            /\ front' = NoWindow /\ iconic' = iconic \cup {windows[1]}
            /\ UNCHANGED <<zorder, cycle>>
         \/ UNCHANGED desktop /\ UNCHANGED cycle
         \/ \E w \in Windows : Focus(w, TRUE) /\ UNCHANGED cycle
  <2> SUFFICES ASSUME Emulate(app, focuses)
               PROVE
         \/ Len(windows) >= 2 /\ BeginEmulated(app, windows, focuses)
         \/ Len(windows) # 0 /\ Focus(windows[1], focuses) /\ UNCHANGED cycle
         \/ /\ Len(windows) = 1
            /\ front' = NoWindow /\ iconic' = iconic \cup {windows[1]}
            /\ UNCHANGED <<zorder, cycle>>
         \/ UNCHANGED desktop /\ UNCHANGED cycle
         \/ \E w \in Windows : Focus(w, TRUE) /\ UNCHANGED cycle
    OBVIOUS
  <2>1. \/ Len(windows) >= 2 /\ BeginEmulated(app, windows, focuses)
        \/ /\ Len(windows) >= 2 /\ Focus(windows[1], focuses)
           /\ UNCHANGED cycle
        \/ /\ Len(windows) = 1 /\ UNCHANGED cycle
           /\ \/ /\ front' = NoWindow /\ iconic' = iconic \cup {windows[1]}
                 /\ UNCHANGED zorder
              \/ Focus(windows[1], focuses)
        \/ /\ UNCHANGED cycle
           /\ UNCHANGED desktop \/ \E w \in Windows : Focus(w, TRUE)
    BY DEF Emulate, windows
  <2>2. Len(windows) >= 2 \/ Len(windows) = 1 => Len(windows) # 0
    BY <1>1
  <2>3. CASE Len(windows) >= 2
    BY <2>1, <2>2, <2>3
  <2>4. CASE ~(Len(windows) >= 2)
    BY <2>1, <2>2, <2>4
  <2> QED BY <2>3, <2>4
<1> QED BY <1>5, <1>6, <1>7, <1>8, <1>9, <1>10

-----------------------------------------------------------------------------
\* The Windows key.
Leaks == {"torn", "refused", "late"}
HeldType == winDown \in BOOLEAN /\ leaks \subseteq Leaks

LEMMA HeldFacts ==
  ASSUME HeldType
  PROVE  /\ UNCHANGED held => HeldType'
         /\ \A sends \in BOOLEAN : SendWithWin(sends) => HeldType'
         /\ \A sends : EndCycleSession(sends) => HeldType'
<1>1. UNCHANGED held => HeldType'
  BY DEF held, HeldType
<1>2. Release => HeldType'
  BY DEF Release, HeldType
<1>3. /\ "torn" \in Leaks /\ "refused" \in Leaks
      /\ \A l \in Leaks : leaks' = leaks \cup {l} => leaks' \subseteq Leaks
  BY DEF Leaks, HeldType
<1>4. ASSUME NEW sends \in BOOLEAN, SendWithWin(sends) PROVE HeldType'
  BY <1>1, <1>2, <1>3, <1>4 DEF SendWithWin, HeldType
<1>5. ASSUME NEW sends, EndCycleSession(sends) PROVE HeldType'
  BY <1>1, <1>2, <1>3, <1>5 DEF EndCycleSession, HeldType
<1> QED BY <1>1, <1>4, <1>5

LEMMA ActivateKeeps ==
  ASSUME DesktopOK, CycleOK, HeldType, NEW app \in Apps, NEW sends \in BOOLEAN,
         NEW focuses \in BOOLEAN, Activate(app, sends, focuses)
  PROVE  DesktopOK' /\ CycleOK' /\ HeldType'
<1>1. CASE BeginNative
  <2>1. HeldType'
    BY <1>1 DEF BeginNative, HeldType, Leaks
  <2> QED BY <1>1, <2>1, ClearedCycle DEF BeginNative, DesktopOK, desktop
<1>2. CASE SendWithWin(TRUE) /\ UNCHANGED <<desktop, cycle>>
  BY <1>2, HeldFacts DEF DesktopOK, desktop, CycleOK, cycle
<1>3. CASE NativeFails(app, sends) /\ UNCHANGED <<desktop, cycle>>
  BY <1>3, HeldFacts DEF NativeFails, DesktopOK, desktop, CycleOK, cycle
<1>4. CASE NativeFails(app, sends) /\ Emulate(app, focuses)
  BY <1>4, HeldFacts, EmulateKeeps DEF NativeFails
<1> QED BY <1>1, <1>2, <1>3, <1>4 DEF Activate, ActivateNative

-----------------------------------------------------------------------------
\* The rest of the state.
QueueOK == queue \in Seq(Messages)
FlagsOK ==
  /\ hooked \in BOOLEAN /\ primary \in BOOLEAN
  /\ switchKey \in Keys \cup {"none"} /\ HeldType
  /\ loop \in {"running", "ended"} /\ closed \in BOOLEAN
  /\ last \in [key : Keys \cup {"none"}, threw : BOOLEAN]
  /\ changes \in 0..MaxChanges /\ faults \in 0..MaxFaults

LoopInv == DesktopOK /\ CycleOK /\ QueueOK /\ FlagsOK

LEMMA QueueFacts ==
  ASSUME QueueOK
  PROVE  /\ \A m \in Messages : Append(queue, m) \in Seq(Messages)
         /\ queue # <<>> => /\ Tail(queue) \in Seq(Messages)
                            /\ Append(Tail(queue), Quit) \in Seq(Messages)
<1>1. Quit \in Messages
  BY DEF Messages
<1> QED BY <1>1 DEF QueueOK

LEMMA CallsFacts ==
  ASSUME FlagsOK, NEW sends, NEW focuses, Calls(sends, focuses)
  PROVE  faults' \in 0..MaxFaults
BY BoundsAssumption DEF Calls, FlagsOK

\* A step that leaves the desktop, the cycle, or both alone.
LEMMA ApartKeeps ==
  /\ DesktopOK /\ UNCHANGED desktop => DesktopOK'
  /\ CycleOK /\ UNCHANGED cycle => CycleOK'
  /\ QueueOK /\ UNCHANGED queue => QueueOK'
  /\ HeldType /\ UNCHANGED held => HeldType'
BY HeldFacts DEF DesktopOK, desktop, CycleOK, cycle, QueueOK

LEMMA HandleQuitKeeps ==
  ASSUME LoopInv, HandleQuit
  PROVE  LoopInv'
BY ApartKeeps, QueueFacts, HeldFacts DEF LoopInv, HandleQuit, QueueOK, FlagsOK

LEMMA HandleCloseKeeps ==
  ASSUME LoopInv, NEW sends \in BOOLEAN, HandleClose(sends)
  PROVE  LoopInv'
<1>1. EndCycleSession(sends) /\ UNCHANGED desktop
  BY DEF HandleClose, CloseProgram
<1>2. DesktopOK' /\ CycleOK'
  BY <1>1, ApartKeeps, EndKeepsCycle DEF LoopInv
<1>3. QueueOK'
  BY QueueFacts DEF LoopInv, HandleClose, CloseProgram, QueueOK
<1>4. faults' \in 0..MaxFaults
  BY CallsFacts DEF LoopInv, HandleClose
<1>5. HeldType'
  BY <1>1, HeldFacts DEF LoopInv, FlagsOK
<1>6. FlagsOK'
  BY <1>4, <1>5 DEF LoopInv, HandleClose, CloseProgram, FlagsOK
<1> QED BY <1>2, <1>3, <1>6 DEF LoopInv

LEMMA CommandThrowsKeeps ==
  ASSUME LoopInv, NEW k \in Keys, CommandThrows(k)
  PROVE  LoopInv'
<1>1. faults' \in 0..MaxFaults
  BY CallsFacts DEF LoopInv, CommandThrows
<1>2. QueueOK'
  BY QueueFacts DEF LoopInv, CommandThrows, KeyInHand, NextMessage, QueueOK
<1>3. FlagsOK'
  BY <1>1, HeldFacts DEF LoopInv, CommandThrows, Took, FlagsOK
<1> QED BY <1>2, <1>3, ApartKeeps DEF LoopInv, CommandThrows

LEMMA HandleKeyInCycleKeeps ==
  ASSUME LoopInv, NEW k \in Keys, NEW sends \in BOOLEAN,
         NEW focuses \in BOOLEAN, HandleKeyInCycle(k, sends, focuses)
  PROVE  /\ LoopInv'
         /\ emulated /\ emulated'
              => cycleWindows'[cycleIndex'] # cycleWindows[cycleIndex]
<1>1. faults' \in 0..MaxFaults
  BY CallsFacts DEF LoopInv, HandleKeyInCycle
<1>2. QueueOK'
  BY QueueFacts DEF LoopInv, HandleKeyInCycle, KeyInHand, NextMessage, QueueOK
<1>3. /\ DesktopOK' /\ CycleOK' /\ HeldType'
      /\ emulated /\ emulated'
           => cycleWindows'[cycleIndex'] # cycleWindows[cycleIndex]
  <2>1. DesktopOK /\ CycleOK /\ HeldType
    BY DEF LoopInv, FlagsOK
  <2>2. CASE emulated /\ AdvanceEmulated(focuses) /\ UNCHANGED held
    BY <2>1, <2>2, AdvanceKeeps, HeldFacts
  <2>3. CASE ~emulated /\ UNCHANGED <<cycle, desktop, held>>
    BY <2>1, <2>3, ApartKeeps
  <2>4. CASE EndCycleSession(sends) /\ UNCHANGED desktop
    BY <2>1, <2>4, ApartKeeps, EndKeepsCycle, HeldFacts
  <2> QED BY <2>2, <2>3, <2>4 DEF HandleKeyInCycle
<1>4. FlagsOK'
  BY <1>1, <1>3 DEF LoopInv, HandleKeyInCycle, Took, FlagsOK
<1> QED BY <1>2, <1>3, <1>4 DEF LoopInv

LEMMA HandleKeyKeeps ==
  ASSUME LoopInv, NEW k \in Keys, NEW sends \in BOOLEAN,
         NEW focuses \in BOOLEAN, HandleKey(k, sends, focuses)
  PROVE  LoopInv'
<1>1. faults' \in 0..MaxFaults
  BY CallsFacts DEF LoopInv, HandleKey
<1>2. DesktopOK /\ CycleOK /\ QueueOK /\ HeldType /\ queue # <<>>
  BY DEF LoopInv, FlagsOK, HandleKey, KeyInHand
<1>3. /\ DesktopOK' /\ CycleOK' /\ QueueOK' /\ HeldType'
      /\ (hooked' = FALSE /\ closed' = TRUE) \/ UNCHANGED <<hooked, closed>>
  <2>1. Perform(Chosen(k), sends, focuses)
    BY DEF HandleKey
  <2>2. CASE CloseProgram(sends, Tail(queue)) /\ UNCHANGED desktop
    BY <1>2, <2>2, ApartKeeps, EndKeepsCycle, HeldFacts, QueueFacts
    DEF CloseProgram, QueueOK
  <2>3. CASE /\ Chosen(k) \in Apps /\ Activate(Chosen(k), sends, focuses)
             /\ NextMessage /\ UNCHANGED <<hooked, closed>>
    BY <1>2, <2>3, ActivateKeeps, QueueFacts DEF NextMessage, QueueOK
  <2>4. CASE NextMessage /\ UNCHANGED <<cycle, desktop, held, hooked, closed>>
    BY <1>2, <2>4, ApartKeeps, QueueFacts DEF NextMessage, QueueOK
  <2> QED BY <2>1, <2>2, <2>3, <2>4 DEF Perform
<1>4. primary' \in BOOLEAN
  BY DEF HandleKey
<1>5. FlagsOK'
  BY <1>1, <1>3, <1>4 DEF LoopInv, HandleKey, Took, FlagsOK
<1> QED BY <1>3, <1>5 DEF LoopInv

LEMMA PostKeeps ==
  ASSUME LoopInv, RequestShutdown \/ \E k \in Keys : Press(k)
  PROVE  LoopInv' /\ Len(queue') = Len(queue) + 1
<1>1. PICK m \in Messages : queue' = Append(queue, m)
  BY DEF RequestShutdown, Press, Post, Messages
<1>2. UNCHANGED <<cycle, desktop>> /\ FlagsOK'
  BY HeldFacts DEF RequestShutdown, Press, LoopInv, FlagsOK
<1>3. QueueOK' /\ Len(queue') = Len(queue) + 1
  BY <1>1, QueueFacts DEF LoopInv, QueueOK
<1> QED BY <1>2, <1>3, ApartKeeps DEF LoopInv

LEMMA DesktopChangesKeep ==
  ASSUME LoopInv, ChangeDesktop
  PROVE  LoopInv'
<1>1. changes' \in 0..MaxChanges
  BY BoundsAssumption DEF ChangeDesktop, LoopInv, FlagsOK
<1>2. FlagsOK' /\ UNCHANGED <<cycle, queue>>
  BY <1>1, HeldFacts DEF ChangeDesktop, LoopInv, FlagsOK
<1> QED BY <1>2, ChangeDesktopKeeps, ApartKeeps DEF LoopInv

LEMMA LoopStep == LoopInv /\ [Next]_vars => LoopInv'
<1> SUFFICES ASSUME LoopInv, [Next]_vars PROVE LoopInv'
  OBVIOUS
<1>1. CASE Handle
  BY <1>1, HandleQuitKeeps, HandleCloseKeeps, CommandThrowsKeeps,
     HandleKeyInCycleKeeps, HandleKeyKeeps DEF Handle
<1>2. CASE UNCHANGED vars
  BY <1>2, ApartKeeps DEF vars, LoopInv, FlagsOK
<1> QED BY <1>1, <1>2, PostKeeps, DesktopChangesKeep DEF Next

LEMMA LoopInit == Init => LoopInv
<1> SUFFICES ASSUME Init PROVE LoopInv
  OBVIOUS
<1> DEFINE n == Cardinality(Windows)
<1>1. n \in Nat
  BY AppsAssumption, FS_CardinalityType
<1>2. zorder \in [1..n -> Windows] /\ Open(zorder) = Windows
  BY DEF Init
<1>3. zorder \in Surjection(1..n, Windows)
  BY <1>2 DEF Surjection, Open
<1>4. IsFiniteSet(1..n) /\ Cardinality(1..n) = n
  BY <1>1, FS_Interval
<1>5. zorder \in Injection(1..n, Windows)
  BY <1>3, <1>4, FS_SurjSameCardinalityImpliesInj
<1>6. Distinct(zorder)
  BY <1>2, <1>5 DEF Injection, IsInjective, Distinct
<1>7. zorder \in Seq(Windows)
  BY <1>1, <1>2
<1>8. DesktopOK
  BY <1>6, <1>7, AppsAssumption DEF Init, DesktopOK, Desktop
<1>9. CycleOK /\ QueueOK
  <2>1. cycleWindows \in Seq(Windows) /\ cycleIndex \in 0..Len(cycleWindows)
    BY NoneFacts DEF Init
  <2>2. queue \in Seq(Messages)
    BY DEF Init
  <2> QED BY <2>1, <2>2 DEF Init, CycleOK, QueueOK
<1>10. FlagsOK
  <2>1. last \in [key : Keys \cup {"none"}, threw : BOOLEAN]
    BY DEF Init, NoKey
  <2>2. changes \in 0..MaxChanges /\ faults \in 0..MaxFaults
    BY BoundsAssumption DEF Init
  <2> QED BY <2>1, <2>2 DEF Init, FlagsOK, HeldType
<1> QED BY <1>8, <1>9, <1>10 DEF LoopInv

LEMMA LoopAlways == Spec => []LoopInv
BY LoopInit, LoopStep, PTL DEF Spec

\* What the loop, the cycle and the desktop can be (run_message_loop,
\* MainTaskbarState, matching_windows).
THEOREM TypeCorrect == Spec => []TypeOK
<1>1. LoopInv => TypeOK
  BY DEF LoopInv, DesktopOK, Desktop, CycleOK, QueueOK, FlagsOK, HeldType, Leaks, TypeOK
<1> QED BY <1>1, LoopAlways, PTL

\* advance_emulated_cycle always moves to another window, although the list it
\* remembers is from the step before.
THEOREM CycleAlwaysMoves == Spec => CycleMoves
<1>1. ASSUME LoopInv, [Next]_vars, emulated, emulated',
             Len(queue') < Len(queue), Head(queue).type = "key"
      PROVE  cycleWindows'[cycleIndex'] # cycleWindows[cycleIndex]
  <2>1. switchSet /\ Len(queue) \in Nat
    BY <1>1 DEF LoopInv, CycleOK, QueueOK
  <2>2. queue' # queue /\ Len(queue') # Len(queue) + 1
    BY <1>1, <2>1
  <2>3. Handle
    BY <1>1, <2>2, PostKeeps DEF Next, ChangeDesktop, vars
  <2>4. ~HandleQuit /\ \A sends : ~HandleClose(sends)
    BY <1>1 DEF HandleQuit, HandleClose
  <2> QED BY <1>1, <2>1, <2>3, <2>4, HandleKeyInCycleKeeps
          DEF Handle, CommandThrows, HandleKey
<1>2. LoopInv /\ [Next]_vars =>
        (emulated /\ emulated' /\ Len(queue') < Len(queue)
           /\ Head(queue).type = "key"
         => cycleWindows'[cycleIndex'] # cycleWindows[cycleIndex])
  BY <1>1
<1> QED BY <1>2, LoopAlways, PTL DEF Spec, CycleMoves

-----------------------------------------------------------------------------
\* The Windows key and the cycle: a native cycle holds the key, and a key held
\* without one is that of a torn shortcut.
HeldTogether ==
  /\ switchSet /\ ~emulated => winDown
  /\ winDown => (switchSet /\ ~emulated) \/ "torn" \in leaks

\* Behind close_program a key that is down has a reason.
HeldOK == HeldTogether /\ (closed /\ winDown => leaks # {})

\* The loop ends by the message of close_program only.
EndsClosed ==
  /\ loop = "ended" => closed
  /\ \A i \in DOMAIN queue : queue[i].type = "quit" => closed

\* end_cycle_session leaves the key up, or a reason why it is not.
LEMMA EndKeepsWin ==
  ASSUME HeldTogether, NEW sends \in BOOLEAN, EndCycleSession(sends)
  PROVE  HeldTogether' /\ (winDown' => leaks' # {})
<1>1. CASE emulated /\ ClearEmulated /\ switchSet' = FALSE /\ UNCHANGED held
  BY <1>1 DEF HeldTogether, ClearEmulated, held
<1>2. CASE /\ ~emulated /\ switchSet /\ sends
           /\ switchSet' = FALSE /\ Release
           /\ UNCHANGED <<emulated, cycleApp, cycleWindows, cycleIndex>>
  BY <1>2 DEF HeldTogether, Release
<1>3. CASE /\ ~emulated /\ switchSet /\ ~sends
           /\ leaks' = leaks \cup {"refused"} /\ UNCHANGED <<cycle, winDown>>
  BY <1>3 DEF HeldTogether, cycle
<1>4. CASE ~emulated /\ ~switchSet /\ UNCHANGED <<cycle, held>>
  BY <1>4 DEF HeldTogether, cycle, held
<1>5. QED BY <1>1, <1>2, <1>3, <1>4 DEF EndCycleSession

\* A program's emulation begins an emulated cycle or leaves the cycle as it is.
LEMMA EmulateBegins ==
  ASSUME NEW app, NEW focuses, Emulate(app, focuses)
  PROVE  (switchSet' = TRUE /\ emulated' = TRUE) \/ UNCHANGED cycle
BY DEF Emulate, BeginEmulated, cycle

\* A shortcut with the Windows key leaves it up, as it was, or torn.
LEMMA SendKeepsWin ==
  ASSUME HeldOK, ~switchSet, NEW sends \in BOOLEAN,
         SendWithWin(sends) \/ UNCHANGED held
  PROVE  winDown' => "torn" \in leaks'
<1>1. CASE UNCHANGED held
  BY <1>1 DEF HeldOK, HeldTogether, held
<1>2. CASE Release
  BY <1>2 DEF Release
<1>3. CASE leaks' = leaks \cup {"torn"}
  BY <1>3
<1>4. QED BY <1>1, <1>2, <1>3 DEF SendWithWin

\* Activating a program begins a cycle of one kind or the other, or none.
LEMMA ActivateKeepsWin ==
  ASSUME HeldOK, ~switchSet, NEW app, NEW sends \in BOOLEAN,
         NEW focuses \in BOOLEAN, Activate(app, sends, focuses), closed' = closed
  PROVE  HeldOK'
<1>1. CASE BeginNative
  BY <1>1 DEF BeginNative, ClearEmulated, HeldOK, HeldTogether
<1>2. CASE SendWithWin(TRUE) /\ UNCHANGED <<desktop, cycle>>
  <2>1. winDown' => "torn" \in leaks'
    BY <1>2, SendKeepsWin
  <2>2. QED BY <1>2, <2>1 DEF HeldOK, HeldTogether, cycle
<1>3. CASE /\ NativeFails(app, sends)
           /\ UNCHANGED <<desktop, cycle>> \/ Emulate(app, focuses)
  <2>1. winDown' => "torn" \in leaks'
    BY <1>3, SendKeepsWin DEF NativeFails
  <2>2. (switchSet' = TRUE /\ emulated' = TRUE) \/ UNCHANGED cycle
    BY <1>3, EmulateBegins
  <2>3. QED BY <2>1, <2>2 DEF HeldOK, HeldTogether, cycle
<1>4. QED BY <1>1, <1>2, <1>3 DEF Activate, ActivateNative

LEMMA HeldStep == HeldOK /\ [Next]_vars => HeldOK'
<1> SUFFICES ASSUME HeldOK, [Next]_vars PROVE HeldOK'
  OBVIOUS
<1>1. ASSUME UNCHANGED <<cycle, held, closed>> PROVE HeldOK'
  BY <1>1 DEF HeldOK, HeldTogether, cycle, held
<1>2. ASSUME NEW sends \in BOOLEAN, EndCycleSession(sends) PROVE HeldOK'
  BY <1>2, EndKeepsWin DEF HeldOK
<1>3. CASE HandleQuit \/ RequestShutdown \/ ChangeDesktop
           \/ (\E k \in Keys : CommandThrows(k) \/ Press(k)) \/ UNCHANGED vars
  BY <1>1, <1>3, DesktopApart DEF HandleQuit, RequestShutdown, CommandThrows, Press, vars
<1>4. ASSUME NEW sends \in BOOLEAN, HandleClose(sends) PROVE HeldOK'
  BY <1>2, <1>4 DEF HandleClose, CloseProgram
<1>5. ASSUME NEW k \in Keys, NEW sends \in BOOLEAN, NEW focuses \in BOOLEAN,
             HandleKeyInCycle(k, sends, focuses)
      PROVE  HeldOK'
  <2>1. CASE emulated /\ AdvanceEmulated(focuses) /\ UNCHANGED held
    <3>1. (switchSet' = FALSE) \/ UNCHANGED <<switchSet, emulated>>
      BY <2>1 DEF AdvanceEmulated
    <3>2. closed' = closed
      BY <1>5 DEF HandleKeyInCycle
    <3>3. QED BY <2>1, <3>1, <3>2 DEF HeldOK, HeldTogether, held
  <2>2. CASE UNCHANGED <<cycle, desktop, held>>
    BY <1>1, <1>5, <2>2 DEF HandleKeyInCycle
  <2>3. CASE EndCycleSession(sends)
    BY <1>2, <2>3
  <2>4. QED BY <1>5, <2>1, <2>2, <2>3 DEF HandleKeyInCycle
<1>6. ASSUME NEW k \in Keys, NEW sends \in BOOLEAN, NEW focuses \in BOOLEAN,
             HandleKey(k, sends, focuses)
      PROVE  HeldOK'
  <2>1. ~switchSet /\ Perform(Chosen(k), sends, focuses)
    BY <1>6 DEF HandleKey
  <2>2. CASE CloseProgram(sends, Tail(queue))
    BY <1>2, <2>2 DEF CloseProgram
  <2>3. CASE Activate(Chosen(k), sends, focuses) /\ UNCHANGED closed
    BY <2>1, <2>3, ActivateKeepsWin
  <2>4. CASE UNCHANGED <<cycle, desktop, held, hooked, closed>>
    BY <1>1, <2>4
  <2>5. QED BY <2>1, <2>2, <2>3, <2>4 DEF Perform
<1>7. QED BY <1>3, <1>4, <1>5, <1>6 DEF Next, Handle

LEMMA ClosedStep == LoopInv /\ EndsClosed /\ [Next]_vars => EndsClosed'
<1> SUFFICES ASSUME LoopInv, EndsClosed, [Next]_vars PROVE EndsClosed'
  OBVIOUS
<1>1. queue \in Seq(Messages)
  BY DEF LoopInv, QueueOK
<1>2. ASSUME UNCHANGED <<loop, closed>>,
             \/ queue' = queue
             \/ queue # <<>> /\ queue' = Tail(queue)
             \/ \E m \in Messages : m.type # "quit" /\ queue' = Append(queue, m)
      PROVE  EndsClosed'
  <2>1. ASSUME NEW i \in DOMAIN queue'
        PROVE  queue'[i].type # "quit" \/ \E j \in DOMAIN queue : queue'[i] = queue[j]
    BY <1>1, <1>2
  <2>2. QED BY <1>2, <2>1 DEF EndsClosed
<1>3. ASSUME closed' = TRUE PROVE EndsClosed'
  BY <1>3 DEF EndsClosed
<1>4. CASE ChangeDesktop \/ UNCHANGED vars
  BY <1>2, <1>4, DesktopApart DEF vars
<1>5. CASE RequestShutdown \/ \E k \in Keys : Press(k)
  <2>1. PICK m \in Messages : m.type # "quit" /\ queue' = Append(queue, m)
    BY <1>5 DEF RequestShutdown, Press, Post, Messages, CloseRequest, Key
  <2>2. UNCHANGED <<loop, closed>>
    BY <1>5 DEF RequestShutdown, Press
  <2>3. QED BY <1>2, <2>1, <2>2
<1>6. CASE HandleQuit
  <2>1. closed /\ closed' = closed
    BY <1>1, <1>6 DEF HandleQuit, EndsClosed
  <2>2. QED BY <1>3, <2>1 DEF LoopInv, FlagsOK
<1>7. ASSUME NEW sends \in BOOLEAN, HandleClose(sends) PROVE EndsClosed'
  BY <1>3, <1>7 DEF HandleClose, CloseProgram
<1>8. ASSUME NEW k \in Keys, CommandThrows(k) PROVE EndsClosed'
  BY <1>2, <1>8 DEF CommandThrows, KeyInHand, NextMessage
<1>9. ASSUME NEW k \in Keys, NEW sends \in BOOLEAN, NEW focuses \in BOOLEAN,
             HandleKeyInCycle(k, sends, focuses)
      PROVE  EndsClosed'
  BY <1>2, <1>9 DEF HandleKeyInCycle, KeyInHand, NextMessage
<1>10. ASSUME NEW k \in Keys, NEW sends \in BOOLEAN, NEW focuses \in BOOLEAN,
              HandleKey(k, sends, focuses)
       PROVE  EndsClosed'
  <2>1. Perform(Chosen(k), sends, focuses) /\ queue # <<>> /\ UNCHANGED loop
    BY <1>10 DEF HandleKey, KeyInHand
  <2>2. closed' = TRUE \/ (queue' = Tail(queue) /\ closed' = closed)
    BY <2>1 DEF Perform, CloseProgram, NextMessage
  <2>3. QED BY <1>2, <1>3, <2>1, <2>2
<1>11. QED BY <1>4, <1>5, <1>6, <1>7, <1>8, <1>9, <1>10 DEF Next, Handle

\* Main accounts for the Windows key: a native cycle that is on holds it, only a
\* torn shortcut leaves it down without one, and only such a shortcut, a refused
\* release or a cycle begun behind the close leaves it down when the loop has
\* ended (end_cycle_session, try_activate_configured, close_program_impl).
THEOREM WinDownHasReason == Spec => []WinDownAccounted
<1>1. Init => HeldOK /\ EndsClosed
  BY DEF Init, HeldOK, HeldTogether, EndsClosed
<1>2. Spec => [](HeldOK /\ EndsClosed)
  BY <1>1, HeldStep, ClosedStep, LoopAlways, PTL DEF Spec
<1>3. HeldOK /\ EndsClosed => WinDownAccounted
  BY DEF HeldOK, HeldTogether, EndsClosed, WinDownAccounted
<1>4. QED BY <1>2, <1>3, PTL

=============================================================================
