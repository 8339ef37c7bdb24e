--------------------------- MODULE LogMergeProofs ---------------------------
(* What TLAPS proves of LogMerge for every set of component logs, dates and *)
(* merging processes, every number of records and every set of mishaps.     *)
EXTENDS LogMerge, WellFoundedInduction, TLAPS

(***************************************************************************)
(* Facts about the operators.                                              *)
(***************************************************************************)

LEMMA RecordFields ==
  ASSUME NEW r \in Records
  PROVE  /\ r.source \in Sources /\ r.file \in 0..MaxFiles - 1
         /\ r.index \in 1..MaxRecords
BY DEF Records

LEMMA NoRowsType == NoRows \in Offsets /\ NoRows # NoState
<1>1. NoRows \in Offsets BY DEF NoRows, Offsets
<1>2. DOMAIN NoRows # DOMAIN NoState BY SourcesAssumption DEF NoRows, NoState
<1> QED BY <1>1, <1>2

LEMMA OffsetsAreState == ASSUME NEW o \in Offsets PROVE o # NoState
<1>1. DOMAIN o # DOMAIN NoState BY SourcesAssumption DEF Offsets, NoState
<1> QED BY <1>1

\* records_by_date has a first date when there is a record in hand.
LEMMA FirstDate ==
  ASSUME NEW T, T \subseteq Nat, T # {}
  PROVE  \E x \in T : \A y \in T : x <= y
<1>1. PICK x \in T : \A y \in T : <<y, x>> \notin OpToRel(<, Nat)
  BY NatLessThanWellFounded, WFMin, Zenon
<1>2. \A y \in T : ~(y < x) BY <1>1 DEF OpToRel
<1> QED BY <1>2

LEMMA DayInHandIs ==
  ASSUME TypeOK, NEW m \in Mergers, job[m].batch # {}
  PROVE  /\ DayInHand(m) \in Days
         /\ \E r \in job[m].batch : DayOf(r.source) = DayInHand(m)
<1> DEFINE T == {DayOf(r.source) : r \in job[m].batch}
<1>1. job[m].batch \subseteq Records BY DEF TypeOK
<1>2. T \subseteq Days BY <1>1, RecordFields, DaysAssumption
<1>3. PICK x \in T : \A y \in T : x <= y
  <2>1. T \subseteq Nat /\ T # {} BY <1>2, DaysAssumption
  <2> HIDE DEF T
  <2> QED BY <2>1, FirstDate
<1>4. x \in Days /\ (\E r \in job[m].batch : DayOf(r.source) = x)
      /\ \A r \in job[m].batch : x <= DayOf(r.source)
  BY <1>2, <1>3
<1> QED BY <1>4 DEF DayInHand

(***************************************************************************)
(* Typing.                                                                 *)
(***************************************************************************)

JobType == [found : SUBSET Sources, existed : BOOLEAN, offsets : Offsets,
            rebuild : SUBSET Days, snapshots : Offsets, batch : SUBSET Records]

LEMMA NoJobType == NoJob \in JobType
BY NoRowsType DEF NoJob, JobType

LEMMA SizeType ==
  ASSUME TypeOK, NEW s \in Sources
  PROVE  Size(s) \in Nat /\ Size(s) >= 2 * whole[s] /\ Size(s) <= 2 * whole[s] + 1
BY BoundsAssumption DEF TypeOK, Size

LEMMA ConsumedType ==
  ASSUME NEW s, NEW from \in Nat, NEW to \in Nat
  PROVE  Consumed(s, from, to) \in Nat
BY DEF Consumed

LEMMA MishapType ==
  ASSUME TypeOK, NEW kind, Mishap(kind) PROVE mishaps' \in 0..MaxMishaps
BY BoundsAssumption DEF TypeOK, Mishap

LEMMA PutType ==
  ASSUME TypeOK, NEW records, Put(records) PROVE merged' \in [Records -> 0..2]
BY DEF TypeOK, Put, UpToTwo

LEMMA ReturnType ==
  ASSUME TypeOK, NEW m \in Mergers, Return(m)
  PROVE  at' \in [Mergers -> Places] /\ job' \in [Mergers -> JobType]
BY NoJobType DEF TypeOK, Return, Goto, Places, JobType

LEMMA InitType == Init => TypeOK /\ RoomInv
<1> SUFFICES ASSUME Init PROVE TypeOK /\ RoomInv OBVIOUS
<1>1. state \in Offsets \cup {NoState} BY NoRowsType DEF Init
<1>2. job \in [Mergers -> JobType] /\ at \in [Mergers -> Places]
  BY NoJobType DEF Init, Places
<1>3. 0 \in 0..MaxFiles - 1 /\ 0 \in 0..MaxRecords /\ 0 \in 0..MaxMishaps
  BY BoundsAssumption
<1>4. /\ present \subseteq Sources /\ file \in [Sources -> 0..MaxFiles - 1]
      /\ whole \in [Sources -> 0..MaxRecords] /\ begun \in [Sources -> BOOLEAN]
  BY <1>3 DEF Init
<1>5. /\ outputs \subseteq Days /\ temp = NoState /\ signaled \in BOOLEAN
      /\ mishaps \in 0..MaxMishaps
  BY <1>3 DEF Init
<1>6. merged \in [Records -> 0..2] BY DEF Init
<1>7. RoomInv BY DEF Init, RoomInv
<1> QED BY <1>1, <1>2, <1>4, <1>5, <1>6, <1>7 DEF TypeOK, JobType

LEMMA SourceType ==
  ASSUME TypeOK, RoomInv, NEW s \in Sources, Write(s) \/ DeleteSource(s)
  PROVE  TypeOK' /\ RoomInv'
<1> USE BoundsAssumption DEF TypeOK, RoomInv, main, saved, troubles
<1>1. CASE BeginRecord(s) BY <1>1 DEF BeginRecord
<1>2. CASE EndRecord(s) BY <1>2 DEF EndRecord
<1>3. CASE DeleteSource(s) BY <1>3, MishapType DEF DeleteSource
<1> QED BY <1>1, <1>2, <1>3 DEF Write

LEMMA DeleteOutputType ==
  ASSUME TypeOK, NEW day \in Days, DeleteOutput(day) PROVE TypeOK'
<1>1. mishaps' \in 0..MaxMishaps BY MishapType DEF DeleteOutput
<1>2. merged' \in [Records -> 0..2] BY DEF TypeOK, DeleteOutput
<1> QED BY <1>1, <1>2 DEF TypeOK, DeleteOutput, sources, saved

LEMMA RunType ==
  ASSUME TypeOK, NEW m \in Mergers, Start(m) \/ Run(m) PROVE TypeOK'
<1> USE DEF TypeOK, sources, main, saved, troubles, Goto, Places
<1>1. CASE Start(m) BY <1>1 DEF Start
<1>2. CASE FirstMerge(m) \/ IntervalEnds(m) \/ MergeAgain(m)
  BY <1>2 DEF FirstMerge, IntervalEnds, MergeAgain
<1>3. CASE HostedEnds(m) BY <1>3 DEF HostedEnds
<1> QED BY <1>1, <1>2, <1>3 DEF Run

\* What the steps of merge_once do to the locals of m.
LEMMA LoadFacts ==
  ASSUME TypeOK, NEW m \in Mergers, LoadState(m)
  PROVE  /\ job' \in [Mergers -> JobType] /\ \A n \in Mergers \ {m} : job'[n] = job[n]
         /\ job'[m].found = present /\ job'[m].existed = (state # NoState)
         /\ job'[m].offsets = IF state = NoState THEN job[m].offsets ELSE state
         /\ job'[m].rebuild = job[m].rebuild /\ job'[m].batch = job[m].batch
<1> DEFINE new == [job[m] EXCEPT !.found = present, !.existed = state # NoState,
                                 !.offsets = IF state = NoState THEN @ ELSE state]
<1>1. job' = [job EXCEPT ![m] = new] BY DEF LoadState, Discovered, TypeOK
<1>2. job[m] \in JobType BY DEF TypeOK, JobType
<1>3. new \in JobType BY <1>2 DEF TypeOK, JobType
<1>4. /\ new.found = present /\ new.existed = (state # NoState)
      /\ new.offsets = IF state = NoState THEN job[m].offsets ELSE state
      /\ new.rebuild = job[m].rebuild /\ new.batch = job[m].batch
  BY <1>2 DEF JobType
<1>5. job \in [Mergers -> JobType] BY DEF TypeOK, JobType
<1> HIDE DEF new
<1> QED BY <1>1, <1>3, <1>4, <1>5

LEMMA RebuildFacts ==
  ASSUME TypeOK, NEW m \in Mergers, FindRebuilds(m)
  PROVE  /\ job' \in [Mergers -> JobType] /\ \A n \in Mergers \ {m} : job'[n] = job[n]
         /\ job'[m].found = job[m].found /\ job'[m].batch = job[m].batch
         /\ job'[m].rebuild =
              {DayOf(s) : s \in IF job[m].existed
                                THEN {s \in job[m].found : Stale(m, s)} ELSE job[m].found}
         /\ \A s \in Sources : job'[m].offsets[s] =
              IF s \in job[m].found /\ DayOf(s) \in job'[m].rebuild
              THEN 0 ELSE job[m].offsets[s]
<1> DEFINE days == {DayOf(s) : s \in IF job[m].existed
                                THEN {s \in job[m].found : Stale(m, s)} ELSE job[m].found}
           rows == [s \in Sources |-> IF s \in job[m].found /\ DayOf(s) \in days
                                      THEN 0 ELSE job[m].offsets[s]]
           new == [job[m] EXCEPT !.rebuild = days, !.offsets = rows]
<1>1. job' = [job EXCEPT ![m] = new] BY DEF FindRebuilds, TypeOK
<1>2. job[m] \in JobType BY DEF TypeOK, JobType
<1>3. days \in SUBSET Days BY <1>2, DaysAssumption DEF JobType
<1>4. rows \in Offsets BY <1>2 DEF JobType, Offsets
<1>5. /\ new \in JobType /\ new.found = job[m].found /\ new.batch = job[m].batch
      /\ new.rebuild = days /\ new.offsets = rows
  <2> HIDE DEF days, rows
  <2> QED BY <1>2, <1>3, <1>4 DEF JobType
<1>6. job \in [Mergers -> JobType] BY DEF TypeOK, JobType
<1>7. job'[m] = new /\ job' \in [Mergers -> JobType] /\ \A n \in Mergers \ {m} : job'[n] = job[n]
  <2> HIDE DEF new
  <2> QED BY <1>1, <1>5, <1>6
<1> HIDE DEF new
<1> QED BY <1>5, <1>7

LEMMA MeasureFacts ==
  ASSUME TypeOK, NEW m \in Mergers, Measure(m)
  PROVE  /\ job' \in [Mergers -> JobType] /\ \A n \in Mergers \ {m} : job'[n] = job[n]
         /\ job'[m].found = job[m].found /\ job'[m].batch = job[m].batch
         /\ job'[m].rebuild = job[m].rebuild /\ job'[m].offsets = job[m].offsets
         /\ \A s \in job[m].found : job'[m].snapshots[s] = Size(s)
<1> DEFINE sizes == [s \in Sources |-> IF s \in job[m].found THEN Size(s) ELSE 0]
           new == [job[m] EXCEPT !.snapshots = sizes]
<1>1. job' = [job EXCEPT ![m] = new] BY DEF Measure, TypeOK
<1>2. job[m] \in JobType BY DEF TypeOK, JobType
<1>3. sizes \in Offsets BY SizeType DEF Offsets
<1>4. /\ new \in JobType /\ new.found = job[m].found /\ new.batch = job[m].batch
      /\ new.rebuild = job[m].rebuild /\ new.offsets = job[m].offsets
      /\ new.snapshots = sizes
  <2> HIDE DEF sizes
  <2> QED BY <1>2, <1>3 DEF JobType
<1>5. job \in [Mergers -> JobType] BY DEF TypeOK, JobType
<1>6. job'[m] = new /\ job' \in [Mergers -> JobType] /\ \A n \in Mergers \ {m} : job'[n] = job[n]
  <2> HIDE DEF new
  <2> QED BY <1>1, <1>4, <1>5
<1>7. \A s \in job[m].found : s \in Sources BY <1>2 DEF JobType
<1> HIDE DEF new
<1> QED BY <1>4, <1>6, <1>7

LEMMA ReadFacts ==
  ASSUME TypeOK, NEW m \in Mergers, Read(m)
  PROVE  /\ job' \in [Mergers -> JobType] /\ \A n \in Mergers \ {m} : job'[n] = job[n]
         /\ job'[m].found = job[m].found /\ job'[m].rebuild = job[m].rebuild
         /\ job'[m].batch =
              UNION {RecordsBetween(s, job[m].offsets[s], job[m].snapshots[s]) :
                       s \in job[m].found}
         /\ \A s \in Sources : job'[m].offsets[s] =
              IF s \in job[m].found
              THEN Consumed(s, job[m].offsets[s], job[m].snapshots[s])
              ELSE job[m].offsets[s]
<1> DEFINE hand == UNION {RecordsBetween(s, job[m].offsets[s], job[m].snapshots[s]) :
                            s \in job[m].found}
           rows == [s \in Sources |->
                      IF s \in job[m].found
                      THEN Consumed(s, job[m].offsets[s], job[m].snapshots[s])
                      ELSE job[m].offsets[s]]
           new == [job[m] EXCEPT !.batch = hand, !.offsets = rows]
<1>1. job' = [job EXCEPT ![m] = new] BY DEF Read, TypeOK
<1>2. job[m] \in JobType BY DEF TypeOK, JobType
<1>3. hand \in SUBSET Records BY DEF RecordsBetween, Current
<1>4. rows \in Offsets BY <1>2, ConsumedType DEF JobType, Offsets
<1>5. /\ new \in JobType /\ new.found = job[m].found /\ new.batch = hand
      /\ new.rebuild = job[m].rebuild /\ new.offsets = rows
  <2> HIDE DEF hand, rows
  <2> QED BY <1>2, <1>3, <1>4 DEF JobType
<1>6. job \in [Mergers -> JobType] BY DEF TypeOK, JobType
<1>7. job'[m] = new /\ job' \in [Mergers -> JobType] /\ \A n \in Mergers \ {m} : job'[n] = job[n]
  <2> HIDE DEF new
  <2> QED BY <1>1, <1>5, <1>6
<1> HIDE DEF new
<1> QED BY <1>5, <1>7

LEMMA MergeType ==
  ASSUME TypeOK, NEW m \in Mergers, MergeStep(m) PROVE TypeOK'
<1> USE DEF sources, main, saved, troubles
<1>1. CASE NoComponents(m) BY <1>1, ReturnType DEF NoComponents, TypeOK, JobType
<1>2. CASE LoadState(m)
  BY <1>2, LoadFacts DEF LoadState, TypeOK, JobType, Goto, Places
<1>3. CASE FindRebuilds(m)
  BY <1>3, RebuildFacts DEF FindRebuilds, TypeOK, JobType, Goto, Places
<1>4. CASE Measure(m)
  BY <1>4, MeasureFacts DEF Measure, TypeOK, JobType, Goto, Places
<1>5. CASE Read(m)
  BY <1>5, ReadFacts DEF Read, TypeOK, JobType, Goto, Places
<1>6. CASE OpenOutput(m)
  <2>1. DayInHand(m) \in Days BY <1>6, DayInHandIs DEF OpenOutput
  <2>2. merged' \in [Records -> 0..2] BY <1>6 DEF OpenOutput, TypeOK
  <2> QED BY <1>6, <2>1, <2>2 DEF OpenOutput, TypeOK, Goto, Places
<1>7. CASE Flush(m)
  <2>1. merged' \in [Records -> 0..2] BY <1>7, PutType DEF Flush
  <2>2. job' \in [Mergers -> JobType] BY <1>7 DEF Flush, TypeOK, JobType
  <2> QED BY <1>7, <2>1, <2>2 DEF Flush, TypeOK, JobType, Goto, Places
<1>8. CASE WriteTemp(m)
  BY <1>8 DEF WriteTemp, TypeOK, Goto, Places
<1>9. CASE MoveTemp(m)
  BY <1>9, ReturnType DEF MoveTemp, TypeOK, JobType
<1>10. CASE MoveFails(m)
  BY <1>10, ReturnType, MishapType DEF MoveFails, TypeOK, JobType
<1> QED BY <1>1, <1>2, <1>3, <1>4, <1>5, <1>6, <1>7, <1>8, <1>9, <1>10 DEF MergeStep

LEMMA TroubleType ==
  ASSUME TypeOK, NEW m \in Mergers, Trouble(m) PROVE TypeOK'
<1> USE DEF sources, main, saved
<1>1. mishaps' \in 0..MaxMishaps
  BY MishapType DEF Trouble, OpenFails, FlushFails, CloseFails, TempFails, TempCut, Killed
<1>2. CASE OpenFails(m) \/ TempFails(m)
  BY <1>1, <1>2, ReturnType DEF OpenFails, TempFails, TypeOK, JobType
<1>3. CASE FlushFails(m)
  BY <1>1, <1>3, ReturnType, PutType DEF FlushFails, TypeOK, JobType
<1>4. CASE CloseFails(m)
  <2>1. merged' \in [Records -> 0..2] BY <1>4, PutType DEF CloseFails
  <2>2. job' \in [Mergers -> JobType] BY <1>4 DEF CloseFails, TypeOK, JobType
  <2> QED BY <1>1, <1>4, <2>1, <2>2 DEF CloseFails, TypeOK, JobType, Goto, Places
<1>5. CASE TempCut(m)
  <2>1. temp' \in Offsets
    BY <1>5 DEF TempCut, TypeOK, Offsets
  <2> QED BY <1>1, <1>5, <2>1 DEF TempCut, TypeOK, Goto, Places
<1>6. CASE Killed(m)
  <2>1. merged' \in [Records -> 0..2] BY <1>6, PutType DEF Killed, TypeOK
  <2>2. job' \in [Mergers -> JobType] BY <1>6, NoJobType DEF Killed, TypeOK, JobType
  <2>3. signaled' \in BOOLEAN BY <1>6 DEF Killed, TypeOK
  <2> QED BY <1>1, <1>6, <2>1, <2>2, <2>3 DEF Killed, TypeOK, JobType, Goto, Places
<1> QED BY <1>2, <1>3, <1>4, <1>5, <1>6 DEF Trouble

LEMMA NextType == TypeOK /\ RoomInv /\ [Next]_vars => TypeOK' /\ RoomInv'
<1> SUFFICES ASSUME TypeOK, RoomInv, [Next]_vars PROVE TypeOK' /\ RoomInv' OBVIOUS
<1>1. CASE SignalShutdown
  BY <1>1 DEF SignalShutdown, TypeOK, RoomInv, sources, main, saved, troubles
<1>2. CASE UNCHANGED vars
  BY <1>2 DEF vars, TypeOK, RoomInv, sources, main, saved, troubles
<1>3. ASSUME UNCHANGED sources PROVE RoomInv' BY <1>3 DEF sources, RoomInv
<1>4. ASSUME NEW m \in Mergers, Start(m) \/ Run(m) \/ MergeStep(m) \/ Trouble(m)
      PROVE  UNCHANGED sources
  BY <1>4 DEF Start, Run, FirstMerge, IntervalEnds, MergeAgain, HostedEnds, MergeStep,
     NoComponents, LoadState, FindRebuilds, Measure, Read, OpenOutput, Flush, WriteTemp,
     MoveTemp, MoveFails, Trouble, OpenFails, FlushFails, CloseFails, TempFails, TempCut,
     Killed
<1>5. ASSUME NEW day \in Days, DeleteOutput(day) PROVE UNCHANGED sources
  BY <1>5 DEF DeleteOutput
<1> QED BY <1>1, <1>2, <1>3, <1>4, <1>5, SourceType, DeleteOutputType, RunType, MergeType,
      TroubleType DEF Next

\* Every variable keeps its type, and a record in a component log its room.
THEOREM TypeCorrect == Spec => [](TypeOK /\ RoomInv)
BY InitType, NextType, PTL DEF Spec

(***************************************************************************)
(* What a merge holds in hand, and what the main logs hold.                *)
(***************************************************************************)

LEMMA SameComplete ==
  ASSUME UNCHANGED <<file, whole>>
  PROVE  Complete' = Complete /\ \A s : Current(s)' = Current(s)
BY DEF Complete, Current

LEMMA CurrentSource ==
  ASSUME NEW s, NEW r \in Current(s) PROVE r \in Records /\ r.source = s
BY DEF Current

LEMMA CompleteIs == \A r : r \in Complete <=> r \in Records /\ r \in Current(r.source)
BY RecordFields DEF Complete, Current

LEMMA EndGrows ==
  ASSUME TypeOK, NEW s \in Sources, EndRecord(s)
  PROVE  Complete \subseteq Complete' /\ \A q : Current(q) \subseteq Current(q)'
<1>1. \A q \in Sources : whole[q] <= whole'[q] BY BoundsAssumption DEF TypeOK, EndRecord
<1>2. UNCHANGED file BY DEF EndRecord
<1>3. ASSUME NEW q, NEW r \in Current(q) PROVE r \in Current(q)'
  <2>1. q \in Sources /\ r \in Records /\ r.source = q /\ r.index \in 1..MaxRecords
        /\ r.file = file[q] /\ r.index <= whole[q]
    BY <1>3, RecordFields DEF Current
  <2>2. whole[q] \in Nat /\ whole'[q] \in Nat /\ whole[q] <= whole'[q]
    BY <1>1, <2>1, BoundsAssumption DEF TypeOK, EndRecord
  <2>3. r.index \in Nat BY <2>1, BoundsAssumption
  <2>4. r.index <= whole'[q] BY <2>1, <2>2, <2>3
  <2> QED BY <1>2, <2>1, <2>4 DEF Current
<1> QED BY <1>3 DEF Complete

\* A process that nothing happens to.
LEMMA HandKept ==
  ASSUME NEW m \in Mergers, HandInv(m), at'[m] = at[m], job'[m] = job[m],
         Complete \subseteq Complete',
         at[m] = "flushing" => outputs \subseteq outputs'
  PROVE  HandInv(m)'
<1>1. DayInHand(m)' = DayInHand(m) BY DEF DayInHand
<1> QED BY <1>1 DEF HandInv, Loaded, BeforeRead, AfterRead

\* A process that leaves merge_once.
LEMMA HandDropped ==
  ASSUME NEW m \in Mergers, job'[m] = NoJob, ~AfterRead(m)'
  PROVE  HandInv(m)'
BY DEF HandInv, Loaded, BeforeRead, AfterRead, NoJob

LEMMA PutCovers ==
  ASSUME TypeOK, NEW records, Put(records)
  PROVE  \A r \in Records : /\ r \notin records => merged'[r] = merged[r]
                            /\ r \in records => merged'[r] > 0
                            /\ merged'[r] >= merged[r]
                            /\ r \in records /\ merged[r] = 0 => merged'[r] = 1
BY DEF TypeOK, Put, UpToTwo

LEMMA SourceHand ==
  ASSUME TypeOK, JobInv, NEW s \in Sources, Write(s) \/ DeleteSource(s) PROVE JobInv'
<1>1. UNCHANGED <<at, job, outputs, merged>>
  BY DEF Write, BeginRecord, EndRecord, DeleteSource, main
<1>2. CASE Write(s)
  <2>1. Complete \subseteq Complete'
    BY <1>2, SameComplete, EndGrows DEF Write, BeginRecord
  <2> QED BY <1>1, <2>1, HandKept DEF JobInv
<1>3. CASE DeleteSource(s)
  <2>1. \A m \in Mergers : ~Loaded(m)
    BY <1>3 DEF DeleteSource, Merging, Loaded, BeforeRead, AfterRead
  <2>2. \A m \in Mergers : job[m] = NoJob BY <2>1 DEF JobInv, HandInv
  <2> QED BY <1>1, <2>1, <2>2, HandDropped DEF JobInv, Loaded, AfterRead
<1> QED BY <1>2, <1>3

LEMMA DeleteOutputHand ==
  ASSUME TypeOK, JobInv, NEW day \in Days, DeleteOutput(day) PROVE JobInv'
<1>1. UNCHANGED <<sources, at, job>> /\ \A m \in Mergers : at[m] # "flushing"
  BY DEF DeleteOutput
<1>2. \A m \in Mergers : HandInv(m)' BY <1>1, SameComplete, HandKept DEF JobInv, sources
<1>3. \A r \in Records : merged'[r] > 0 => DayOf(r.source) \in outputs'
  BY DEF DeleteOutput, JobInv, RecordsOf
<1> QED BY <1>2, <1>3 DEF JobInv

LEMMA RunHand ==
  ASSUME TypeOK, JobInv, NEW m \in Mergers, Start(m) \/ Run(m) PROVE JobInv'
<1>1. /\ UNCHANGED <<sources, main, job>> /\ ~Loaded(m) /\ ~Loaded(m)'
      /\ \A n \in Mergers \ {m} : at'[n] = at[n]
  BY DEF Start, Run, FirstMerge, IntervalEnds, MergeAgain, HostedEnds, Goto, Loaded, BeforeRead,
     AfterRead, TypeOK
<1>2. HandInv(m)' BY <1>1, HandDropped DEF JobInv, HandInv, Loaded
<1> QED BY <1>1, <1>2, SameComplete, HandKept DEF JobInv, sources, main

\* What the other processes see of a step of m that returns from merge_once.
LEMMA ReturnHand ==
  ASSUME TypeOK, JobInv, NEW m \in Mergers, UNCHANGED <<sources, outputs>>,
         Return(m) \/ (Goto(m, "down") /\ job' = [job EXCEPT ![m] = NoJob]),
         \A r \in Records : merged'[r] > 0 => DayOf(r.source) \in outputs
  PROVE  JobInv'
<1>1. /\ job'[m] = NoJob /\ at'[m] \in {"waiting", "down"}
      /\ \A n \in Mergers \ {m} : at'[n] = at[n] /\ job'[n] = job[n]
  BY DEF Return, Goto, TypeOK
<1>2. HandInv(m)' BY <1>1, HandDropped DEF AfterRead
<1> QED BY <1>1, <1>2, SameComplete, HandKept DEF JobInv, sources

LEMMA BatchStands ==
  ASSUME TypeOK, JobInv, NEW m \in Mergers, at[m] = "flushing",
         NEW done \in SUBSET Batch(m), Put(done)
  PROVE  \A r \in Records : merged'[r] > 0 => DayOf(r.source) \in outputs
<1>1. \A r \in done : DayOf(r.source) \in outputs
  BY DEF Batch, RecordsOf, JobInv, HandInv
<1> QED BY <1>1, PutCovers DEF JobInv

LEMMA BatchDone ==
  ASSUME TypeOK, JobInv, NEW m \in Mergers, at[m] = "flushing", UNCHANGED <<sources, outputs>>,
         Goto(m, "opening"), job' = [job EXCEPT ![m].batch = @ \ Batch(m)],
         NEW done \in SUBSET Batch(m), Put(done)
  PROVE  JobInv'
<1>1. /\ job'[m].batch = job[m].batch \ Batch(m) /\ at'[m] = "opening"
      /\ \A n \in Mergers \ {m} : at'[n] = at[n] /\ job'[n] = job[n]
  BY DEF Goto, TypeOK
<1>2. HandInv(m)'
  BY <1>1, SameComplete DEF JobInv, HandInv, Loaded, BeforeRead, AfterRead, sources
<1> QED BY <1>1, <1>2, SameComplete, HandKept, BatchStands DEF JobInv, sources

LEMMA MergeHand ==
  ASSUME TypeOK, JobInv, NEW m \in Mergers, MergeStep(m) PROVE JobInv'
<1>1. CASE NoComponents(m) \/ MoveTemp(m) \/ MoveFails(m)
  BY <1>1, ReturnHand DEF NoComponents, MoveTemp, MoveFails, main, JobInv
<1>2. ASSUME UNCHANGED <<sources, main>>, Loaded(m)', ~AfterRead(m)', job'[m].batch = {},
             \A n \in Mergers \ {m} : at'[n] = at[n] /\ job'[n] = job[n]
      PROVE  JobInv'
  <2>1. HandInv(m)' BY <1>2 DEF HandInv, AfterRead
  <2> QED BY <1>2, <2>1, SameComplete, HandKept DEF JobInv, sources, main
<1>3. CASE LoadState(m) \/ FindRebuilds(m) \/ Measure(m)
  <2>1. job[m].batch = {} BY <1>3 DEF JobInv, HandInv, AfterRead, LoadState, FindRebuilds, Measure
  <2> QED BY <1>2, <1>3, <2>1, LoadFacts, RebuildFacts, MeasureFacts
       DEF LoadState, FindRebuilds, Measure, Goto, TypeOK, Loaded, BeforeRead, AfterRead
<1>4. CASE WriteTemp(m)
  BY <1>2, <1>4 DEF WriteTemp, Goto, TypeOK, Loaded, BeforeRead, AfterRead
<1>5. CASE Read(m)
  <2>1. job'[m].batch \subseteq Complete
    <3>1. job[m].found \subseteq Sources BY DEF TypeOK
    <3> QED BY <1>5, <3>1, ReadFacts DEF RecordsBetween, Complete
  <2>2. UNCHANGED <<sources, main>> /\ at'[m] = "opening"
        /\ \A n \in Mergers \ {m} : at'[n] = at[n] /\ job'[n] = job[n]
    BY <1>5, ReadFacts DEF Read, Goto, TypeOK
  <2>3. HandInv(m)'
    BY <2>1, <2>2, SameComplete DEF HandInv, Loaded, BeforeRead, AfterRead, sources
  <2> QED BY <2>2, <2>3, SameComplete, HandKept DEF JobInv, sources, main
<1>6. CASE OpenOutput(m)
  <2>1. /\ UNCHANGED <<sources, job>> /\ at'[m] = "flushing" /\ job[m].batch # {}
        /\ at[m] = "opening" /\ outputs' = outputs \cup {DayInHand(m)}
        /\ \A n \in Mergers \ {m} : at'[n] = at[n]
    BY <1>6 DEF OpenOutput, Goto, TypeOK
  <2>2. DayInHand(m)' = DayInHand(m) BY <2>1 DEF DayInHand
  <2>3. HandInv(m)'
    BY <2>1, <2>2, SameComplete DEF JobInv, HandInv, Loaded, BeforeRead, AfterRead, sources
  <2>4. \A r \in Records : merged'[r] > 0 => merged[r] > 0
    BY <1>6 DEF OpenOutput
  <2> QED BY <2>1, <2>3, <2>4, SameComplete, HandKept DEF JobInv, sources
<1>7. CASE Flush(m)
  BY <1>7, BatchDone DEF Flush
<1> QED BY <1>1, <1>3, <1>4, <1>5, <1>6, <1>7 DEF MergeStep

LEMMA TroubleHand ==
  ASSUME TypeOK, JobInv, NEW m \in Mergers, Trouble(m) PROVE JobInv'
<1>1. CASE OpenFails(m) \/ TempFails(m)
  BY <1>1, ReturnHand DEF OpenFails, TempFails, main, JobInv
<1>2. CASE FlushFails(m)
  BY <1>2, ReturnHand, BatchStands DEF FlushFails
<1>3. CASE CloseFails(m)
  BY <1>3, BatchDone DEF CloseFails
<1>4. CASE TempCut(m)
  <2>1. /\ UNCHANGED <<sources, main, job>> /\ at[m] = "opening" /\ at'[m] = "moving"
        /\ job[m].batch = {} /\ \A n \in Mergers \ {m} : at'[n] = at[n]
    BY <1>4 DEF TempCut, Goto, TypeOK
  <2>2. HandInv(m)' BY <2>1 DEF HandInv, Loaded, AfterRead
  <2> QED BY <2>1, <2>2, SameComplete, HandKept DEF JobInv, sources, main
<1>5. CASE Killed(m)
  <2>1. \A r \in Records : merged'[r] > 0 => DayOf(r.source) \in outputs
    BY <1>5, BatchStands DEF Killed, JobInv
  <2> QED BY <1>5, <2>1, ReturnHand DEF Killed
<1> QED BY <1>1, <1>2, <1>3, <1>4, <1>5 DEF Trouble

LEMMA NextHand == TypeOK /\ JobInv /\ [Next]_vars => JobInv'
<1> SUFFICES ASSUME TypeOK, JobInv, [Next]_vars PROVE JobInv' OBVIOUS
<1>1. CASE SignalShutdown \/ UNCHANGED vars
  BY <1>1, SameComplete, HandKept DEF SignalShutdown, vars, JobInv, sources, main
<1> QED BY <1>1, SourceHand, DeleteOutputHand, RunHand, MergeHand, TroubleHand DEF Next

LEMMA InitHand == Init => JobInv
BY DEF Init, JobInv, HandInv, Loaded, BeforeRead, AfterRead, NoJob

\* In every reachable state.
THEOREM HandsAreRight == Spec => [](TypeOK /\ RoomInv /\ JobInv)
BY InitType, InitHand, NextType, NextHand, PTL DEF Spec

\* No record gets into a main log before it is complete, or from a file that is
\* gone, whatever is deleted, killed or fails.
THEOREM MergesOnlyComplete == Spec => OnlyComplete
<1>1. ASSUME TypeOK, JobInv, Next, NEW r \in Records, merged'[r] > merged[r]
      PROVE  r \in Current(r.source)
  <2>1. merged' # merged /\ merged[r] \in 0..2 BY <1>1 DEF TypeOK
  <2>2. PICK m \in Mergers : /\ at[m] = "flushing"
                             /\ \E done \in SUBSET Batch(m) : Put(done)
    <3>1. ~\E s \in Sources : Write(s) \/ DeleteSource(s)
      BY <2>1 DEF Write, BeginRecord, EndRecord, DeleteSource, main
    <3>2. ~\E day \in Days : DeleteOutput(day)
      BY <1>1, <2>1 DEF DeleteOutput
    <3>3. ~\E m \in Mergers : Start(m) \/ Run(m)
      BY <2>1 DEF Start, Run, FirstMerge, IntervalEnds, MergeAgain, HostedEnds, main
    <3>4. ~SignalShutdown BY <2>1 DEF SignalShutdown, main
    <3>5. PICK m \in Mergers : MergeStep(m) \/ Trouble(m)
      BY <1>1, <3>1, <3>2, <3>3, <3>4 DEF Next
    <3>6. ~OpenOutput(m) BY <1>1, <2>1 DEF OpenOutput
    <3>7. Flush(m) \/ FlushFails(m) \/ CloseFails(m) \/ Killed(m)
      BY <2>1, <3>5, <3>6 DEF MergeStep, NoComponents, LoadState, FindRebuilds, Measure, Read,
         WriteTemp, MoveTemp, MoveFails, Trouble, OpenFails, TempFails, TempCut, main
    <3>8. Batch(m) \in SUBSET Batch(m) OBVIOUS
    <3> QED BY <2>1, <3>7, <3>8 DEF Flush, FlushFails, CloseFails, Killed
  <2>3. r \in Batch(m) BY <1>1, <2>1, <2>2, PutCovers
  <2> QED BY <1>1, <2>3, CompleteIs DEF Batch, JobInv, HandInv
<1>2. TypeOK /\ JobInv /\ [Next]_vars =>
        [\A r \in Records : merged'[r] > merged[r] => r \in Current(r.source)]_vars
  BY <1>1
<1> QED BY <1>2, HandsAreRight, PTL DEF Spec, OnlyComplete

(***************************************************************************)
(* Nothing is lost.                                                        *)
(***************************************************************************)

\* What Aligned and Covered say of offsets does not change with the sources.
SameView == \A o \in Offsets : Aligned(o) =>
  Aligned(o)' /\ \A s \in Sources : Covered(o, s)' = Covered(o, s)
Grows == /\ SameView /\ \A r \in Records : merged[r] > 0 => merged'[r] > 0
         /\ \A s \in Sources : Size(s)' \in Nat /\ Size(s) <= Size(s)'

LEMMA SameSources == ASSUME UNCHANGED sources PROVE SameView /\ \A s : Size(s)' = Size(s)
BY DEF SameView, Aligned, Covered, Current, Size, sources

LEMMA WriteGrows ==
  ASSUME TypeOK, NEW q \in Sources, Write(q)
  PROVE  Grows
<1>1. /\ UNCHANGED <<file, merged>>
      /\ \A s \in Sources : whole[s] \in Nat /\ whole'[s] \in Nat /\ whole[s] <= whole'[s]
  BY BoundsAssumption DEF Write, BeginRecord, EndRecord, main, TypeOK
<1>2. \A s \in Sources : Size(s)' \in Nat /\ Size(s) <= Size(s)'
  BY BoundsAssumption DEF Write, BeginRecord, EndRecord, TypeOK, Size
<1>3. ASSUME NEW o \in Offsets, Aligned(o) PROVE Aligned(o)'
  BY <1>1, <1>3 DEF Aligned, Offsets
<1>4. ASSUME NEW o \in Offsets, Aligned(o), NEW s \in Sources
      PROVE  Covered(o, s)' = Covered(o, s)
  <2>1. o[s] \in Nat /\ o[s] <= 2 * whole[s] BY <1>4 DEF Aligned, Offsets
  <2>2. \A r \in Records : r.index \in Nat BY RecordFields, BoundsAssumption
  <2>3. \A r \in Records : 2 * r.index <= o[s] => r.index <= whole[s] /\ r.index <= whole'[s]
    BY <1>1, <2>1, <2>2
  <2> QED BY <1>1, <2>3 DEF Covered, Current
<1> QED BY <1>1, <1>2, <1>3, <1>4 DEF Grows, SameView

LEMMA BackedGrows ==
  ASSUME NEW o \in Offsets, NEW b, NEW c, SameView, Aligned(o), Backed(o, b),
         \A r \in Records : merged[r] > 0 \/ r \in b => merged'[r] > 0 \/ r \in c
  PROVE  Aligned(o)' /\ Backed(o, c)'
<1>1. \A s \in Sources : Covered(o, s)' = Covered(o, s) BY DEF SameView
<1>2. \A s \in Sources : Covered(o, s) \subseteq Records BY DEF Covered, Current
<1> QED BY <1>1, <1>2 DEF SameView, Backed

\* A process that nothing happens to.
LEMMA LossKept ==
  ASSUME TypeOK, NEW m \in Mergers, HandInv(m), LossFor(m), at'[m] = at[m], job'[m] = job[m],
         Grows, state' = NoState <=> state = NoState,
         temp' = temp \/ temp' = NoState \/ (Aligned(temp)' /\ Backed(temp, {})')
  PROVE  LossFor(m)'
<1>1. PICK j : j = job[m] /\ j = job'[m] OBVIOUS
<1>2. /\ j.offsets \in Offsets /\ j.batch \subseteq Records /\ j.found \subseteq Sources
      /\ j.snapshots \in Offsets
  BY <1>1 DEF TypeOK
<1>3. at'[m] = "moving" /\ temp' # NoState => Aligned(temp)' /\ Backed(temp, {})'
  <2>1. CASE temp' = temp /\ temp # NoState /\ at[m] = "moving"
    <3>1. PICK o : o = temp /\ o = temp' BY <2>1
    <3>2. o \in Offsets /\ Aligned(o) /\ Backed(o, {}) BY <2>1, <3>1 DEF TypeOK, LossFor
    <3>3. Aligned(o)' /\ Backed(o, {})'
      BY <3>2, BackedGrows DEF Grows
    <3> QED BY <3>1, <3>3 DEF Aligned, Backed, Covered
  <2> QED BY <2>1
<1>4. \A s \in j.found : j.snapshots[s] <= Size(s) => j.snapshots[s] <= Size(s)'
  BY <1>2, SizeType DEF Grows, Offsets
<1>5. CASE AfterRead(m) \/ BeforeRead(m)
  <2>1. Aligned(j.offsets) /\ Backed(j.offsets, j.batch) BY <1>1, <1>5 DEF LossFor
  <2>2. Aligned(j.offsets)' /\ Backed(j.offsets, j.batch)'
    BY <1>2, <2>1, BackedGrows DEF Grows
  <2>3. \A s \in Sources : Covered(j.offsets, s)' = Covered(j.offsets, s)
    BY <1>2, <2>1 DEF Grows, SameView
  <2>4. Aligned(job[m].offsets)' /\ Backed(job[m].offsets, job[m].batch)'
        /\ \A s \in Sources : Covered(job[m].offsets, s)' = Covered(job[m].offsets, s)
    BY <1>1, <2>2, <2>3 DEF Aligned, Backed, Covered
  <2> QED BY <1>1, <1>3, <1>4, <1>5, <2>4 DEF LossFor, BeforeRead, AfterRead
<1>6. CASE ~AfterRead(m) /\ ~BeforeRead(m)
  <2>1. job[m].batch = {} BY <1>6 DEF HandInv
  <2> QED BY <1>3, <1>4, <1>6, <2>1 DEF LossFor, BeforeRead, AfterRead
<1> QED BY <1>5, <1>6

\* A process that is not between its load and its save.
LEMMA LossIdle ==
  ASSUME NEW m \in Mergers, job'[m] = NoJob, ~Loaded(m)' PROVE LossFor(m)'
<1>1. job'[m].batch = {} /\ job'[m].rebuild = {} BY DEF NoJob
<1>2. ~BeforeRead(m)' /\ ~AfterRead(m)' /\ at'[m] \notin {"checking", "reading", "moving"}
  BY DEF Loaded, BeforeRead, AfterRead
<1> QED BY <1>1, <1>2 DEF LossFor

LEMMA ZeroRows ==
  ASSUME TypeOK
  PROVE  Aligned(NoRows) /\ \A s \in Sources : Covered(NoRows, s) = {}
<1>1. \A r \in Records : r.index \in Nat /\ r.index >= 1
  BY RecordFields, BoundsAssumption
<1>2. \A s \in Sources : Covered(NoRows, s) = {}
  BY <1>1 DEF Covered, Current, NoRows
<1>3. \A s \in Sources : NoRows[s] = 0 /\ 0 <= 2 * whole[s]
  BY BoundsAssumption DEF NoRows, TypeOK
<1> QED BY <1>2, <1>3 DEF Aligned

\* A step of m that leaves merge.state, and what the other processes see of it.
LEMMA LossStep ==
  ASSUME TypeOK, JobInv, LossInv, Grows, state' = state,
         NEW m \in Mergers, \A n \in Mergers \ {m} : at'[n] = at[n] /\ job'[n] = job[n],
         temp' = temp \/ temp' = NoState \/ (Aligned(temp)' /\ Backed(temp, {})'),
         LossFor(m)'
  PROVE  LossInv'
<1>1. \A n \in Mergers : LossFor(n)'
  BY LossKept DEF LossInv, JobInv
<1>2. state # NoState => Aligned(state)' /\ Backed(state, {})'
  <2>1. SUFFICES ASSUME state # NoState PROVE Aligned(state)' /\ Backed(state, {})' OBVIOUS
  <2>2. PICK o : o = state /\ o = state' OBVIOUS
  <2>3. o \in Offsets /\ Aligned(o) /\ Backed(o, {}) BY <2>1, <2>2 DEF TypeOK, LossInv
  <2>4. Aligned(o)' /\ Backed(o, {})' BY <2>3, BackedGrows DEF Grows
  <2> QED BY <2>2, <2>4 DEF Aligned, Backed, Covered
<1> QED BY <1>1, <1>2 DEF LossInv

LEMMA MainGrows ==
  ASSUME TypeOK, UNCHANGED sources, \A r \in Records : merged[r] > 0 => merged'[r] > 0
  PROVE  Grows
<1>1. SameView /\ \A s : Size(s)' = Size(s) BY SameSources
<1> QED BY <1>1, SizeType DEF Grows

\* m leaves merge_once.
LEMMA LossReturn ==
  ASSUME TypeOK, JobInv, LossInv, UNCHANGED <<sources, saved>>, NEW m \in Mergers,
         Return(m) \/ (Goto(m, "down") /\ job' = [job EXCEPT ![m] = NoJob]),
         \A r \in Records : merged[r] > 0 => merged'[r] > 0
  PROVE  LossInv'
<1>1. /\ job'[m] = NoJob /\ at'[m] \in {"waiting", "down"}
      /\ \A n \in Mergers \ {m} : at'[n] = at[n] /\ job'[n] = job[n]
  BY DEF Return, Goto, TypeOK
<1>2. LossFor(m)' BY <1>1, LossIdle DEF Loaded, BeforeRead, AfterRead
<1> QED BY <1>1, <1>2, MainGrows, LossStep DEF saved

LEMMA LossSource ==
  ASSUME TypeOK, JobInv, LossInv, NEW s \in Sources, Write(s) PROVE LossInv'
<1>1. UNCHANGED <<saved, at, job>> BY DEF Write, BeginRecord, EndRecord
<1>2. ASSUME NEW m \in Mergers PROVE LossFor(m)'
  BY <1>1, WriteGrows, LossKept DEF LossInv, JobInv, saved
<1> QED BY <1>1, <1>2, WriteGrows, LossStep, HostedAssumption DEF saved

LEMMA LossRun ==
  ASSUME TypeOK, JobInv, LossInv, NEW m \in Mergers, Start(m) \/ Run(m) PROVE LossInv'
<1>1. /\ UNCHANGED <<sources, main, saved, job>> /\ ~Loaded(m) /\ ~Loaded(m)'
      /\ \A n \in Mergers \ {m} : at'[n] = at[n]
  BY DEF Start, Run, FirstMerge, IntervalEnds, MergeAgain, HostedEnds, Goto, Loaded, BeforeRead,
     AfterRead, TypeOK
<1>2. LossFor(m)' BY <1>1, LossIdle DEF JobInv, HandInv
<1> QED BY <1>1, <1>2, MainGrows, LossStep DEF saved, main

\* load_state: the offsets of merge.state, or none.
LEMMA LossLoad ==
  ASSUME TypeOK, JobInv, LossInv, NEW m \in Mergers, LoadState(m) PROVE LossInv'
<1>1. /\ UNCHANGED <<sources, main, saved>> /\ at'[m] = "checking" /\ at[m] = "loading"
      /\ \A n \in Mergers \ {m} : at'[n] = at[n] /\ job'[n] = job[n]
  BY LoadFacts DEF LoadState, Goto, TypeOK
<1>2. job[m] = NoJob BY <1>1 DEF JobInv, HandInv, Loaded, BeforeRead, AfterRead
<1>3. /\ job'[m].existed = (state # NoState) /\ job'[m].rebuild = {} /\ job'[m].batch = {}
      /\ job'[m].offsets = IF state = NoState THEN NoRows ELSE state
  BY <1>2, LoadFacts DEF NoJob
<1>4. PICK o : o = job'[m].offsets OBVIOUS
<1>5. o \in Offsets /\ Aligned(o) /\ Backed(o, {})
  BY <1>3, <1>4, NoRowsType, ZeroRows DEF LossInv, TypeOK, Backed
<1>6. Grows BY <1>1, MainGrows DEF main
<1>7. Aligned(o)' /\ Backed(o, {})' BY <1>5, <1>6, BackedGrows DEF Grows
<1>8. Aligned(job[m].offsets)' /\ Backed(job[m].offsets, job[m].batch)'
  BY <1>3, <1>4, <1>7 DEF Aligned, Backed, Covered
<1>9. LossFor(m)'
  BY <1>1, <1>3, <1>8 DEF LossFor, BeforeRead, AfterRead, saved
<1> QED BY <1>1, <1>6, <1>9, LossStep DEF saved

\* rebuild_dates: with a merge.state that the main logs back, there are none.
LEMMA LossRebuild ==
  ASSUME TypeOK, JobInv, LossInv, NEW m \in Mergers, FindRebuilds(m) PROVE LossInv'
<1>1. /\ UNCHANGED <<sources, main, saved>> /\ at'[m] = "measuring" /\ at[m] = "checking"
      /\ \A n \in Mergers \ {m} : at'[n] = at[n] /\ job'[n] = job[n]
  BY RebuildFacts DEF FindRebuilds, Goto, TypeOK
<1>2. /\ Aligned(job[m].offsets) /\ Backed(job[m].offsets, job[m].batch) /\ job[m].batch = {}
      /\ job[m].existed = (state # NoState) /\ (state = NoState => job[m].offsets = NoRows)
  BY <1>1 DEF LossInv, LossFor, JobInv, HandInv, BeforeRead, AfterRead
<1>3. PICK o : o = job[m].offsets OBVIOUS
<1>4. o \in Offsets /\ job[m].found \subseteq Sources BY <1>3 DEF TypeOK
<1>5. \A s \in Sources : ~Stale(m, s)
  <2>1. SUFFICES ASSUME NEW s \in Sources PROVE ~Stale(m, s) OBVIOUS
  <2>2. o[s] \in Nat /\ o[s] % 2 = 0 /\ o[s] <= 2 * whole[s] /\ whole[s] \in 0..MaxRecords
    BY <1>2, <1>3, <1>4 DEF Aligned, Offsets, TypeOK
  <2>3. ~(Size(s) < o[s])
    <3>1. whole[s] \in Nat BY <2>2, BoundsAssumption
    <3> QED BY <2>2, <3>1, SizeType
  <2>4. ASSUME o[s] > 0 PROVE DayOf(s) \in outputs
    <3> DEFINE r == [source |-> s, file |-> file[s], index |-> 1]
    <3>1. 2 <= o[s] /\ 1 <= whole[s] /\ 1 \in 1..MaxRecords
      BY <2>2, <2>4, BoundsAssumption
    <3>2. r \in Records BY <3>1 DEF Records, TypeOK
    <3>3. r \in Covered(o, s) BY <3>1, <3>2 DEF Covered, Current
    <3>4. merged[r] > 0 BY <1>2, <1>3, <3>3 DEF Backed
    <3> QED BY <3>2, <3>4 DEF JobInv
  <2> QED BY <1>3, <2>3, <2>4 DEF Stale
<1>6. \A s \in Sources : job'[m].offsets[s] = o[s]
  <2>1. CASE state # NoState
    <3>1. job'[m].rebuild = {} BY <1>2, <1>4, <1>5, <2>1, RebuildFacts
    <3> QED BY <1>3, <3>1, RebuildFacts
  <2>2. CASE state = NoState
    BY <1>2, <1>3, <2>2, RebuildFacts DEF NoRows
  <2> QED BY <2>1, <2>2
<1>7. job'[m].offsets = o
  <2>1. job'[m].offsets \in Offsets BY RebuildFacts DEF JobType
  <2> QED BY <1>4, <1>6, <2>1 DEF Offsets
<1>8. Grows BY <1>1, MainGrows DEF main
<1>9. Aligned(o)' /\ Backed(o, {})' BY <1>2, <1>3, <1>4, <1>8, BackedGrows DEF Grows
<1>10. job'[m].batch = {} BY <1>2, RebuildFacts
<1>11. Aligned(job[m].offsets)' /\ Backed(job[m].offsets, job[m].batch)'
  BY <1>7, <1>9, <1>10 DEF Aligned, Backed, Covered
<1>12. state # NoState => job'[m].rebuild = {} BY <1>2, <1>4, <1>5, RebuildFacts
<1>13. \A s \in Sources : DayOf(s) \in job'[m].rebuild => job'[m].offsets[s] = 0
  BY <1>2, <1>3, <1>7, <1>12 DEF NoRows
<1>14. LossFor(m)'
  BY <1>1, <1>10, <1>11, <1>12, <1>13 DEF LossFor, BeforeRead, AfterRead, saved
<1> QED BY <1>1, <1>8, <1>14, LossStep DEF saved

LEMMA LossMeasure ==
  ASSUME TypeOK, JobInv, LossInv, NEW m \in Mergers, Measure(m) PROVE LossInv'
<1>1. /\ UNCHANGED <<sources, main, saved>> /\ at'[m] = "reading" /\ at[m] = "measuring"
      /\ \A n \in Mergers \ {m} : at'[n] = at[n] /\ job'[n] = job[n]
  BY MeasureFacts DEF Measure, Goto, TypeOK
<1>2. /\ Aligned(job[m].offsets) /\ Backed(job[m].offsets, job[m].batch) /\ job[m].batch = {}
      /\ state # NoState => job[m].rebuild = {}
      /\ \A s \in Sources : DayOf(s) \in job[m].rebuild => job[m].offsets[s] = 0
  BY <1>1 DEF LossInv, LossFor, JobInv, HandInv, BeforeRead, AfterRead
<1>3. PICK o : o = job[m].offsets OBVIOUS
<1>4. o \in Offsets /\ job[m].found \subseteq Sources BY <1>3 DEF TypeOK
<1>5. Grows BY <1>1, MainGrows DEF main
<1>6. Aligned(o)' /\ Backed(o, {})' BY <1>2, <1>3, <1>4, <1>5, BackedGrows DEF Grows
<1>7. /\ job'[m].batch = {} /\ job'[m].offsets = o /\ job'[m].rebuild = job[m].rebuild
      /\ job'[m].found = job[m].found /\ \A s \in job[m].found : job'[m].snapshots[s] = Size(s)
  BY <1>2, <1>3, MeasureFacts
<1>8. Aligned(job[m].offsets)' /\ Backed(job[m].offsets, job[m].batch)'
  BY <1>6, <1>7 DEF Aligned, Backed, Covered
<1>9. \A s \in job'[m].found : job'[m].snapshots[s] <= Size(s)'
  BY <1>1, <1>4, <1>7, SizeType, SameSources
<1>10. LossFor(m)'
  BY <1>1, <1>2, <1>3, <1>7, <1>8, <1>9 DEF LossFor, BeforeRead, AfterRead, saved
<1> QED BY <1>1, <1>5, <1>10, LossStep DEF saved

\* read_records: the new offset stands behind the last complete record, and what
\* it passed is in hand.
LEMMA ConsumedIs ==
  ASSUME TypeOK, NEW s \in Sources, NEW from \in Nat, NEW to \in Nat,
         from % 2 = 0, from <= 2 * whole[s], to <= Size(s)
  PROVE  /\ Consumed(s, from, to) % 2 = 0 /\ Consumed(s, from, to) <= 2 * whole[s]
         /\ from <= Consumed(s, from, to)
         /\ \A r \in Current(s) : 2 * r.index <= Consumed(s, from, to) =>
              2 * r.index <= from \/ r \in RecordsBetween(s, from, to)
<1>1. whole[s] \in Nat /\ to <= 2 * whole[s] + 1
  BY SizeType, BoundsAssumption DEF TypeOK
<1>2. CASE from >= to
  BY <1>1, <1>2 DEF Consumed
<1>3. CASE from < to
  <2>1. Consumed(s, from, to) = 2 * (to \div 2) BY <1>3 DEF Consumed
  <2>2. PICK k \in Nat : k = to \div 2 /\ 2 * k <= to /\ to <= 2 * k + 1 OBVIOUS
  <2>3. PICK h \in Nat : from = 2 * h OBVIOUS
  <2>4. h <= k /\ k <= whole[s] BY <1>1, <1>3, <2>2, <2>3
  <2>5. (2 * k) % 2 = 0 BY <2>2
  <2>6. ASSUME NEW r \in Current(s), 2 * r.index <= 2 * k, ~(2 * r.index <= from)
        PROVE  r \in RecordsBetween(s, from, to)
    <3>1. r.index \in Nat BY RecordFields, CurrentSource, BoundsAssumption
    <3>2. 2 * (r.index - 1) >= from /\ 2 * r.index <= to BY <2>2, <2>3, <2>6, <3>1
    <3> QED BY <2>6, <3>2 DEF RecordsBetween
  <2> QED BY <1>1, <2>1, <2>2, <2>3, <2>4, <2>5, <2>6
<1> QED BY <1>2, <1>3

\* Once a merge has read, the main logs or its hands hold what its offsets pass,
\* and of a date that is rebuilt its hands hold all of it.
LEMMA ReadBacks ==
  ASSUME TypeOK, NEW m \in Mergers, Read(m),
         Aligned(job[m].offsets), Backed(job[m].offsets, {}),
         \A s \in Sources : DayOf(s) \in job[m].rebuild => job[m].offsets[s] = 0,
         \A s \in job[m].found : job[m].snapshots[s] <= Size(s)
  PROVE  Aligned(job[m].offsets)' /\ HandBacked(m)'
<1>1. UNCHANGED <<sources, main>> BY DEF Read
<1>2. PICK o, found, snapshots :
        o = job[m].offsets /\ found = job[m].found /\ snapshots = job[m].snapshots
  OBVIOUS
<1>3. /\ Aligned(o) /\ Backed(o, {})
      /\ \A s \in Sources : DayOf(s) \in job[m].rebuild => o[s] = 0
      /\ \A s \in found : snapshots[s] <= Size(s)
  BY <1>2
<1>4. o \in Offsets /\ found \subseteq Sources /\ snapshots \in Offsets
  BY <1>2 DEF TypeOK
<1>5. PICK p, c : p = job'[m].offsets /\ c = job'[m].batch OBVIOUS
<1>6. p \in Offsets BY <1>5, ReadFacts DEF JobType
<1>7. \A s \in Sources : /\ o[s] \in Nat /\ o[s] % 2 = 0 /\ o[s] <= 2 * whole[s]
                         /\ snapshots[s] \in Nat
  BY <1>3, <1>4 DEF Aligned, Offsets
<1>8. \A s \in Sources : /\ p[s] % 2 = 0 /\ p[s] <= 2 * whole[s] /\ o[s] <= p[s]
                         /\ \A r \in Current(s) : 2 * r.index <= p[s] =>
                              2 * r.index <= o[s] \/ r \in c
  <2>1. SUFFICES ASSUME NEW s \in Sources
                 PROVE  /\ p[s] % 2 = 0 /\ p[s] <= 2 * whole[s] /\ o[s] <= p[s]
                        /\ \A r \in Current(s) : 2 * r.index <= p[s] =>
                             2 * r.index <= o[s] \/ r \in c
    OBVIOUS
  <2>2. CASE s \in found
    <3>1. p[s] = Consumed(s, o[s], snapshots[s]) BY <1>2, <1>5, <2>2, ReadFacts
    <3>2. snapshots[s] <= Size(s) BY <1>3, <2>2
    <3>3. RecordsBetween(s, o[s], snapshots[s]) \subseteq c
      BY <1>2, <1>5, <2>2, ReadFacts
    <3> QED BY <1>7, <3>1, <3>2, <3>3, ConsumedIs
  <2>3. CASE s \notin found
    <3>1. p[s] = o[s] BY <1>2, <1>5, <2>3, ReadFacts
    <3> QED BY <1>7, <3>1
  <2> QED BY <2>2, <2>3
<1>9. SameView /\ merged' = merged BY <1>1, SameSources DEF main
<1>10. Aligned(p) /\ Backed(p, c)
  <2>1. \A s \in Sources : \A r \in Covered(p, s) : 2 * r.index <= o[s] \/ r \in c
    BY <1>8 DEF Covered
  <2>2. \A s \in Sources : \A r \in Covered(p, s) : 2 * r.index <= o[s] => merged[r] > 0
    BY <1>3 DEF Covered, Backed
  <2> QED BY <1>8, <2>1, <2>2 DEF Aligned, Backed
<1>11. Aligned(p)' /\ Backed(p, c)' BY <1>6, <1>9, <1>10, BackedGrows
<1>12. \A s \in Sources : DayOf(s) \in job'[m].rebuild => Covered(p, s)' \subseteq c
  <2>1. SUFFICES ASSUME NEW s \in Sources, o[s] = 0, NEW r \in Covered(p, s)
                 PROVE  r \in c
    BY <1>3, <1>6, <1>9, <1>10, ReadFacts DEF SameView
  <2>2. r \in Current(s) /\ r \in Records /\ 2 * r.index <= p[s]
    BY <2>1 DEF Covered, Current
  <2>3. r.index \in Nat /\ r.index >= 1 BY <2>2, RecordFields, BoundsAssumption
  <2> QED BY <1>8, <2>1, <2>2, <2>3
<1> QED BY <1>5, <1>11, <1>12 DEF HandBacked, Aligned, Backed, Covered

LEMMA LossRead ==
  ASSUME TypeOK, JobInv, LossInv, NEW m \in Mergers, Read(m) PROVE LossInv'
<1>1. /\ UNCHANGED <<sources, main, saved>> /\ at'[m] = "opening" /\ at[m] = "reading"
      /\ \A n \in Mergers \ {m} : at'[n] = at[n] /\ job'[n] = job[n]
  BY ReadFacts DEF Read, Goto, TypeOK
<1>2. /\ Aligned(job[m].offsets) /\ Backed(job[m].offsets, {})
      /\ (state # NoState => job[m].rebuild = {})
      /\ \A s \in Sources : DayOf(s) \in job[m].rebuild => job[m].offsets[s] = 0
      /\ \A s \in job[m].found : job[m].snapshots[s] <= Size(s)
  BY <1>1 DEF LossInv, LossFor, JobInv, HandInv, BeforeRead, AfterRead
<1>3. Aligned(job[m].offsets)' /\ HandBacked(m)' BY <1>2, ReadBacks
<1>4. state # NoState => job'[m].rebuild = {} BY <1>2, ReadFacts
<1>5. LossFor(m)'
  BY <1>1, <1>3, <1>4 DEF HandBacked, LossFor, BeforeRead, AfterRead, saved
<1> QED BY <1>1, <1>5, MainGrows, LossStep DEF saved, main

\* A main log is emptied only when it is rebuilt; what it held is then in hand.
LEMMA OpenBacks ==
  ASSUME TypeOK, NEW m \in Mergers, OpenOutput(m), Aligned(job[m].offsets), HandBacked(m)
  PROVE  Aligned(job[m].offsets)' /\ HandBacked(m)'
<1>1. UNCHANGED <<sources, job>> /\ job[m].batch # {} BY DEF OpenOutput
<1>2. PICK o, b : o = job[m].offsets /\ b = job[m].batch OBVIOUS
<1>3. /\ Aligned(o) /\ Backed(o, b)
      /\ \A q \in b : DayOf(q.source) \in job[m].rebuild =>
           \A s \in Sources : DayOf(s) = DayOf(q.source) => Covered(o, s) \subseteq b
  BY <1>2 DEF HandBacked
<1>4. o \in Offsets BY <1>2 DEF TypeOK
<1>5. SameView BY <1>1, SameSources
<1>6. \A r \in Records : merged[r] > 0 =>
        merged'[r] > 0 \/ (DayOf(r.source) = DayInHand(m) /\ DayInHand(m) \in job[m].rebuild)
  BY DEF OpenOutput, RecordsOf
<1>7. PICK q \in b : DayOf(q.source) = DayInHand(m) BY <1>1, <1>2, DayInHandIs
<1>8. Backed(o, b)'
  <2>1. SUFFICES ASSUME NEW s \in Sources, NEW r \in Covered(o, s)
                 PROVE  merged'[r] > 0 \/ r \in b
    BY <1>3, <1>4, <1>5 DEF Backed, SameView
  <2>2. r \in Records /\ r.source = s BY <2>1 DEF Covered, Current
  <2>3. CASE merged[r] > 0 BY <1>3, <1>6, <1>7, <2>2, <2>3
  <2>4. CASE r \in b BY <2>4
  <2> QED BY <1>3, <2>3, <2>4 DEF Backed
<1>9. Aligned(o)' /\ \A s \in Sources : Covered(o, s)' = Covered(o, s)
  BY <1>3, <1>4, <1>5 DEF SameView
<1>10. job' = job BY <1>1
<1> QED BY <1>2, <1>3, <1>8, <1>9, <1>10 DEF HandBacked, Aligned, Backed, Covered

LEMMA LossOpen ==
  ASSUME TypeOK, JobInv, LossInv, Kept \/ OneMerger, NEW m \in Mergers, OpenOutput(m)
  PROVE  LossInv'
<1>1. /\ UNCHANGED <<sources, saved, job>> /\ at'[m] = "flushing" /\ at[m] = "opening"
      /\ \A n \in Mergers \ {m} : at'[n] = at[n]
  BY DEF OpenOutput, Goto, TypeOK
<1>2. Aligned(job[m].offsets) /\ HandBacked(m) /\ (state # NoState => job[m].rebuild = {})
  BY <1>1 DEF LossInv, LossFor, HandBacked, BeforeRead, AfterRead
<1>3. Aligned(job[m].offsets)' /\ HandBacked(m)' BY <1>2, OpenBacks
<1>4. state # NoState => job'[m].rebuild = {} BY <1>1, <1>2
<1>5. LossFor(m)'
  BY <1>1, <1>3, <1>4 DEF HandBacked, LossFor, BeforeRead, AfterRead, saved
<1>6. CASE state # NoState
  <2>1. merged' = merged BY <1>2, <1>6 DEF OpenOutput, TypeOK
  <2> QED BY <1>1, <1>5, <2>1, MainGrows, LossStep DEF saved
<1>7. CASE state = NoState
  <2>1. OneMerger BY <1>7 DEF LossInv
  <2>2. \A n \in Mergers : n = m BY <2>1 DEF OneMerger
  <2> QED BY <1>1, <1>5, <1>7, <2>2 DEF LossInv, saved
<1> QED BY <1>6, <1>7

\* What leaves the hands is in the main log.
LEMMA FlushBacks ==
  ASSUME TypeOK, NEW m \in Mergers, Flush(m), Aligned(job[m].offsets), HandBacked(m)
  PROVE  Grows /\ Aligned(job[m].offsets)' /\ HandBacked(m)'
<1>1. /\ UNCHANGED sources /\ job'[m].batch = job[m].batch \ Batch(m)
      /\ job'[m].offsets = job[m].offsets /\ job'[m].rebuild = job[m].rebuild /\ Put(Batch(m))
  BY DEF Flush, TypeOK
<1>2. PICK o, b, c : o = job[m].offsets /\ b = job[m].batch /\ c = job'[m].batch OBVIOUS
<1>3. /\ Aligned(o) /\ Backed(o, b)
      /\ \A q \in b : DayOf(q.source) \in job[m].rebuild =>
           \A s \in Sources : DayOf(s) = DayOf(q.source) => Covered(o, s) \subseteq b
  BY <1>2 DEF HandBacked
<1>4. o \in Offsets /\ b \subseteq Records BY <1>2 DEF TypeOK
<1>5. \A r \in Records : merged[r] > 0 => merged'[r] > 0
  <2>1. \A r \in Records : merged'[r] >= merged[r] BY <1>1, PutCovers
  <2>2. merged' \in [Records -> 0..2] BY <1>1, PutType
  <2> QED BY <2>1, <2>2 DEF TypeOK
<1>6. Grows BY <1>1, <1>5, MainGrows
<1>7. \A r \in b : merged'[r] > 0 \/ r \in c BY <1>1, <1>2, <1>4, PutCovers
<1>8. Aligned(o)' /\ Backed(o, c)' BY <1>3, <1>4, <1>5, <1>6, <1>7, BackedGrows DEF Grows
<1>9. \A q \in c : DayOf(q.source) \in job[m].rebuild =>
        \A s \in Sources : DayOf(s) = DayOf(q.source) => Covered(o, s)' \subseteq c
  <2>1. SUFFICES ASSUME NEW q \in c, DayOf(q.source) \in job[m].rebuild, NEW s \in Sources,
                        DayOf(s) = DayOf(q.source), NEW r \in Covered(o, s)
                 PROVE  r \in c
    BY <1>3, <1>4, <1>6 DEF Grows, SameView
  <2>2. q \in b /\ q \in Records /\ DayOf(q.source) # DayInHand(m)
    BY <1>1, <1>2, <1>4, <2>1 DEF Batch, RecordsOf
  <2>3. r \in b /\ r.source = s BY <1>3, <2>1, <2>2 DEF Covered, Current
  <2> QED BY <1>1, <1>2, <2>1, <2>2, <2>3 DEF Batch, RecordsOf
<1>10. job'[m].offsets = o /\ job'[m].batch = c /\ job'[m].rebuild = job[m].rebuild
  BY <1>1, <1>2
<1> QED BY <1>6, <1>8, <1>9, <1>10 DEF HandBacked, Aligned, Backed, Covered

LEMMA LossFlush ==
  ASSUME TypeOK, JobInv, LossInv, NEW m \in Mergers, Flush(m) PROVE LossInv'
<1>1. /\ UNCHANGED <<sources, saved>> /\ at'[m] = "opening" /\ at[m] = "flushing"
      /\ \A n \in Mergers \ {m} : at'[n] = at[n] /\ job'[n] = job[n]
      /\ job'[m].rebuild = job[m].rebuild
  BY DEF Flush, Goto, TypeOK
<1>2. Aligned(job[m].offsets) /\ HandBacked(m) /\ (state # NoState => job[m].rebuild = {})
  BY <1>1 DEF LossInv, LossFor, HandBacked, BeforeRead, AfterRead
<1>3. Grows /\ Aligned(job[m].offsets)' /\ HandBacked(m)' BY <1>2, FlushBacks
<1>4. LossFor(m)'
  BY <1>1, <1>2, <1>3 DEF HandBacked, LossFor, BeforeRead, AfterRead, saved
<1> QED BY <1>1, <1>3, <1>4, LossStep DEF saved

LEMMA LossTemp ==
  ASSUME TypeOK, JobInv, LossInv, NEW m \in Mergers, WriteTemp(m) PROVE LossInv'
<1>1. /\ UNCHANGED <<sources, main, state, job>> /\ at'[m] = "moving" /\ at[m] = "opening"
      /\ job[m].batch = {} /\ temp' = job[m].offsets
      /\ \A n \in Mergers \ {m} : at'[n] = at[n]
  BY DEF WriteTemp, Goto, TypeOK
<1>2. PICK o : o = job[m].offsets /\ o = temp' BY <1>1
<1>3. Aligned(o) /\ Backed(o, {}) /\ (state # NoState => job[m].rebuild = {})
  BY <1>1, <1>2 DEF LossInv, LossFor, BeforeRead, AfterRead
<1>4. Grows BY <1>1, MainGrows DEF main
<1>5. Aligned(o)' /\ Backed(o, {})'
  BY <1>2, <1>3, <1>4, BackedGrows DEF Grows, TypeOK
<1>6. Aligned(temp)' /\ Backed(temp, {})'
  BY <1>2, <1>5 DEF Aligned, Backed, Covered
<1>7. LossFor(m)' BY <1>1, <1>3, <1>6 DEF LossFor, BeforeRead, AfterRead
<1> QED BY <1>1, <1>4, <1>6, <1>7, LossStep

LEMMA LossMove ==
  ASSUME TypeOK, JobInv, LossInv, Kept \/ OneMerger, NEW m \in Mergers, MoveTemp(m)
  PROVE  LossInv'
<1>1. /\ UNCHANGED <<sources, main>> /\ at'[m] \in {"waiting", "down"} /\ at[m] = "moving"
      /\ job'[m] = NoJob /\ temp # NoState /\ state' = temp /\ temp' = NoState
      /\ \A n \in Mergers \ {m} : at'[n] = at[n] /\ job'[n] = job[n]
  BY DEF MoveTemp, Return, Goto, TypeOK
<1>2. PICK o : o = temp /\ o = state' BY <1>1
<1>3. o \in Offsets /\ Aligned(o) /\ Backed(o, {})
  BY <1>1, <1>2 DEF LossInv, LossFor, TypeOK
<1>4. Grows BY <1>1, MainGrows DEF main
<1>5. Aligned(o)' /\ Backed(o, {})' BY <1>3, <1>4, BackedGrows DEF Grows
<1>6. Aligned(state)' /\ Backed(state, {})' BY <1>2, <1>5 DEF Aligned, Backed, Covered
<1>7. LossFor(m)' BY <1>1, LossIdle DEF Loaded, BeforeRead, AfterRead
<1>8. ASSUME NEW n \in Mergers \ {m} PROVE LossFor(n)'
  <2>1. state # NoState BY <1>8 DEF OneMerger, LossInv
  <2> QED BY <1>1, <1>4, <1>8, <2>1, LossKept DEF LossInv, JobInv
<1> QED BY <1>1, <1>6, <1>7, <1>8 DEF LossInv

LEMMA LossMerge ==
  ASSUME TypeOK, JobInv, LossInv, Kept \/ OneMerger, NEW m \in Mergers, MergeStep(m)
  PROVE  LossInv'
<1>1. CASE NoComponents(m) \/ MoveFails(m)
  <2>1. UNCHANGED <<sources, main, saved>> /\ Return(m)
    BY <1>1 DEF NoComponents, MoveFails
  <2> QED BY <2>1, LossReturn DEF main
<1> QED BY <1>1, LossLoad, LossRebuild, LossMeasure, LossRead, LossOpen, LossFlush, LossTemp,
      LossMove DEF MergeStep

\* A process is killed, or cannot open a file.
LEMMA LossTrouble ==
  ASSUME TypeOK, JobInv, LossInv, ~harmed', NEW m \in Mergers, Trouble(m)
  PROVE  LossInv'
<1>1. ~FlushFails(m) /\ ~CloseFails(m) /\ ~TempCut(m)
  BY DEF FlushFails, CloseFails, TempCut, Mishap
<1>2. CASE OpenFails(m) \/ TempFails(m)
  <2>1. UNCHANGED <<sources, main, saved>> /\ Return(m)
    BY <1>2 DEF OpenFails, TempFails
  <2> QED BY <2>1, LossReturn DEF main
<1>3. CASE Killed(m)
  <2>1. \A r \in Records : merged[r] > 0 => merged'[r] > 0
    <3>1. CASE \E done : Put(done)
      <4>1. \A r \in Records : merged'[r] >= merged[r] BY <3>1, PutCovers
      <4>2. merged' \in [Records -> 0..2] BY <3>1, PutType
      <4> QED BY <4>1, <4>2 DEF TypeOK
    <3> QED BY <1>3, <3>1 DEF Killed
  <2> QED BY <1>3, <2>1, LossReturn DEF Killed
<1> QED BY <1>1, <1>2, <1>3 DEF Trouble

LEMMA NextLoss ==
  ASSUME Kept \/ OneMerger
  PROVE  TypeOK /\ JobInv /\ NoLoss /\ [Next]_vars => NoLoss'
<1> SUFFICES ASSUME TypeOK, JobInv, NoLoss, [Next]_vars, ~harmed' PROVE LossInv'
  BY DEF NoLoss
<1>1. CASE UNCHANGED vars
  <2>1. UNCHANGED <<sources, main, saved, at, job, troubles>> BY <1>1 DEF vars
  <2>2. LossInv BY <2>1 DEF NoLoss, troubles
  <2>3. Grows BY <2>1, MainGrows DEF main
  <2>4. \A m \in Mergers : LossFor(m)'
    BY <2>1, <2>2, <2>3, LossKept DEF LossInv, JobInv, saved
  <2> QED BY <2>1, <2>2, <2>3, <2>4, LossStep, HostedAssumption DEF saved
<1>2. CASE SignalShutdown
  <2>1. UNCHANGED <<sources, main, saved, at, job, troubles>> BY <1>2 DEF SignalShutdown
  <2>2. LossInv BY <2>1 DEF NoLoss, troubles
  <2>3. Grows BY <2>1, MainGrows DEF main
  <2>4. \A m \in Mergers : LossFor(m)'
    BY <2>1, <2>2, <2>3, LossKept DEF LossInv, JobInv, saved
  <2> QED BY <2>1, <2>2, <2>3, <2>4, LossStep, HostedAssumption DEF saved
<1>3. ASSUME NEW s \in Sources, Write(s) \/ DeleteSource(s) PROVE LossInv'
  <2>1. ~DeleteSource(s) BY DEF DeleteSource, Mishap
  <2>2. Write(s) /\ ~harmed
    BY <1>3, <2>1 DEF Write, BeginRecord, EndRecord, troubles
  <2> QED BY <2>2, LossSource DEF NoLoss
<1>4. ~\E day \in Days : DeleteOutput(day) BY DEF DeleteOutput, Mishap
<1>5. ASSUME NEW m \in Mergers, Start(m) \/ Run(m) PROVE LossInv'
  <2>1. ~harmed
    BY <1>5 DEF Start, Run, FirstMerge, IntervalEnds, MergeAgain, HostedEnds, troubles
  <2> QED BY <1>5, <2>1, LossRun DEF NoLoss
<1>6. ASSUME NEW m \in Mergers, MergeStep(m) PROVE LossInv'
  <2>1. ~harmed
    BY <1>6 DEF MergeStep, NoComponents, LoadState, FindRebuilds, Measure, Read, OpenOutput,
       Flush, WriteTemp, MoveTemp, MoveFails, Mishap, troubles
  <2> QED BY <1>6, <2>1, LossMerge DEF NoLoss
<1>7. ASSUME NEW m \in Mergers, Trouble(m) PROVE LossInv'
  <2>1. ~harmed
    BY <1>7 DEF Trouble, OpenFails, FlushFails, CloseFails, TempFails, TempCut, Killed, Mishap
  <2> QED BY <1>7, <2>1, LossTrouble DEF NoLoss
<1> QED BY <1>1, <1>2, <1>3, <1>4, <1>5, <1>6, <1>7 DEF Next

LEMMA InitLoss == ASSUME Kept \/ OneMerger PROVE Init => NoLoss
<1> SUFFICES ASSUME Init PROVE LossInv BY DEF NoLoss
<1>1. TypeOK BY InitType
<1>2. Aligned(NoRows) /\ Backed(NoRows, {}) BY <1>1, ZeroRows DEF Backed
<1>3. (Kept => state # NoState) /\ (state # NoState => state = NoRows)
  BY NoRowsType DEF Init
<1>4. \A m \in Mergers : job[m] = NoJob /\ at[m] = "down" BY DEF Init
<1>5. \A m \in Mergers : LossFor(m)
  BY <1>4 DEF LossFor, BeforeRead, AfterRead, NoJob
<1> QED BY <1>2, <1>3, <1>5 DEF LossInv

\* Whatever processes are killed and whatever files cannot be opened: what
\* merge.state says was consumed of a component log is in the main log, where
\* merge.state is there from the start or one process merges.
THEOREM NothingIsLost == Kept \/ OneMerger => (Spec => []NothingLost)
<1> SUFFICES ASSUME Kept \/ OneMerger PROVE Spec => []NothingLost OBVIOUS
<1>1. Init => NoLoss BY InitLoss
<1>2. TypeOK /\ JobInv /\ NoLoss /\ [Next]_vars => NoLoss' BY NextLoss
<1>3. TypeOK /\ NoLoss => NothingLost
  BY DEF TypeOK, NoLoss, LossInv, NothingLost, Backed
<1> QED BY <1>1, <1>2, <1>3, HandsAreRight, PTL DEF Spec

(***************************************************************************)
(* One merging process that nothing interrupts: no repetition and no gap.  *)
(***************************************************************************)

\* No process is killed, no file fails, no component log is deleted; main logs
\* may be, between two merges.
Uninterrupted == OneMerger /\ Mishaps \subseteq {"deleteOutput"}

\* Component logs grow, and records stay in the main logs or go with them.
Steady == /\ SameView /\ Complete \subseteq Complete'
          /\ \A s \in Sources : Size(s)' \in Nat /\ Size(s) <= Size(s)'
          /\ \A r \in Records : merged'[r] \in {0, merged[r]}

LEMMA SteadySources ==
  ASSUME TypeOK, UNCHANGED sources, \A r \in Records : merged'[r] \in {0, merged[r]}
  PROVE  Steady
<1>1. SameView /\ \A s : Size(s)' = Size(s) BY SameSources
<1>2. Complete' = Complete BY SameComplete DEF sources
<1> QED BY <1>1, <1>2, SizeType DEF Steady

LEMMA SteadyWrite ==
  ASSUME TypeOK, NEW s \in Sources, Write(s) PROVE Steady
<1>1. Grows BY WriteGrows
<1>2. Complete \subseteq Complete' BY SameComplete, EndGrows DEF Write, BeginRecord
<1>3. merged' = merged BY DEF Write, BeginRecord, EndRecord, main
<1> QED BY <1>1, <1>2, <1>3 DEF Steady, Grows

LEMMA OnceSteady ==
  ASSUME NEW o \in Offsets, Aligned(o), Once1(o), Steady
  PROVE  Aligned(o)' /\ Once1(o)'
<1>1. Aligned(o)' BY DEF Steady, SameView
<1>2. ASSUME NEW r \in Records, merged'[r] > 0
      PROVE  merged'[r] = 1 /\ r \in Complete' /\ 2 * r.index <= o[r.source]
  <2>1. merged'[r] = merged[r] BY <1>2 DEF Steady
  <2> QED BY <1>2, <2>1 DEF Once1, Steady
<1> QED BY <1>1, <1>2 DEF Once1

\* One merging process: what holds for it holds for all.
LEMMA OnceOne ==
  ASSUME OneMerger, NEW m \in Mergers, OnceFor(m)' PROVE OnceInv'
<1>1. \A n \in Mergers : n = m BY DEF OneMerger
<1> QED BY <1>1 DEF OnceInv

\* A step that leaves the process alone.
LEMMA OnceKept ==
  ASSUME TypeOK, OnceInv, Steady, UNCHANGED <<saved, at, job>> PROVE OnceInv'
<1>1. SUFFICES ASSUME NEW m \in Mergers PROVE OnceFor(m)'
  BY DEF OnceInv
<1>2. OnceFor(m) BY DEF OnceInv
<1>3. PICK rows, o, t : rows = SavedRows /\ o = job[m].offsets /\ t = temp OBVIOUS
<1>4. /\ rows \in Offsets /\ o \in Offsets /\ (t # NoState => t \in Offsets)
      /\ job[m].found \subseteq Sources /\ job[m].batch \subseteq Records
      /\ job[m].snapshots \in Offsets
  BY <1>3, NoRowsType DEF SavedRows, TypeOK
<1>5. rows = SavedRows' /\ o = job'[m].offsets /\ t = temp'
  BY <1>3 DEF SavedRows, saved
<1>6. ~Loaded(m)' => Aligned(SavedRows)' /\ Once1(SavedRows)'
  <2>1. ~Loaded(m) => Aligned(rows)' /\ Once1(rows)' BY <1>2, <1>3, <1>4, OnceSteady DEF OnceFor
  <2> QED BY <1>5, <2>1 DEF Aligned, Once1, Loaded, BeforeRead, AfterRead
<1>7. BeforeRead(m)' \/ AfterRead(m)' => Aligned(job[m].offsets)' /\ Once1(job[m].offsets)'
  <2>1. BeforeRead(m) \/ AfterRead(m) => Aligned(o)' /\ Once1(o)'
    BY <1>2, <1>3, <1>4, OnceSteady DEF OnceFor
  <2> QED BY <1>5, <2>1 DEF Aligned, Once1, BeforeRead, AfterRead
<1>8. at'[m] = "moving" => temp' # NoState /\ Aligned(temp)' /\ Once1(temp)'
  <2>1. at[m] = "moving" => t # NoState /\ Aligned(t)' /\ Once1(t)'
    BY <1>2, <1>3, <1>4, OnceSteady DEF OnceFor
  <2> QED BY <1>5, <2>1 DEF Aligned, Once1
<1>9. at[m] = "reading" => \A s \in job[m].found : job[m].snapshots[s] <= Size(s)'
  <2>1. SUFFICES ASSUME at[m] = "reading", NEW s \in job[m].found
                 PROVE  job[m].snapshots[s] <= Size(s)'
    OBVIOUS
  <2>2. job[m].snapshots[s] <= Size(s) BY <1>2, <2>1 DEF OnceFor
  <2>3. Size(s) \in Nat /\ Size(s)' \in Nat /\ Size(s) <= Size(s)' /\ job[m].snapshots[s] \in Nat
    BY <1>4, SizeType DEF Steady, Offsets
  <2> QED BY <2>2, <2>3
<1>10. \A r \in job[m].batch : merged'[r] = 0 BY <1>2, <1>4 DEF OnceFor, Steady
<1> QED BY <1>2, <1>6, <1>7, <1>8, <1>9, <1>10 DEF OnceFor

\* A process that is outside merge_once before and after.
LEMMA OnceOutside ==
  ASSUME TypeOK, JobInv, OneMerger, OnceInv, UNCHANGED <<sources, main, saved>>,
         NEW m \in Mergers, ~Loaded(m), ~Loaded(m)', job'[m] = NoJob
  PROVE  OnceInv'
<1>1. Aligned(SavedRows) /\ Once1(SavedRows) BY DEF OnceInv, OnceFor
<1>2. SavedRows' = SavedRows BY DEF SavedRows, saved
<1>3. PICK rows : rows = SavedRows OBVIOUS
<1>4. rows \in Offsets BY <1>3, NoRowsType DEF SavedRows, TypeOK
<1>5. Steady BY SteadySources DEF main
<1>6. Aligned(rows)' /\ Once1(rows)' BY <1>1, <1>3, <1>4, <1>5, OnceSteady
<1>7. Aligned(SavedRows)' /\ Once1(SavedRows)' BY <1>2, <1>3, <1>6 DEF Aligned, Once1
<1>8. OnceFor(m)' BY <1>7 DEF OnceFor, Loaded, BeforeRead, AfterRead, NoJob
<1> QED BY <1>8, OnceOne

\* Between its load and its last flush the process has other offsets to answer
\* for than merge.state.
LEMMA OnceMerging ==
  ASSUME TypeOK, JobInv, OneMerger, OnceInv, NEW m \in Mergers, Steady,
         BeforeRead(m) \/ AfterRead(m), job'[m].offsets = job[m].offsets,
         BeforeRead(m)' \/ AfterRead(m)', at'[m] # "checking",
         at'[m] = "reading" => \A s \in job'[m].found :
           job[m].offsets[s] <= job'[m].snapshots[s] /\ job'[m].snapshots[s] <= Size(s)',
         job'[m].batch = job[m].batch
  PROVE  OnceInv'
<1>1. OnceFor(m) BY DEF OnceInv
<1>2. PICK o : o = job[m].offsets /\ o = job'[m].offsets OBVIOUS
<1>3. o \in Offsets /\ job[m].batch \subseteq Records BY <1>2 DEF TypeOK
<1>4. Aligned(o)' /\ Once1(o)' BY <1>1, <1>2, <1>3, OnceSteady DEF OnceFor
<1>5. Aligned(job[m].offsets)' /\ Once1(job[m].offsets)' BY <1>2, <1>4 DEF Aligned, Once1
<1>6. \A r \in job'[m].batch : merged'[r] = 0 /\ 2 * r.index <= job'[m].offsets[r.source]
  BY <1>1, <1>3 DEF OnceFor, Steady
<1>7. OnceFor(m)'
  BY <1>5, <1>6 DEF OnceFor, Loaded, BeforeRead, AfterRead
<1> QED BY <1>7, OnceOne

LEMMA OnceLoad ==
  ASSUME TypeOK, JobInv, OneMerger, OnceInv, NEW m \in Mergers, LoadState(m)
  PROVE  OnceInv'
<1>1. UNCHANGED <<sources, main, saved>> /\ at'[m] = "checking" /\ at[m] = "loading"
  BY DEF LoadState, Goto, TypeOK
<1>2. ~Loaded(m) /\ job[m] = NoJob
  BY <1>1 DEF JobInv, HandInv, Loaded, BeforeRead, AfterRead
<1>3. /\ job'[m].existed = (state # NoState) /\ job'[m].batch = {}
      /\ job'[m].offsets = SavedRows
  BY <1>2, LoadFacts DEF NoJob, SavedRows
<1>4. PICK o : o = SavedRows /\ o = job'[m].offsets BY <1>3
<1>5. o \in Offsets /\ Aligned(o) /\ Once1(o)
  BY <1>2, <1>4, NoRowsType DEF OnceInv, OnceFor, SavedRows, TypeOK
<1>6. Steady BY <1>1, SteadySources DEF main
<1>7. Aligned(o)' /\ Once1(o)' BY <1>5, <1>6, OnceSteady
<1>8. Aligned(job[m].offsets)' /\ Once1(job[m].offsets)' BY <1>4, <1>7 DEF Aligned, Once1
<1>9. ~job'[m].existed => job'[m].offsets = NoRows BY <1>3 DEF SavedRows
<1>10. OnceFor(m)' BY <1>1, <1>3, <1>8, <1>9 DEF OnceFor, Loaded, BeforeRead, AfterRead
<1> QED BY <1>10, OnceOne

\* A date is read again from the beginning only when its main log holds nothing.
LEMMA OnceRebuild ==
  ASSUME TypeOK, JobInv, OneMerger, OnceInv, NEW m \in Mergers, FindRebuilds(m)
  PROVE  OnceInv'
<1>1. UNCHANGED <<sources, main, saved>> /\ at'[m] = "measuring" /\ at[m] = "checking"
  BY DEF FindRebuilds, Goto, TypeOK
<1>2. /\ Aligned(job[m].offsets) /\ Once1(job[m].offsets) /\ job[m].batch = {}
      /\ (~job[m].existed => job[m].offsets = NoRows)
  BY <1>1 DEF OnceInv, OnceFor, JobInv, HandInv, BeforeRead, AfterRead
<1>3. PICK o, p : o = job[m].offsets /\ p = job'[m].offsets OBVIOUS
<1>4. o \in Offsets /\ p \in Offsets /\ job[m].found \subseteq Sources
  BY <1>3, RebuildFacts DEF TypeOK, JobType
<1>5. ASSUME NEW s \in Sources, p[s] # o[s]
      PROVE  p[s] = 0 /\ \A r \in Records : DayOf(r.source) = DayOf(s) => ~(merged[r] > 0)
  <2>1. p[s] = 0 /\ DayOf(s) \in job'[m].rebuild BY <1>3, <1>5, RebuildFacts
  <2>2. job[m].existed BY <1>2, <1>3, <1>5, <2>1 DEF NoRows
  <2>3. PICK q \in job[m].found : Stale(m, q) /\ DayOf(q) = DayOf(s)
    BY <2>1, <2>2, RebuildFacts
  <2>4. ~(Size(q) < o[q])
    <3>1. q \in Sources /\ o[q] \in Nat /\ o[q] <= 2 * whole[q]
      BY <1>2, <1>3, <1>4 DEF Aligned, Offsets
    <3>2. whole[q] \in Nat BY <3>1, BoundsAssumption DEF TypeOK
    <3> QED BY <3>1, <3>2, SizeType
  <2>5. DayOf(q) \notin outputs BY <1>3, <2>3, <2>4 DEF Stale
  <2> QED BY <2>1, <2>3, <2>5 DEF JobInv
<1>6. Aligned(p)
  <2>1. SUFFICES ASSUME NEW s \in Sources PROVE p[s] % 2 = 0 /\ p[s] <= 2 * whole[s]
    BY DEF Aligned
  <2>2. CASE p[s] = o[s] BY <1>2, <1>3, <2>2 DEF Aligned
  <2>3. CASE p[s] # o[s]
    <3>1. p[s] = 0 /\ whole[s] \in Nat BY <1>5, <2>3, BoundsAssumption DEF TypeOK
    <3> QED BY <3>1
  <2> QED BY <2>2, <2>3
<1>7. Once1(p)
  <2>1. SUFFICES ASSUME NEW r \in Records, merged[r] > 0
                 PROVE  merged[r] = 1 /\ r \in Complete /\ 2 * r.index <= p[r.source]
    BY DEF Once1
  <2>2. p[r.source] = o[r.source] BY <1>5, <2>1, RecordFields
  <2> QED BY <1>2, <1>3, <2>1, <2>2 DEF Once1
<1>8. Steady BY <1>1, SteadySources DEF main
<1>9. Aligned(p)' /\ Once1(p)' BY <1>4, <1>6, <1>7, <1>8, OnceSteady
<1>10. Aligned(job[m].offsets)' /\ Once1(job[m].offsets)' BY <1>3, <1>9 DEF Aligned, Once1
<1>11. job'[m].batch = {} BY <1>2, RebuildFacts
<1>12. OnceFor(m)' BY <1>1, <1>10, <1>11 DEF OnceFor, Loaded, BeforeRead, AfterRead
<1> QED BY <1>12, OnceOne

LEMMA OnceMeasure ==
  ASSUME TypeOK, JobInv, OneMerger, OnceInv, NEW m \in Mergers, Measure(m)
  PROVE  OnceInv'
<1>1. UNCHANGED <<sources, main, saved>> /\ at'[m] = "reading" /\ at[m] = "measuring"
  BY DEF Measure, Goto, TypeOK
<1>2. Steady BY <1>1, SteadySources DEF main
<1>3. Aligned(job[m].offsets) BY <1>1 DEF OnceInv, OnceFor, BeforeRead, AfterRead
<1>4. ASSUME NEW s \in job'[m].found
      PROVE  job[m].offsets[s] <= job'[m].snapshots[s] /\ job'[m].snapshots[s] <= Size(s)'
  <2>1. s \in job[m].found /\ s \in Sources BY <1>4, MeasureFacts DEF TypeOK
  <2>2. job'[m].snapshots[s] = Size(s) BY <2>1, MeasureFacts
  <2>3. job[m].offsets[s] \in Nat /\ job[m].offsets[s] <= 2 * whole[s]
    BY <1>3, <2>1 DEF Aligned, TypeOK, Offsets
  <2>4. whole[s] \in Nat /\ Size(s) \in Nat /\ 2 * whole[s] <= Size(s) /\ Size(s)' = Size(s)
    BY <1>1, <2>1, SizeType, SameSources, BoundsAssumption DEF TypeOK
  <2> QED BY <2>2, <2>3, <2>4
<1> QED BY <1>1, <1>2, <1>4, MeasureFacts, OnceMerging DEF BeforeRead, AfterRead

LEMMA BetweenIs ==
  ASSUME TypeOK, NEW s \in Sources, NEW from \in Nat, NEW to \in Nat,
         NEW r \in RecordsBetween(s, from, to)
  PROVE  /\ r \in Records /\ r.source = s /\ 2 * r.index > from
         /\ 2 * r.index <= Consumed(s, from, to)
<1>1. r \in Records /\ r.source = s /\ 2 * (r.index - 1) >= from /\ 2 * r.index <= to
  BY DEF RecordsBetween, Current
<1>2. r.index \in Nat BY <1>1, RecordFields, BoundsAssumption
<1>3. from < to /\ 2 * r.index > from BY <1>1, <1>2
<1>4. r.index <= to \div 2 BY <1>1, <1>2
<1> QED BY <1>1, <1>2, <1>3, <1>4 DEF Consumed

\* The batch holds what the offsets had not passed, and they pass it now.
LEMMA OnceRead ==
  ASSUME TypeOK, JobInv, OneMerger, OnceInv, NEW m \in Mergers, Read(m)
  PROVE  OnceInv'
<1>1. UNCHANGED <<sources, main, saved>> /\ at'[m] = "opening" /\ at[m] = "reading"
  BY DEF Read, Goto, TypeOK
<1>2. PICK o, p, found, snapshots : /\ o = job[m].offsets /\ found = job[m].found
                                    /\ p = job'[m].offsets /\ snapshots = job[m].snapshots
  OBVIOUS
<1>3. /\ Aligned(o) /\ Once1(o) /\ \A s \in found : snapshots[s] <= Size(s)
  BY <1>1, <1>2 DEF OnceInv, OnceFor, BeforeRead, AfterRead
<1>4. /\ o \in Offsets /\ found \subseteq Sources /\ snapshots \in Offsets /\ p \in Offsets
  BY <1>2, ReadFacts DEF TypeOK, JobType
<1>5. \A s \in Sources : /\ o[s] \in Nat /\ o[s] % 2 = 0 /\ o[s] <= 2 * whole[s]
                         /\ snapshots[s] \in Nat /\ p[s] \in Nat
  BY <1>3, <1>4 DEF Aligned, Offsets
<1>6. \A s \in Sources : p[s] % 2 = 0 /\ p[s] <= 2 * whole[s] /\ o[s] <= p[s]
  <2>1. SUFFICES ASSUME NEW s \in Sources
                 PROVE  p[s] % 2 = 0 /\ p[s] <= 2 * whole[s] /\ o[s] <= p[s]
    OBVIOUS
  <2>2. CASE s \in found
    <3>1. p[s] = Consumed(s, o[s], snapshots[s]) /\ snapshots[s] <= Size(s)
      BY <1>2, <1>3, <2>2, ReadFacts
    <3> QED BY <1>5, <3>1, ConsumedIs
  <2>3. CASE s \notin found
    <3>1. p[s] = o[s] BY <1>2, <2>3, ReadFacts
    <3> QED BY <1>5, <3>1
  <2> QED BY <2>2, <2>3
<1>7. Aligned(p) BY <1>6 DEF Aligned
<1>8. Once1(p)
  <2>1. SUFFICES ASSUME NEW r \in Records, merged[r] > 0
                 PROVE  merged[r] = 1 /\ r \in Complete /\ 2 * r.index <= p[r.source]
    BY DEF Once1
  <2>2. /\ merged[r] = 1 /\ r \in Complete /\ 2 * r.index <= o[r.source]
        /\ r.source \in Sources /\ r.index \in Nat
    BY <1>3, <2>1, RecordFields, BoundsAssumption DEF Once1
  <2> QED BY <1>5, <1>6, <2>2
<1>9. Steady /\ merged' = merged BY <1>1, SteadySources DEF main
<1>10. Aligned(p)' /\ Once1(p)' BY <1>4, <1>7, <1>8, <1>9, OnceSteady
<1>11. Aligned(job[m].offsets)' /\ Once1(job[m].offsets)' BY <1>2, <1>10 DEF Aligned, Once1
<1>12. ASSUME NEW r \in job'[m].batch
       PROVE  merged[r] = 0 /\ 2 * r.index <= p[r.source]
  <2>1. PICK s \in found : r \in RecordsBetween(s, o[s], snapshots[s])
    BY <1>2, <1>12, ReadFacts
  <2>2. s \in Sources /\ p[s] = Consumed(s, o[s], snapshots[s]) BY <1>2, <1>4, ReadFacts
  <2>3. r \in Records /\ r.source = s /\ 2 * r.index > o[s] /\ 2 * r.index <= p[s]
    BY <1>5, <2>1, <2>2, BetweenIs
  <2>4. merged[r] \in 0..2 /\ r.index \in Nat BY <2>3, RecordFields, BoundsAssumption DEF TypeOK
  <2>5. ~(merged[r] > 0)
    <3>1. merged[r] > 0 => 2 * r.index <= o[s] BY <1>3, <2>3 DEF Once1
    <3> QED BY <1>5, <2>2, <2>3, <2>4, <3>1
  <2> QED BY <2>3, <2>4, <2>5
<1>13. OnceFor(m)'
  BY <1>1, <1>2, <1>9, <1>11, <1>12 DEF OnceFor, Loaded, BeforeRead, AfterRead
<1> QED BY <1>13, OnceOne

LEMMA OnceFlush ==
  ASSUME TypeOK, JobInv, OneMerger, OnceInv, NEW m \in Mergers, Flush(m)
  PROVE  /\ OnceInv' /\ Batch(m) \subseteq Complete
         /\ \A r \in Batch(m) : merged[r] = 0 /\ merged'[r] = 1
<1>1. /\ UNCHANGED <<sources, saved>> /\ at'[m] = "opening" /\ at[m] = "flushing"
      /\ job'[m].batch = job[m].batch \ Batch(m) /\ job'[m].offsets = job[m].offsets
      /\ Put(Batch(m))
  BY DEF Flush, Goto, TypeOK
<1>2. PICK o : o = job[m].offsets /\ o = job'[m].offsets BY <1>1
<1>3. /\ o \in Offsets /\ Batch(m) \subseteq job[m].batch /\ job[m].batch \subseteq Records
      /\ job[m].batch \subseteq Complete
  BY <1>2 DEF TypeOK, Batch, JobInv, HandInv
<1>4. /\ Aligned(o) /\ Once1(o)
      /\ \A r \in job[m].batch : merged[r] = 0 /\ 2 * r.index <= o[r.source]
  BY <1>1, <1>2 DEF OnceInv, OnceFor, BeforeRead, AfterRead
<1>5. \A r \in Records : /\ r \notin Batch(m) => merged'[r] = merged[r]
                         /\ r \in Batch(m) => merged[r] = 0 /\ merged'[r] = 1
  BY <1>1, <1>3, <1>4, PutCovers
<1>6. Aligned(o)' BY <1>1, <1>3, <1>4, SameSources DEF SameView
<1>7. Complete' = Complete BY <1>1, SameComplete DEF sources
<1>8. Once1(o)'
  <2>1. SUFFICES ASSUME NEW r \in Records, merged'[r] > 0
                 PROVE  merged'[r] = 1 /\ r \in Complete /\ 2 * r.index <= o[r.source]
    BY <1>7 DEF Once1
  <2>2. CASE r \in Batch(m) BY <1>3, <1>4, <1>5, <2>2
  <2>3. CASE r \notin Batch(m) BY <1>4, <1>5, <2>1, <2>3 DEF Once1
  <2> QED BY <2>2, <2>3
<1>9. Aligned(job[m].offsets)' /\ Once1(job[m].offsets)' BY <1>2, <1>6, <1>8 DEF Aligned, Once1
<1>10. \A r \in job'[m].batch : merged'[r] = 0 /\ 2 * r.index <= job'[m].offsets[r.source]
  BY <1>1, <1>2, <1>3, <1>4, <1>5
<1>11. OnceFor(m)' BY <1>1, <1>9, <1>10 DEF OnceFor, Loaded, BeforeRead, AfterRead
<1>12. OnceInv' BY <1>11, OnceOne
<1> QED BY <1>3, <1>5, <1>12

LEMMA OnceTemp ==
  ASSUME TypeOK, JobInv, OneMerger, OnceInv, NEW m \in Mergers, WriteTemp(m)
  PROVE  OnceInv'
<1>1. /\ UNCHANGED <<sources, main, job>> /\ at'[m] = "moving" /\ at[m] = "opening"
      /\ job[m].batch = {} /\ temp' = job[m].offsets
  BY DEF WriteTemp, Goto, TypeOK
<1>2. PICK o : o = job[m].offsets /\ o = temp' BY <1>1
<1>3. o \in Offsets /\ o # NoState BY <1>2, OffsetsAreState DEF TypeOK
<1>4. Aligned(o) /\ Once1(o)
  BY <1>1, <1>2 DEF OnceInv, OnceFor, BeforeRead, AfterRead
<1>5. Steady BY <1>1, SteadySources DEF main
<1>6. Aligned(o)' /\ Once1(o)' BY <1>3, <1>4, <1>5, OnceSteady
<1>7. Aligned(temp)' /\ Once1(temp)' BY <1>2, <1>6 DEF Aligned, Once1
<1>8. OnceFor(m)' BY <1>1, <1>2, <1>3, <1>7 DEF OnceFor, Loaded, BeforeRead, AfterRead
<1> QED BY <1>8, OnceOne

LEMMA OnceMove ==
  ASSUME TypeOK, JobInv, OneMerger, OnceInv, NEW m \in Mergers, MoveTemp(m)
  PROVE  OnceInv'
<1>1. /\ UNCHANGED <<sources, main>> /\ at'[m] \in {"waiting", "down"} /\ at[m] = "moving"
      /\ job'[m] = NoJob /\ temp # NoState /\ state' = temp
  BY DEF MoveTemp, Return, Goto, TypeOK
<1>2. PICK o : o = temp /\ o = SavedRows' BY <1>1 DEF SavedRows
<1>3. o \in Offsets /\ Aligned(o) /\ Once1(o)
  BY <1>1, <1>2 DEF OnceInv, OnceFor, TypeOK
<1>4. Steady BY <1>1, SteadySources DEF main
<1>5. Aligned(o)' /\ Once1(o)' BY <1>3, <1>4, OnceSteady
<1>6. Aligned(SavedRows)' /\ Once1(SavedRows)' BY <1>2, <1>5 DEF Aligned, Once1
<1>7. OnceFor(m)' BY <1>1, <1>6 DEF OnceFor, Loaded, BeforeRead, AfterRead, NoJob
<1> QED BY <1>7, OnceOne

\* What a step may be while nothing interrupts.
LEMMA UninterruptedStep ==
  ASSUME TypeOK, Uninterrupted, OnceInv, Next
  PROVE  \/ \E s \in Sources : Write(s)
         \/ \E day \in Days : DeleteOutput(day) /\ \A m \in Mergers : ~Merging(m)
         \/ \E m \in Mergers :
              \/ Start(m) \/ Run(m) \/ NoComponents(m) \/ LoadState(m) \/ FindRebuilds(m)
              \/ Measure(m) \/ Read(m) \/ OpenOutput(m) \/ Flush(m) \/ WriteTemp(m)
              \/ MoveTemp(m)
         \/ SignalShutdown
<1>1. \A kind : Mishap(kind) => kind = "deleteOutput"
  BY DEF Mishap, Uninterrupted
<1>2. \A s \in Sources : ~DeleteSource(s) BY <1>1 DEF DeleteSource
<1>3. \A m \in Mergers : ~Trouble(m)
  BY <1>1 DEF Trouble, OpenFails, FlushFails, CloseFails, TempFails, TempCut, Killed
<1>4. \A m \in Mergers : ~MoveFails(m) BY <1>1 DEF MoveFails, OnceInv, OnceFor
<1>5. \A day \in Days : DeleteOutput(day) => \A m \in Mergers : ~Merging(m)
  BY <1>1 DEF DeleteOutput
<1> QED BY <1>2, <1>3, <1>4, <1>5 DEF Next, MergeStep

LEMMA NextOnce ==
  ASSUME Uninterrupted
  PROVE  TypeOK /\ JobInv /\ OnceInv /\ [Next]_vars => OnceInv'
<1> SUFFICES ASSUME TypeOK, JobInv, OnceInv, [Next]_vars PROVE OnceInv' OBVIOUS
<1>0. OneMerger BY DEF Uninterrupted
<1>1. CASE SignalShutdown \/ UNCHANGED vars
  <2>1. UNCHANGED <<sources, main, saved, at, job>> BY <1>1 DEF SignalShutdown, vars
  <2> QED BY <2>1, SteadySources, OnceKept DEF main
<1>2. ASSUME NEW s \in Sources, Write(s) PROVE OnceInv'
  <2>1. UNCHANGED <<saved, at, job>> BY <1>2 DEF Write, BeginRecord, EndRecord
  <2> QED BY <1>2, <2>1, SteadyWrite, OnceKept
<1>3. ASSUME NEW day \in Days, DeleteOutput(day) PROVE OnceInv'
  <2>1. UNCHANGED <<sources, saved, at, job>> /\ \A r \in Records : merged'[r] \in {0, merged[r]}
    BY <1>3 DEF DeleteOutput
  <2> QED BY <2>1, SteadySources, OnceKept
<1>4. ASSUME NEW m \in Mergers, Start(m) \/ Run(m) \/ NoComponents(m) PROVE OnceInv'
  <2>1. /\ UNCHANGED <<sources, main, saved>> /\ ~Loaded(m) /\ ~Loaded(m)'
        /\ job'[m] = job[m] \/ job'[m] = NoJob
    BY <1>4 DEF Start, Run, FirstMerge, IntervalEnds, MergeAgain, HostedEnds, NoComponents,
       Return, Goto, Loaded, BeforeRead, AfterRead, TypeOK
  <2> QED BY <1>0, <2>1, OnceOutside DEF JobInv, HandInv
<1>5. ASSUME NEW m \in Mergers, OpenOutput(m) PROVE OnceInv'
  <2>1. /\ UNCHANGED <<sources, job>> /\ at[m] = "opening" /\ at'[m] = "flushing"
        /\ \A r \in Records : merged'[r] \in {0, merged[r]}
    BY <1>5 DEF OpenOutput, Goto, TypeOK
  <2> QED BY <1>0, <2>1, SteadySources, OnceMerging DEF BeforeRead, AfterRead
<1> QED BY <1>0, <1>1, <1>2, <1>3, <1>4, <1>5, UninterruptedStep, OnceLoad, OnceRebuild,
      OnceMeasure, OnceRead, OnceFlush, OnceTemp, OnceMove

LEMMA InitComplete == Init => Complete = {}
<1> SUFFICES ASSUME Init, NEW r \in Complete PROVE FALSE OBVIOUS
<1>1. r \in Records /\ r.index <= whole[r.source] /\ r.source \in Sources
  BY CompleteIs, RecordFields DEF Current
<1>2. whole[r.source] = 0 BY <1>1 DEF Init
<1>3. r.index \in Nat /\ r.index >= 1 BY <1>1, RecordFields, BoundsAssumption
<1> QED BY <1>1, <1>2, <1>3

LEMMA InitOnce == Init => OnceInv
<1> SUFFICES ASSUME Init PROVE OnceInv OBVIOUS
<1>1. TypeOK BY InitType
<1>2. SavedRows = NoRows BY DEF Init, SavedRows
<1>3. Aligned(NoRows) /\ Once1(NoRows) BY <1>1, ZeroRows DEF Init, Once1
<1> QED BY <1>2, <1>3 DEF Init, OnceInv, OnceFor, Loaded, BeforeRead, AfterRead, NoJob

(***************************************************************************)
(* ... and one without gaps.                                               *)
(***************************************************************************)

\* One merging process, and no offset for a source that is not there.
LEMMA GapOne ==
  ASSUME OneMerger, GapInv, UNCHANGED sources, NEW m \in Mergers, GapFor(m)'
  PROVE  GapInv'
<1>1. \A n \in Mergers : n = m BY DEF OneMerger
<1>2. \A s : Size(s)' = Size(s) BY SameSources
<1> QED BY <1>1, <1>2 DEF GapInv, sources

LEMMA BehindStays ==
  ASSUME NEW o \in Offsets, Aligned(o), Behind(o), SameView, outputs' \subseteq outputs,
         \A r \in Records : DayOf(r.source) \in outputs' /\ merged[r] > 0 => merged'[r] > 0
  PROVE  Behind(o)'
<1>1. SUFFICES ASSUME NEW s \in Sources, DayOf(s) \in outputs', NEW r \in Covered(o, s)
               PROVE  merged'[r] > 0
  BY DEF Behind, SameView
<1>2. r \in Records /\ r.source = s BY <1>1 DEF Covered, Current
<1>3. merged[r] > 0 BY <1>1 DEF Behind
<1> QED BY <1>1, <1>2, <1>3

\* A step that leaves the process and the main logs alone.
LEMMA GapKept ==
  ASSUME TypeOK, OnceInv, GapInv, SameView, UNCHANGED <<main, saved, at, job>>,
         NEW m \in Mergers
  PROVE  GapFor(m)'
<1>1. GapFor(m) /\ OnceFor(m) BY DEF GapInv, OnceInv
<1>2. PICK rows, o, t : rows = SavedRows /\ o = job[m].offsets /\ t = temp OBVIOUS
<1>3. /\ rows \in Offsets /\ o \in Offsets /\ (t # NoState => t \in Offsets)
      /\ job[m].batch \subseteq Records
  BY <1>2, NoRowsType DEF SavedRows, TypeOK
<1>4. /\ rows = SavedRows' /\ o = job'[m].offsets /\ t = temp' /\ merged' = merged
      /\ outputs' = outputs /\ at' = at /\ job' = job
  BY <1>2 DEF SavedRows, saved, main
<1>5. ~Loaded(m) => Behind(SavedRows)'
  <2>1. ~Loaded(m) => Behind(rows)' BY <1>1, <1>2, <1>3, <1>4, BehindStays DEF GapFor, OnceFor
  <2> QED BY <1>4, <2>1 DEF Behind, Covered
<1>6. at[m] = "checking" => Behind(job[m].offsets)'
  <2>1. at[m] = "checking" => Behind(o)'
    BY <1>1, <1>2, <1>3, <1>4, BehindStays DEF GapFor, OnceFor, BeforeRead
  <2> QED BY <1>4, <2>1 DEF Behind, Covered
<1>7. at[m] \in {"measuring", "reading"} => Backed(job[m].offsets, {})'
  <2>1. at[m] \in {"measuring", "reading"} => Backed(o, {})'
    BY <1>1, <1>2, <1>3, <1>4, BackedGrows DEF GapFor, OnceFor, BeforeRead
  <2> QED BY <1>4, <2>1 DEF Backed, Covered
<1>8. AfterRead(m) => HandBacked(m)'
  <2>1. SUFFICES ASSUME AfterRead(m) PROVE HandBacked(m)' OBVIOUS
  <2>2. Aligned(o) /\ HandBacked(m) BY <1>1, <1>2, <2>1 DEF GapFor, OnceFor
  <2>3. \A s \in Sources : Covered(o, s)' = Covered(o, s) BY <1>3, <2>2 DEF SameView
  <2>4. \A s \in Sources : Covered(job[m].offsets, s)' = Covered(job[m].offsets, s)
    BY <1>2, <1>4, <2>3 DEF Covered
  <2> QED BY <1>4, <2>2, <2>4 DEF HandBacked, Backed
<1>9. at[m] = "moving" => Backed(temp, {})'
  <2>1. at[m] = "moving" => Backed(t, {})'
    BY <1>1, <1>2, <1>3, <1>4, BackedGrows DEF GapFor, OnceFor
  <2> QED BY <1>4, <2>1 DEF Backed, Covered
<1> QED BY <1>1, <1>4, <1>5, <1>6, <1>7, <1>8, <1>9
        DEF GapFor, Loaded, BeforeRead, AfterRead

LEMMA GapWrite ==
  ASSUME TypeOK, OnceInv, GapInv, NEW s \in Sources, Write(s) PROVE GapInv'
<1>1. UNCHANGED <<main, saved, at, job>> BY DEF Write, BeginRecord, EndRecord
<1>2. SameView BY WriteGrows DEF Grows
<1>3. \A m \in Mergers : GapFor(m)' BY <1>1, <1>2, GapKept
<1>4. ASSUME NEW q \in Sources \ present' PROVE Size(q)' = 0
  <2>1. q \notin present /\ Size(q) = 0 BY <1>4 DEF GapInv, Write, BeginRecord, EndRecord
  <2>2. CASE q # s BY <2>1, <2>2 DEF Write, BeginRecord, EndRecord, TypeOK, Size
  <2>3. CASE q = s
    <3>1. s \in present' \/ (begun[s] /\ whole[s] \in Nat)
      BY BoundsAssumption DEF Write, BeginRecord, EndRecord, TypeOK
    <3> QED BY <1>4, <2>1, <2>3, <3>1 DEF Size
  <2> QED BY <2>2, <2>3
<1> QED BY <1>3, <1>4 DEF GapInv

LEMMA GapDelete ==
  ASSUME TypeOK, OneMerger, OnceInv, GapInv, NEW day \in Days, DeleteOutput(day),
         \A m \in Mergers : ~Merging(m)
  PROVE  GapInv'
<1>1. /\ UNCHANGED <<sources, saved, at, job>> /\ outputs' \subseteq outputs
      /\ \A r \in Records : DayOf(r.source) \in outputs' => merged'[r] = merged[r]
  BY DEF DeleteOutput, RecordsOf
<1>2. ~Loaded(Hosted) /\ ~Loaded(Hosted)'
  BY <1>1, HostedAssumption DEF Merging, Loaded, BeforeRead, AfterRead
<1>3. PICK rows : rows = SavedRows OBVIOUS
<1>4. rows \in Offsets /\ Aligned(rows) /\ Behind(rows)
  BY <1>2, <1>3, NoRowsType, HostedAssumption
  DEF SavedRows, TypeOK, OnceInv, OnceFor, GapInv, GapFor
<1>5. Behind(rows)' BY <1>1, <1>4, SameSources, BehindStays
<1>6. rows = SavedRows' BY <1>1, <1>3 DEF SavedRows, saved
<1>7. Behind(SavedRows)' BY <1>5, <1>6 DEF Behind, Covered
<1>8. GapFor(Hosted)' BY <1>2, <1>7 DEF GapFor, Loaded, BeforeRead, AfterRead
<1> QED BY <1>1, <1>8, GapOne, HostedAssumption

\* A step outside merge_once.
LEMMA GapOutside ==
  ASSUME TypeOK, OneMerger, GapInv, UNCHANGED <<sources, main, saved>>,
         NEW m \in Mergers, ~Loaded(m), ~Loaded(m)'
  PROVE  GapInv'
<1>1. Behind(SavedRows) BY DEF GapInv, GapFor
<1>2. SavedRows' = SavedRows BY DEF SavedRows, saved
<1>3. Behind(SavedRows)' BY <1>1, <1>2 DEF Behind, Covered, Current, sources, main
<1>4. GapFor(m)' BY <1>3 DEF GapFor, Loaded, BeforeRead, AfterRead
<1> QED BY <1>4, GapOne

LEMMA GapLoad ==
  ASSUME TypeOK, JobInv, OneMerger, OnceInv, GapInv, NEW m \in Mergers, LoadState(m)
  PROVE  GapInv'
<1>1. UNCHANGED <<sources, main, saved>> /\ at'[m] = "checking" /\ at[m] = "loading"
  BY DEF LoadState, Goto, TypeOK
<1>2. ~Loaded(m) /\ job[m] = NoJob
  BY <1>1 DEF JobInv, HandInv, Loaded, BeforeRead, AfterRead
<1>3. job'[m].found = present /\ job'[m].offsets = SavedRows
  BY <1>2, LoadFacts DEF NoJob, SavedRows
<1>4. PICK o : o = SavedRows /\ o = job'[m].offsets BY <1>3
<1>5. o \in Offsets /\ Aligned(o) /\ Behind(o)
  BY <1>2, <1>4, NoRowsType DEF OnceInv, OnceFor, GapInv, GapFor, SavedRows, TypeOK
<1>6. Behind(o)' BY <1>1, <1>5 DEF Behind, Covered, Current, sources, main
<1>7. Behind(job[m].offsets)' BY <1>4, <1>6 DEF Behind, Covered
<1>8. ASSUME NEW s \in Sources \ present PROVE o[s] = 0
  <2>1. Size(s) = 0 BY DEF GapInv
  <2>2. o[s] \in Nat /\ o[s] <= 2 * whole[s] /\ whole[s] \in Nat
    BY <1>5, BoundsAssumption DEF Aligned, Offsets, TypeOK
  <2> QED BY <2>1, <2>2 DEF Size
<1>9. GapFor(m)'
  BY <1>1, <1>3, <1>4, <1>7, <1>8 DEF GapFor, Loaded, BeforeRead, AfterRead
<1> QED BY <1>1, <1>9, GapOne

\* A date without its main log is read from the beginning: all that the offsets
\* pass then is in a main log.
LEMMA GapRebuild ==
  ASSUME TypeOK, JobInv, OneMerger, OnceInv, GapInv, NEW m \in Mergers, FindRebuilds(m)
  PROVE  GapInv'
<1>1. UNCHANGED <<sources, main, saved>> /\ at'[m] = "measuring" /\ at[m] = "checking"
  BY DEF FindRebuilds, Goto, TypeOK
<1>2. /\ Aligned(job[m].offsets) /\ Behind(job[m].offsets)
      /\ (~job[m].existed => job[m].offsets = NoRows)
      /\ \A s \in Sources \ job[m].found : job[m].offsets[s] = 0
  BY <1>1 DEF OnceInv, OnceFor, GapInv, GapFor, BeforeRead, AfterRead
<1>3. PICK o, p : o = job[m].offsets /\ p = job'[m].offsets OBVIOUS
<1>4. o \in Offsets /\ p \in Offsets /\ job[m].found \subseteq Sources
  BY <1>3, RebuildFacts DEF TypeOK, JobType
<1>5. \A s \in Sources : DayOf(s) \in job'[m].rebuild => p[s] = 0
  BY <1>2, <1>3, RebuildFacts
<1>6. \A s \in Sources : p[s] = 0 \/ (p[s] = o[s] /\ DayOf(s) \in outputs)
  <2>1. SUFFICES ASSUME NEW s \in Sources, p[s] # 0
                 PROVE  p[s] = o[s] /\ DayOf(s) \in outputs
    OBVIOUS
  <2>2. p[s] = o[s] /\ DayOf(s) \notin job'[m].rebuild /\ s \in job[m].found
    BY <1>2, <1>3, <1>5, <2>1, RebuildFacts
  <2>3. job[m].existed BY <1>2, <1>3, <2>1, <2>2 DEF NoRows
  <2>4. ~Stale(m, s) BY <2>2, <2>3, RebuildFacts
  <2>5. o[s] \in Nat BY <1>4 DEF Offsets
  <2> QED BY <1>3, <2>1, <2>2, <2>4, <2>5 DEF Stale
<1>7. Backed(p, {})
  <2>1. SUFFICES ASSUME NEW s \in Sources, NEW r \in Covered(p, s) PROVE merged[r] > 0
    BY DEF Backed
  <2>2. r \in Current(s) /\ r \in Records /\ 2 * r.index <= p[s] BY <2>1 DEF Covered, Current
  <2>3. r.index \in Nat /\ r.index >= 1 BY <2>2, RecordFields, BoundsAssumption
  <2>4. p[s] = o[s] /\ DayOf(s) \in outputs BY <1>6, <2>2, <2>3
  <2> QED BY <1>2, <1>3, <2>2, <2>4 DEF Behind, Covered
<1>8. Backed(p, {})' BY <1>1, <1>7 DEF Backed, Covered, Current, sources, main
<1>9. Backed(job[m].offsets, {})' BY <1>3, <1>8 DEF Backed, Covered
<1>10. GapFor(m)'
  BY <1>1, <1>3, <1>5, <1>9 DEF GapFor, Loaded, BeforeRead, AfterRead
<1> QED BY <1>1, <1>10, GapOne

LEMMA GapMeasure ==
  ASSUME TypeOK, OneMerger, GapInv, NEW m \in Mergers, Measure(m) PROVE GapInv'
<1>1. UNCHANGED <<sources, main, saved>> /\ at'[m] = "reading" /\ at[m] = "measuring"
  BY DEF Measure, Goto, TypeOK
<1>2. /\ Backed(job[m].offsets, {})
      /\ \A s \in Sources : DayOf(s) \in job[m].rebuild => job[m].offsets[s] = 0
  BY <1>1 DEF GapInv, GapFor
<1>3. PICK o : o = job[m].offsets /\ o = job'[m].offsets BY MeasureFacts
<1>4. Backed(o, {})' BY <1>1, <1>2, <1>3 DEF Backed, Covered, Current, sources, main
<1>5. Backed(job[m].offsets, {})' BY <1>3, <1>4 DEF Backed, Covered
<1>6. GapFor(m)'
  BY <1>1, <1>2, <1>5, MeasureFacts DEF GapFor, Loaded, BeforeRead, AfterRead
<1> QED BY <1>1, <1>6, GapOne

LEMMA GapRead ==
  ASSUME TypeOK, OneMerger, OnceInv, GapInv, NEW m \in Mergers, Read(m) PROVE GapInv'
<1>1. UNCHANGED sources /\ at'[m] = "opening" /\ at[m] = "reading"
  BY DEF Read, Goto, TypeOK
<1>2. /\ Aligned(job[m].offsets) /\ Backed(job[m].offsets, {})
      /\ \A s \in Sources : DayOf(s) \in job[m].rebuild => job[m].offsets[s] = 0
      /\ \A s \in job[m].found : job[m].snapshots[s] <= Size(s)
  BY <1>1 DEF OnceInv, OnceFor, GapInv, GapFor, BeforeRead
<1>3. HandBacked(m)' BY <1>2, ReadBacks
<1>4. GapFor(m)' BY <1>1, <1>3 DEF GapFor, Loaded, BeforeRead, AfterRead
<1> QED BY <1>1, <1>4, GapOne

LEMMA GapPut ==
  ASSUME TypeOK, OneMerger, OnceInv, GapInv, NEW m \in Mergers, OpenOutput(m) \/ Flush(m)
  PROVE  GapInv'
<1>1. UNCHANGED sources /\ AfterRead(m) /\ at'[m] \in {"opening", "flushing"}
  BY DEF OpenOutput, Flush, Goto, AfterRead, TypeOK
<1>2. Aligned(job[m].offsets) /\ HandBacked(m) BY <1>1 DEF OnceInv, OnceFor, GapInv, GapFor
<1>3. HandBacked(m)' BY <1>2, OpenBacks, FlushBacks
<1>4. GapFor(m)' BY <1>1, <1>3 DEF GapFor, Loaded, BeforeRead, AfterRead
<1> QED BY <1>1, <1>4, GapOne

LEMMA GapTemp ==
  ASSUME TypeOK, OneMerger, GapInv, NEW m \in Mergers, WriteTemp(m) PROVE GapInv'
<1>1. /\ UNCHANGED <<sources, main>> /\ at'[m] = "moving" /\ AfterRead(m)
      /\ job[m].batch = {} /\ temp' = job[m].offsets
  BY DEF WriteTemp, Goto, AfterRead, TypeOK
<1>2. PICK o : o = job[m].offsets /\ o = temp' BY <1>1
<1>3. Backed(o, {}) BY <1>1, <1>2 DEF GapInv, GapFor, HandBacked
<1>4. Backed(o, {})' BY <1>1, <1>3 DEF Backed, Covered, Current, sources, main
<1>5. Backed(temp, {})' BY <1>2, <1>4 DEF Backed, Covered
<1>6. GapFor(m)' BY <1>1, <1>5 DEF GapFor, Loaded, BeforeRead, AfterRead
<1> QED BY <1>1, <1>6, GapOne

LEMMA GapMove ==
  ASSUME TypeOK, OneMerger, GapInv, NEW m \in Mergers, MoveTemp(m) PROVE GapInv'
<1>1. /\ UNCHANGED <<sources, main>> /\ at'[m] \in {"waiting", "down"} /\ at[m] = "moving"
      /\ temp # NoState /\ state' = temp
  BY DEF MoveTemp, Return, Goto, TypeOK
<1>2. PICK o : o = temp /\ o = SavedRows' BY <1>1 DEF SavedRows
<1>3. Backed(o, {}) BY <1>1, <1>2 DEF GapInv, GapFor
<1>4. Behind(o)' BY <1>1, <1>3 DEF Backed, Behind, Covered, Current, sources, main
<1>5. Behind(SavedRows)' BY <1>2, <1>4 DEF Behind, Covered
<1>6. GapFor(m)' BY <1>1, <1>5 DEF GapFor, Loaded, BeforeRead, AfterRead
<1> QED BY <1>1, <1>6, GapOne

LEMMA NextGap ==
  ASSUME Uninterrupted
  PROVE  TypeOK /\ JobInv /\ OnceInv /\ GapInv /\ [Next]_vars => GapInv'
<1> SUFFICES ASSUME TypeOK, JobInv, OnceInv, GapInv, [Next]_vars PROVE GapInv' OBVIOUS
<1>0. OneMerger BY DEF Uninterrupted
<1>1. CASE SignalShutdown \/ UNCHANGED vars
  <2>1. UNCHANGED <<sources, main, saved, at, job>> BY <1>1 DEF SignalShutdown, vars
  <2>2. GapFor(Hosted)' BY <2>1, SameSources, GapKept, HostedAssumption
  <2> QED BY <1>0, <2>1, <2>2, GapOne, HostedAssumption
<1>2. ASSUME NEW m \in Mergers, Start(m) \/ Run(m) \/ NoComponents(m) PROVE GapInv'
  <2>1. UNCHANGED <<sources, main, saved>> /\ ~Loaded(m) /\ ~Loaded(m)'
    BY <1>2 DEF Start, Run, FirstMerge, IntervalEnds, MergeAgain, HostedEnds, NoComponents,
       Return, Goto, Loaded, BeforeRead, AfterRead, TypeOK
  <2> QED BY <1>0, <2>1, GapOutside
<1> QED BY <1>0, <1>1, <1>2, UninterruptedStep, GapWrite, GapDelete, GapLoad, GapRebuild,
      GapMeasure, GapRead, GapPut, GapTemp, GapMove

LEMMA InitGap == Init => GapInv
<1> SUFFICES ASSUME Init PROVE GapInv OBVIOUS
<1>1. SavedRows = NoRows BY DEF Init, SavedRows
<1>2. Behind(NoRows) BY DEF Init, Behind
<1>3. \A s \in Sources : Size(s) = 0 BY DEF Init, Size
<1> QED BY <1>1, <1>2, <1>3 DEF Init, GapInv, GapFor, Loaded, BeforeRead, AfterRead

(***************************************************************************)
(* Every step of such a system is one of OnceLog, or none.                 *)
(***************************************************************************)

LEMMA EndWrites ==
  ASSUME TypeOK, RoomInv, NEW s \in Sources, EndRecord(s)
  PROVE  \E r \in Records : Once!Write(r)
<1> DEFINE r == [source |-> s, file |-> file[s], index |-> whole[s] + 1]
<1>1. whole[s] \in Nat /\ whole[s] + 1 \in 1..MaxRecords /\ whole[s] < MaxRecords
  BY BoundsAssumption DEF TypeOK, RoomInv, EndRecord
<1>2. r \in Records /\ r.source = s /\ r.file = file[s] /\ r.index = whole[s] + 1
  BY <1>1 DEF Records, TypeOK
<1>3. /\ file' = file /\ whole'[s] = whole[s] + 1
      /\ \A q \in Sources \ {s} : whole'[q] = whole[q]
  BY DEF EndRecord, TypeOK
<1>4. \A q \in Records : q \in Complete <=> q.file = file[q.source] /\ q.index <= whole[q.source]
  BY CompleteIs DEF Current
<1>5. \A q \in Records : q \in Complete' <=> q.file = file[q.source] /\ q.index <= whole'[q.source]
  BY <1>3, CompleteIs, RecordFields DEF Complete, Current
<1>6. r \notin Complete BY <1>1, <1>2, <1>4
<1>7. Complete \subseteq Records /\ Complete' \subseteq Records BY DEF Complete, Current
<1>8. ASSUME NEW q \in Records PROVE q \in Complete' <=> q \in Complete \cup {r}
  <2>1. q.source \in Sources /\ q.index \in Nat BY RecordFields, BoundsAssumption
  <2>2. CASE q.source # s BY <1>2, <1>3, <1>4, <1>5, <2>1, <2>2
  <2>3. CASE q.source = s
    <3>1. q = [source |-> q.source, file |-> q.file, index |-> q.index] BY DEF Records
    <3>2. q = r <=> q.file = file[s] /\ q.index = whole[s] + 1 BY <1>2, <2>3, <3>1
    <3> QED BY <1>1, <1>2, <1>3, <1>4, <1>5, <2>1, <2>3, <3>2
  <2> QED BY <2>2, <2>3
<1>9. Complete' = Complete \cup {r} BY <1>2, <1>7, <1>8
<1>10. InFront(r) \subseteq Complete
  <2>1. SUFFICES ASSUME NEW q \in InFront(r) PROVE q \in Complete OBVIOUS
  <2>2. q \in Records /\ q.source = s /\ q.file = file[s] /\ q.index < whole[s] + 1
    BY <1>2, <2>1 DEF InFront
  <2>3. q.index \in Nat BY <2>2, RecordFields, BoundsAssumption
  <2> QED BY <1>1, <1>4, <2>2, <2>3
<1>11. merged' = merged BY DEF EndRecord, main
<1> HIDE DEF r
<1> QED BY <1>2, <1>6, <1>9, <1>10, <1>11 DEF Once!Write

LEMMA FlushMerges ==
  ASSUME TypeOK, JobInv, OneMerger, OnceInv, GapInv, NEW m \in Mergers, Flush(m)
  PROVE  \E day \in Days : \E new \in SUBSET Once!Of(day) : Once!Merge(new)
<1>1. /\ UNCHANGED sources /\ job[m].batch # {} /\ job[m].batch \subseteq Records
      /\ Put(Batch(m))
  BY DEF Flush, JobInv, HandInv, TypeOK
<1>2. DayInHand(m) \in Days /\ Batch(m) # {}
  BY <1>1, DayInHandIs DEF Batch, RecordsOf
<1>3. Batch(m) \subseteq Once!Of(DayInHand(m))
  BY DEF Batch, RecordsOf, Once!Of, RecordDay
<1>4. Batch(m) \subseteq Once!Unmerged BY OnceFlush DEF Once!Unmerged
<1>5. Complete' = Complete BY <1>1, SameComplete DEF sources
<1>6. merged' = [r \in Records |-> merged[r] + (IF r \in Batch(m) THEN 1 ELSE 0)]
  <2>1. ASSUME NEW r \in Records
        PROVE  merged'[r] = merged[r] + (IF r \in Batch(m) THEN 1 ELSE 0)
    <3>1. merged[r] \in 0..2 BY DEF TypeOK
    <3>2. CASE r \in Batch(m) BY <3>1, <3>2, OnceFlush
    <3>3. CASE r \notin Batch(m) BY <1>1, <3>1, <3>3, PutCovers
    <3> QED BY <3>2, <3>3
  <2>2. merged' \in [Records -> 0..2] BY <1>1, PutType
  <2> QED BY <2>1, <2>2
<1>7. ASSUME NEW r \in Batch(m), NEW q \in InFront(r)
      PROVE  q \in Batch(m) \/ merged[q] > 0
  <2>1. /\ HandBacked(m) /\ r \in Records /\ r \in Complete
        /\ 2 * r.index <= job[m].offsets[r.source]
    BY <1>1 DEF Batch, Flush, AfterRead, JobInv, HandInv, GapInv, GapFor, OnceInv, OnceFor
  <2>2. q \in Records /\ q.source = r.source /\ q.file = r.file /\ q.index < r.index
    BY DEF InFront
  <2>3. r.source \in Sources /\ r.index \in Nat /\ q.index \in Nat
    BY <2>1, <2>2, RecordFields, BoundsAssumption
  <2>4. r.file = file[r.source] /\ r.index <= whole[r.source] /\ whole[r.source] \in Nat
    BY <2>1, <2>3, CompleteIs, BoundsAssumption DEF Current, TypeOK
  <2>5. job[m].offsets[r.source] \in Nat BY <2>3 DEF TypeOK, Offsets
  <2>6. q \in Covered(job[m].offsets, r.source)
    BY <2>1, <2>2, <2>3, <2>4, <2>5 DEF Covered, Current
  <2>7. merged[q] > 0 \/ q \in job[m].batch BY <2>1, <2>3, <2>6 DEF HandBacked, Backed
  <2> QED BY <2>2, <2>7 DEF Batch, RecordsOf
<1>8. Once!Merge(Batch(m)) BY <1>2, <1>4, <1>5, <1>6, <1>7 DEF Once!Merge
<1> QED BY <1>2, <1>3, <1>8

LEMMA OnceStep ==
  ASSUME TypeOK, RoomInv, JobInv, Uninterrupted, OnceInv, GapInv, [Next]_vars
  PROVE  [Once!Next]_<<Complete, merged>>
<1>0. OneMerger BY DEF Uninterrupted
<1>1. ASSUME UNCHANGED <<file, whole, merged>> PROVE UNCHANGED <<Complete, merged>>
  BY <1>1, SameComplete
<1>2. CASE SignalShutdown \/ UNCHANGED vars
  BY <1>1, <1>2 DEF SignalShutdown, vars, sources, main
<1>3. ASSUME NEW s \in Sources, Write(s) PROVE [Once!Next]_<<Complete, merged>>
  BY <1>1, <1>3, EndWrites DEF Write, BeginRecord, main, Once!Next
<1>4. ASSUME NEW day \in Days, DeleteOutput(day) PROVE Once!Next
  <2>1. Once!Of(day) = RecordsOf(day) BY DEF Once!Of, RecordsOf, RecordDay
  <2>2. Complete' = Complete BY <1>4, SameComplete DEF DeleteOutput, sources
  <2> QED BY <1>4, <2>1, <2>2 DEF DeleteOutput, Once!Delete, Once!Next
<1>5. ASSUME NEW m \in Mergers, OpenOutput(m) PROVE [Once!Next]_<<Complete, merged>>
  <2>1. Once!Of(DayInHand(m)) = RecordsOf(DayInHand(m)) BY DEF Once!Of, RecordsOf, RecordDay
  <2>2. DayInHand(m) \in Days BY <1>5, DayInHandIs DEF OpenOutput
  <2>3. Complete' = Complete BY <1>5, SameComplete DEF OpenOutput, sources
  <2>4. CASE DayInHand(m) \in job[m].rebuild
    BY <1>5, <2>1, <2>2, <2>3, <2>4 DEF OpenOutput, Once!Delete, Once!Next
  <2>5. CASE DayInHand(m) \notin job[m].rebuild
    BY <1>5, <2>3, <2>5 DEF OpenOutput, TypeOK
  <2> QED BY <2>4, <2>5
<1>6. ASSUME NEW m \in Mergers, Flush(m) PROVE Once!Next
  BY <1>0, <1>6, FlushMerges DEF Once!Next
<1>7. ASSUME NEW m \in Mergers, Start(m) \/ Run(m) \/ NoComponents(m) \/ LoadState(m)
               \/ FindRebuilds(m) \/ Measure(m) \/ Read(m) \/ WriteTemp(m) \/ MoveTemp(m)
      PROVE  UNCHANGED <<Complete, merged>>
  BY <1>1, <1>7 DEF Start, Run, FirstMerge, IntervalEnds, MergeAgain, HostedEnds, NoComponents,
     LoadState, FindRebuilds, Measure, Read, WriteTemp, MoveTemp, sources, main
<1> QED BY <1>2, <1>3, <1>4, <1>5, <1>6, <1>7, UninterruptedStep

\* merge_once, by one process that nothing interrupts, takes each finished record
\* of a component log into its main log at most once, and never past one that is
\* in front of it and not merged; a main log that is deleted between two merges
\* starts over in the same way.
THEOREM KeepsOnceLog == Uninterrupted => (Spec => IsOnceLog)
<1> SUFFICES ASSUME Uninterrupted PROVE Spec => IsOnceLog OBVIOUS
<1>1. Init => Once!Init BY InitComplete DEF Init, Once!Init
<1>2. Init => OnceInv /\ GapInv BY InitOnce, InitGap
<1>3. TypeOK /\ JobInv /\ OnceInv /\ GapInv /\ [Next]_vars => OnceInv' /\ GapInv'
  BY NextOnce, NextGap
<1>4. TypeOK /\ RoomInv /\ JobInv /\ OnceInv /\ GapInv /\ [Next]_vars
        => [Once!Next]_<<Complete, merged>>
  BY OnceStep
<1> QED BY <1>1, <1>2, <1>3, <1>4, HandsAreRight, PTL DEF Spec, IsOnceLog, Once!Spec
============================================================================
