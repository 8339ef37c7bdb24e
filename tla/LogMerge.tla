------------------------------ MODULE LogMerge ------------------------------
(***************************************************************************)
(* logger_ac.exe: the incremental merge of component logs into one main    *)
(* log per date (merge_once of merge_detail.hpp), run by the hosted logger *)
(* at intervals (run_hosted of the logger's main.cxx) and by one-shot      *)
(* processes (run_once).  Component logs grow while a merge reads them;    *)
(* merging processes may be killed anywhere, and file operations may fail. *)
(*                                                                         *)
(* A file offset counts half records: each record takes two, and the first *)
(* half of one may be in the file without the second.                      *)
(***************************************************************************)
EXTENDS Naturals, FiniteSets

CONSTANTS
  Sources,      \* component log files
  Days,         \* 1..n, the dates that have a main log
  DayOf(_),     \* the date in a source's name
  Mergers,      \* processes that merge
  Hosted,       \* the one that Main hosts
  Periodic,     \* merge_interval_seconds is not 0
  Kept,         \* merge.state is there, written before any component log
  MaxRecords,   \* bound: records of one file
  MaxFiles,     \* bound: files that follow each other under one name
  MaxMishaps,   \* bound: mishaps in a behaviour
  Mishaps       \* which of them may happen

ASSUME DaysAssumption == Days \subseteq Nat /\ \A s \in Sources : DayOf(s) \in Days
ASSUME BoundsAssumption ==
  MaxRecords \in Nat /\ MaxFiles \in Nat \ {0} /\ MaxMishaps \in Nat
ASSUME FlagsAssumption == Periodic \in BOOLEAN /\ Kept \in BOOLEAN
ASSUME HostedAssumption == Hosted \in Mergers
ASSUME SourcesAssumption == Sources # {}  \* with none, merge_once returns at once

VARIABLES
  present,   \* sources that exist
  file,      \* how many files have come before under each source's name
  whole,     \* complete records of the current file
  begun,     \* whether a further record is begun
  outputs,   \* dates whose main log exists
  merged,    \* how often each record stands in its main log
  state,     \* merge.state: offset of each source (0: no row), or NoState
  temp,      \* merge.state.tmp
  at,        \* where each merging process is
  job,       \* the locals of its merge_once
  signaled,  \* the hosted logger's shutdown_event
  mishaps,   \* mishaps so far
  harmed     \* history: one of them was no killed process and no failed open

sources == <<present, file, whole, begun>>
main    == <<outputs, merged>>
saved   == <<state, temp>>
troubles == <<mishaps, harmed>>
vars == <<sources, main, saved, at, job, signaled, troubles>>

NoState == [s \in {} |-> 0]
NoRows == [s \in Sources |-> 0]
Offsets == [Sources -> Nat]
Records == [source : Sources, file : 0..MaxFiles - 1, index : 1..MaxRecords]
RecordsOf(day) == {r \in Records : DayOf(r.source) = day}
Current(s) == {r \in Records : r.source = s /\ r.file = file[s] /\ r.index <= whole[s]}
Size(s) == 2 * whole[s] + (IF begun[s] THEN 1 ELSE 0)

\* The history "merged" does not tell more than two from two.
UpToTwo(n) == IF n > 2 THEN 2 ELSE n

\* The locals of a process that is not merging.
NoJob == [found |-> {}, existed |-> FALSE, offsets |-> NoRows, rebuild |-> {},
          snapshots |-> NoRows, batch |-> {}]

Mishap(kind) == /\ kind \in Mishaps /\ mishaps < MaxMishaps
                /\ mishaps' = mishaps + 1
                /\ harmed' = (harmed \/ kind \notin {"kill", "open"})

Init ==
  /\ present = {} /\ file = [s \in Sources |-> 0]
  /\ whole = [s \in Sources |-> 0] /\ begun = [s \in Sources |-> FALSE]
  /\ outputs = {} /\ merged = [r \in Records |-> 0]
  /\ state = (IF Kept THEN NoRows ELSE NoState) /\ temp = NoState
  /\ at = [m \in Mergers |-> "down"] /\ job = [m \in Mergers |-> NoJob]
  /\ signaled = FALSE /\ mishaps = 0 /\ harmed = FALSE

-----------------------------------------------------------------------------
(***************************************************************************)
(* The component logs.                                                     *)
(***************************************************************************)

\* write_log_record: part of a record reaches the file, then the rest of it.
BeginRecord(s) ==
  /\ ~begun[s] /\ whole[s] < MaxRecords
  /\ present' = present \cup {s}
  /\ begun' = [begun EXCEPT ![s] = TRUE]
  /\ UNCHANGED <<file, whole, main, saved, at, job, signaled, troubles>>

EndRecord(s) ==
  /\ begun[s]
  /\ begun' = [begun EXCEPT ![s] = FALSE]
  /\ whole' = [whole EXCEPT ![s] = @ + 1]
  /\ UNCHANGED <<present, file, main, saved, at, job, signaled, troubles>>

\* Someone deletes a component log while no merge runs, or a main log: then, or
\* ("deleteOutputNow") at any time nobody has it open.
Merging(m) == at[m] \notin {"down", "waiting"}

DeleteSource(s) ==
  /\ s \in present /\ file[s] + 1 < MaxFiles /\ \A m \in Mergers : ~Merging(m)
  /\ Mishap("deleteSource")
  /\ present' = present \ {s}
  /\ file' = [file EXCEPT ![s] = @ + 1]
  /\ whole' = [whole EXCEPT ![s] = 0]
  /\ begun' = [begun EXCEPT ![s] = FALSE]
  /\ UNCHANGED <<main, saved, at, job, signaled>>

DeleteOutput(day) ==
  /\ day \in outputs /\ \A m \in Mergers : at[m] # "flushing"
  /\ \/ Mishap("deleteOutput") /\ \A m \in Mergers : ~Merging(m)
     \/ Mishap("deleteOutputNow")
  /\ outputs' = outputs \ {day}
  /\ merged' = [r \in Records |-> IF r \in RecordsOf(day) THEN 0 ELSE merged[r]]
  /\ UNCHANGED <<sources, saved, at, job, signaled>>

-----------------------------------------------------------------------------
(***************************************************************************)
(* The processes: run_hosted's worker thread, run_once.                    *)
(***************************************************************************)

Goto(m, label) == at' = [at EXCEPT ![m] = label]

\* Seeded fault: the worker does not look at what ended its wait.
IntervalEndsAnyway(m) ==
  /\ m = Hosted /\ at[m] = "waiting" /\ Periodic
  /\ Goto(m, "loading")
  /\ UNCHANGED <<sources, main, saved, job, signaled, troubles>>

\* Main starts the hosted logger; a one-shot starts at shutdown or by hand.
\* schedule_for: a positive interval merges before the first wait.
Start(m) ==
  /\ at[m] = "down"
  /\ Goto(m, IF m = Hosted THEN (IF Periodic THEN "firstMerge" ELSE "waiting")
             ELSE "loading")
  /\ UNCHANGED <<sources, main, saved, job, signaled, troubles>>

\* The worker thread gets to merge_before_wait.
FirstMerge(m) ==
  /\ at[m] = "firstMerge"
  /\ Goto(m, "loading")
  /\ UNCHANGED <<sources, main, saved, job, signaled, troubles>>

\* WaitForSingleObject times out; with the event set it returns the event.
IntervalEnds(m) ==
  /\ m = Hosted /\ at[m] = "waiting" /\ Periodic /\ ~signaled
  /\ Goto(m, "timedOut")
  /\ UNCHANGED <<sources, main, saved, job, signaled, troubles>>

MergeAgain(m) ==
  /\ at[m] = "timedOut"
  /\ Goto(m, "loading")
  /\ UNCHANGED <<sources, main, saved, job, signaled, troubles>>

\* The shutdown command arrives, or the pipe fails: SetEvent.
SignalShutdown ==
  /\ at[Hosted] # "down" /\ ~signaled
  /\ signaled' = TRUE
  /\ UNCHANGED <<sources, main, saved, at, job, troubles>>

\* The worker sees the event, run_hosted joins it and the process ends.
HostedEnds(m) ==
  /\ m = Hosted /\ at[m] = "waiting" /\ signaled
  /\ Goto(m, "down")
  /\ signaled' = FALSE
  /\ UNCHANGED <<sources, main, saved, job, troubles>>

\* merge_once returns: the worker waits again, a one-shot process ends.
Return(m) ==
  /\ Goto(m, IF m = Hosted THEN "waiting" ELSE "down")
  /\ job' = [job EXCEPT ![m] = NoJob]

-----------------------------------------------------------------------------
(***************************************************************************)
(* merge_once.  Loops over sources touch each source on its own and are    *)
(* one step; what another process can change in between is another step.   *)
(***************************************************************************)

\* There is no directory of component logs yet.
NoComponents(m) ==
  /\ at[m] = "loading" /\ present = {}
  /\ Return(m)
  /\ UNCHANGED <<sources, main, saved, signaled, troubles>>

\* discover_logs: the files under components/ named as component logs.
Discovered == present

\* load_state and discover_logs.
LoadState(m) ==
  /\ at[m] = "loading"
  /\ Goto(m, "checking")
  /\ job' = [job EXCEPT ![m].found = Discovered, ![m].existed = state # NoState,
                        ![m].offsets = IF state = NoState THEN @ ELSE state]
  /\ UNCHANGED <<sources, main, saved, signaled, troubles>>

\* Seeded fault: a missing main log is not noticed.
StaleUnlessMissing(m, s) == Size(s) < job[m].offsets[s]

\* The source shrank, or was merged into a main log that is gone.
Stale(m, s) ==
  \/ Size(s) < job[m].offsets[s]
  \/ job[m].offsets[s] > 0 /\ DayOf(s) \notin outputs

\* rebuild_dates, and state[log.key] = 0 for the sources of those dates.
FindRebuilds(m) ==
  LET days == {DayOf(s) : s \in IF job[m].existed
                                 THEN {s \in job[m].found : Stale(m, s)}
                                 ELSE job[m].found}
  IN /\ at[m] = "checking"
     /\ Goto(m, "measuring")
     /\ job' = [job EXCEPT
          ![m].rebuild = days,
          ![m].offsets = [s \in Sources |->
             IF s \in job[m].found /\ DayOf(s) \in days THEN 0 ELSE @[s]]]
     /\ UNCHANGED <<sources, main, saved, signaled, troubles>>

\* The snapshots: how much of each source this merge will look at.
Measure(m) ==
  /\ at[m] = "measuring"
  /\ Goto(m, "reading")
  /\ job' = [job EXCEPT ![m].snapshots =
       [s \in Sources |-> IF s \in job[m].found THEN Size(s) ELSE 0]]
  /\ UNCHANGED <<sources, main, saved, signaled, troubles>>

\* Seeded fault: a last line without its newline is taken for a record.
RecordsBetweenAndCut(s, from, to) ==
  {r \in Records : /\ r.source = s /\ r.file = file[s]
                   /\ 2 * (r.index - 1) >= from /\ 2 * (r.index - 1) < to}

\* read_records between two offsets: the complete records, and the offset
\* after the last of them.
RecordsBetween(s, from, to) ==
  {r \in Current(s) : 2 * (r.index - 1) >= from /\ 2 * r.index <= to}

\* Seeded fault: line_start is not moved to the end of the last record.
ConsumedLineStart(s, from, to) == IF from >= to THEN from ELSE 2 * ((to - 1) \div 2)

\* Seeded fault: position instead of line_start, with a record begun.
ConsumedPosition(s, from, to) == IF from >= to THEN from ELSE to

Consumed(s, from, to) == IF from >= to THEN from ELSE 2 * (to \div 2)

Read(m) ==
  LET j == job[m]
  IN /\ at[m] = "reading"
     /\ Goto(m, "opening")
     /\ job' = [job EXCEPT
          ![m].batch = UNION {RecordsBetween(s, j.offsets[s], j.snapshots[s]) :
                              s \in j.found},
          ![m].offsets = [s \in Sources |->
             IF s \in j.found THEN Consumed(s, @[s], j.snapshots[s]) ELSE @[s]]]
     /\ UNCHANGED <<sources, main, saved, signaled, troubles>>

\* records_by_date is visited in the order of dates.
DayInHand(m) == CHOOSE day \in Days :
  /\ \E r \in job[m].batch : DayOf(r.source) = day
  /\ \A r \in job[m].batch : day <= DayOf(r.source)
Batch(m) == job[m].batch \cap RecordsOf(DayInHand(m))

\* The main log is created, and emptied when its date is rebuilt.
OpenOutput(m) ==
  /\ at[m] = "opening" /\ job[m].batch # {}
  /\ Goto(m, "flushing")
  /\ outputs' = outputs \cup {DayInHand(m)}
  /\ merged' = [r \in Records |->
       IF r \in RecordsOf(DayInHand(m)) /\ DayInHand(m) \in job[m].rebuild
       THEN 0 ELSE merged[r]]
  /\ UNCHANGED <<sources, saved, job, signaled, troubles>>

OpenFails(m) ==
  /\ at[m] = "opening" /\ job[m].batch # {} /\ Mishap("open")
  /\ Return(m)
  /\ UNCHANGED <<sources, main, saved, signaled>>

Put(records) ==
  merged' = [r \in Records |-> IF r \in records THEN UpToTwo(merged[r] + 1)
                               ELSE merged[r]]

\* The stream's buffer reaches the file, at the latest when it is closed.
Flush(m) ==
  /\ at[m] = "flushing"
  /\ Put(Batch(m))
  /\ Goto(m, "opening")
  /\ job' = [job EXCEPT ![m].batch = @ \ Batch(m)]
  /\ UNCHANGED <<sources, outputs, saved, signaled, troubles>>

\* A write fails.  "!output" sees it when the buffer overflowed before.
FlushFails(m) ==
  /\ at[m] = "flushing" /\ Mishap("write")
  /\ \E done \in SUBSET Batch(m) : done # Batch(m) /\ Put(done)
  /\ Return(m)
  /\ UNCHANGED <<sources, outputs, saved, signaled>>

\* The destructor's flush fails, after the check; nobody hears of it.
CloseFails(m) ==
  /\ at[m] = "flushing" /\ Mishap("write")
  /\ \E done \in SUBSET Batch(m) : done # Batch(m) /\ Put(done)
  /\ Goto(m, "opening")
  /\ job' = [job EXCEPT ![m].batch = @ \ Batch(m)]
  /\ UNCHANGED <<sources, outputs, saved, signaled>>

\* save_state: write merge.state.tmp ...
WriteTemp(m) ==
  /\ at[m] = "opening" /\ job[m].batch = {}
  /\ temp' = job[m].offsets
  /\ Goto(m, "moving")
  /\ UNCHANGED <<sources, main, state, job, signaled, troubles>>

\* The temporary file cannot be opened, or its last rows fail to be written when
\* it is closed.
TempFails(m) ==
  /\ at[m] = "opening" /\ job[m].batch = {} /\ Mishap("open")
  /\ Return(m)
  /\ UNCHANGED <<sources, main, saved, signaled>>

TempCut(m) ==
  /\ at[m] = "opening" /\ job[m].batch = {} /\ Mishap("write")
  /\ \E rows \in SUBSET Sources :
       temp' = [s \in Sources |-> IF s \in rows THEN job[m].offsets[s] ELSE 0]
  /\ Goto(m, "moving")
  /\ UNCHANGED <<sources, main, state, job, signaled>>

\* ... and move it over merge.state, whoever wrote it last.
MoveTemp(m) ==
  /\ at[m] = "moving" /\ temp # NoState
  /\ state' = temp /\ temp' = NoState
  /\ Return(m)
  /\ UNCHANGED <<sources, main, signaled, troubles>>

\* Another process has moved it already, or the move is refused.
MoveFails(m) ==
  /\ at[m] = "moving"
  /\ \/ temp = NoState /\ UNCHANGED troubles
     \/ Mishap("open")
  /\ Return(m)
  /\ UNCHANGED <<sources, main, saved, signaled>>

\* The process is killed, with its job or by the end of the system; what it
\* had buffered is in the file or not.
Killed(m) ==
  /\ at[m] # "down" /\ Mishap("kill")
  /\ IF at[m] = "flushing" THEN \E done \in SUBSET Batch(m) : Put(done)
     ELSE UNCHANGED merged
  /\ Goto(m, "down")
  /\ job' = [job EXCEPT ![m] = NoJob]
  /\ IF m = Hosted THEN signaled' = FALSE ELSE UNCHANGED signaled
  /\ UNCHANGED <<sources, outputs, saved>>

-----------------------------------------------------------------------------
Write(s) == BeginRecord(s) \/ EndRecord(s)

MergeStep(m) ==
  \/ NoComponents(m) \/ LoadState(m) \/ FindRebuilds(m) \/ Measure(m) \/ Read(m)
  \/ OpenOutput(m) \/ Flush(m) \/ WriteTemp(m) \/ MoveTemp(m) \/ MoveFails(m)

Run(m) == FirstMerge(m) \/ IntervalEnds(m) \/ MergeAgain(m) \/ HostedEnds(m)

Trouble(m) == OpenFails(m) \/ FlushFails(m) \/ CloseFails(m)
              \/ TempFails(m) \/ TempCut(m) \/ Killed(m)

Next ==
  \/ \E s \in Sources : Write(s) \/ DeleteSource(s)
  \/ \E day \in Days : DeleteOutput(day)
  \/ \E m \in Mergers : Start(m) \/ Run(m) \/ MergeStep(m) \/ Trouble(m)
  \/ SignalShutdown

Spec == Init /\ [][Next]_vars

\* Threads run on; the interval elapses; Main starts its logger.
Fairness == \A m \in Mergers : WF_vars(Start(m)) /\ WF_vars(Run(m) \/ MergeStep(m))
FairSpec == Spec /\ Fairness

-----------------------------------------------------------------------------
Places == {"down", "firstMerge", "waiting", "timedOut", "loading", "checking",
           "measuring", "reading", "opening", "flushing", "moving"}

TypeOK ==
  /\ present \subseteq Sources /\ file \in [Sources -> 0..MaxFiles - 1]
  /\ whole \in [Sources -> 0..MaxRecords] /\ begun \in [Sources -> BOOLEAN]
  /\ outputs \subseteq Days /\ merged \in [Records -> 0..2]
  /\ state \in Offsets \cup {NoState} /\ temp \in Offsets \cup {NoState}
  /\ at \in [Mergers -> Places]
  /\ job \in [Mergers -> [found : SUBSET Sources, existed : BOOLEAN,
                          offsets : Offsets, rebuild : SUBSET Days,
                          snapshots : Offsets, batch : SUBSET Records]]
  /\ signaled \in BOOLEAN /\ mishaps \in 0..MaxMishaps

\* What merge.state says was consumed is in the main log: no record is skipped
\* because another was begun, another process merged, or a merge was cut short.
Covered(offsets, s) == {r \in Current(s) : 2 * r.index <= offsets[s]}
NothingLost ==
  (state # NoState /\ ~harmed) =>
    \A s \in present : \A r \in Covered(state, s) : merged[r] > 0

\* No record is merged before it is complete, none from a file that is gone
\* comes in anew.
OnlyComplete ==
  [][\A r \in Records : merged'[r] > merged[r] => r \in Current(r.source)]_vars

\* A shutdown request ends the hosted logger.
ShutdownEndsHosted == signaled ~> at[Hosted] = "down"

\* The main logs take the records of the component logs once, without gaps.
Complete == UNION {Current(s) : s \in Sources}
RecordDay(r) == DayOf(r.source)
InFront(r) == {q \in Records : /\ q.source = r.source /\ q.file = r.file
                             /\ q.index < r.index}
Once == INSTANCE OnceLog WITH
          written <- Complete, DayOf <- RecordDay, Before <- InFront
IsOnceLog == Once!Spec
EveryRecordMerged == Once!Settles

-----------------------------------------------------------------------------
(***************************************************************************)
(* The inductive invariants behind these properties.                       *)
(***************************************************************************)
BeforeRead(m) == at[m] \in {"checking", "measuring", "reading"}
AfterRead(m) == at[m] \in {"opening", "flushing"}
Loaded(m) == BeforeRead(m) \/ AfterRead(m) \/ at[m] = "moving"

\* A record is begun only while there is room for it.
RoomInv == \A s \in Sources : begun[s] => whole[s] < MaxRecords

\* A merge holds records in hand between its read and its last flush, and only
\* complete ones; a main log holds no record of a date without one.
HandInv(m) ==
  /\ ~Loaded(m) => job[m] = NoJob
  /\ ~AfterRead(m) => job[m].batch = {}
  /\ job[m].batch \subseteq Complete
  /\ at[m] = "flushing" => job[m].batch # {} /\ DayInHand(m) \in outputs
JobInv == /\ \A m \in Mergers : HandInv(m)
          /\ \A r \in Records : merged[r] > 0 => DayOf(r.source) \in outputs

\* Offsets that stand between records, none beyond what is complete ...
Aligned(offsets) ==
  \A s \in Sources : offsets[s] % 2 = 0 /\ offsets[s] <= 2 * whole[s]
\* ... and say of no record that it is merged, unless it is or is in hand.
Backed(offsets, batch) ==
  \A s \in Sources : \A r \in Covered(offsets, s) : merged[r] > 0 \/ r \in batch

\* Nothing but killed processes and failed opens so far: whatever offsets are
\* saved, about to be, or a merge starts from, the main logs back them.  A date
\* is rebuilt only while there is no merge.state, and then as a whole.
OneMerger == \A m \in Mergers : m = Hosted
LossFor(m) ==
  LET j == job[m] IN
  /\ at[m] = "moving" /\ temp # NoState => Aligned(temp) /\ Backed(temp, {})
  /\ BeforeRead(m) \/ AfterRead(m) => Aligned(j.offsets) /\ Backed(j.offsets, j.batch)
  /\ at[m] = "checking" => j.existed = (state # NoState) /\ j.rebuild = {}
  /\ at[m] = "checking" /\ state = NoState => j.offsets = NoRows
  /\ at[m] = "reading" => \A s \in j.found : j.snapshots[s] <= Size(s)
  /\ state # NoState => j.rebuild = {}
  /\ BeforeRead(m) => \A s \in Sources : DayOf(s) \in j.rebuild => j.offsets[s] = 0
  /\ \A q \in j.batch : DayOf(q.source) \in j.rebuild =>
       \A s \in Sources : DayOf(s) = DayOf(q.source) => Covered(j.offsets, s) \subseteq j.batch
LossInv ==
  /\ Kept => state # NoState
  /\ state # NoState => Aligned(state) /\ Backed(state, {})
  /\ \A m \in Mergers : LossFor(m)
NoLoss == ~harmed => LossInv

\* One merging process that nothing interrupts: what stands in the main logs is
\* behind the offsets and stands there once, and what is in hand is not there.
Once1(offsets) ==
  \A r \in Records : merged[r] > 0 =>
    merged[r] = 1 /\ r \in Complete /\ 2 * r.index <= offsets[r.source]
SavedRows == IF state = NoState THEN NoRows ELSE state
OnceFor(m) ==
  LET j == job[m] IN
  /\ ~Loaded(m) => Aligned(SavedRows) /\ Once1(SavedRows)
  /\ BeforeRead(m) \/ AfterRead(m) => Aligned(j.offsets) /\ Once1(j.offsets)
  /\ at[m] = "checking" /\ ~j.existed => j.offsets = NoRows
  /\ at[m] = "reading" =>
       \A s \in j.found : j.offsets[s] <= j.snapshots[s] /\ j.snapshots[s] <= Size(s)
  /\ at[m] = "moving" => temp # NoState /\ Aligned(temp) /\ Once1(temp)
  /\ \A r \in j.batch : merged[r] = 0 /\ 2 * r.index <= j.offsets[r.source]
OnceInv == \A m \in Mergers : OnceFor(m)

\* ... and, where main logs are deleted only between two merges: what the offsets
\* pass over is in the main log of every date that has one.  A merge starts over
\* for the dates that have none, and then leaves nothing out.
Behind(offsets) ==
  \A s \in Sources : DayOf(s) \in outputs =>
    \A r \in Covered(offsets, s) : merged[r] > 0
HandBacked(m) ==
  LET j == job[m] IN
  /\ Backed(j.offsets, j.batch)
  /\ \A q \in j.batch : DayOf(q.source) \in j.rebuild =>
       \A s \in Sources : DayOf(s) = DayOf(q.source) => Covered(j.offsets, s) \subseteq j.batch
GapFor(m) ==
  LET j == job[m] IN
  /\ ~Loaded(m) => Behind(SavedRows)
  /\ at[m] = "checking" =>
       Behind(j.offsets) /\ \A s \in Sources \ j.found : j.offsets[s] = 0
  /\ at[m] \in {"measuring", "reading"} =>
       /\ Backed(j.offsets, {})
       /\ \A s \in Sources : DayOf(s) \in j.rebuild => j.offsets[s] = 0
  /\ AfterRead(m) => HandBacked(m)
  /\ at[m] = "moving" => Backed(temp, {})
GapInv == /\ \A s \in Sources \ present : Size(s) = 0
          /\ \A m \in Mergers : GapFor(m)

=============================================================================
