------------------------------ MODULE OnceLog ------------------------------
(***************************************************************************)
(* What the logger component promises about the merged main log: it holds  *)
(* each complete record of the component logs at most once, takes only     *)
(* records that were written, and none before those in front of it.  A     *)
(* main log that is deleted is built up again from the component logs.     *)
(* That all of them get there in the end is Settles, not part of Spec.     *)
(***************************************************************************)
EXTENDS Naturals

CONSTANTS
  Records,   \* every record a component log may come to hold
  Days,      \* the dates of main logs
  DayOf(_),  \* the date of a record
  Before(_)  \* the records in front of one in its component log

VARIABLES
  written,   \* records complete in the component logs
  merged     \* how often each record stands in its main log

Unmerged == {r \in written : merged[r] = 0}
Of(day) == {r \in Records : DayOf(r) = day}

Init == written = {} /\ merged = [r \in Records |-> 0]

\* A component log grows at its end.
Write(r) == /\ r \notin written /\ Before(r) \subseteq written
            /\ written' = written \cup {r}
            /\ UNCHANGED merged

\* A merge adds some new records of one date, and leaves none out between them
\* and what was merged before.
Merge(new) ==
  /\ new # {} /\ new \subseteq Unmerged
  /\ \A r \in new : \A q \in Before(r) : q \in new \/ merged[q] > 0
  /\ merged' = [r \in Records |-> merged[r] + (IF r \in new THEN 1 ELSE 0)]
  /\ UNCHANGED written

\* Someone deletes the main log of a date.
Delete(day) ==
  /\ merged' = [r \in Records |-> IF r \in Of(day) THEN 0 ELSE merged[r]]
  /\ UNCHANGED written

Next == \/ \E r \in Records : Write(r)
        \/ \E day \in Days : \/ \E new \in SUBSET Of(day) : Merge(new)
                             \/ Delete(day)

Spec == Init /\ [][Next]_<<written, merged>>

\* Every record gets into its main log, once.
Settles == \A r \in Records : r \in written ~> merged[r] = 1
=============================================================================
