--------------------------- MODULE OwnerContract ----------------------------
(***************************************************************************)
(* What the initialisers rely on when they run the program that owns a     *)
(* file with --init or --seed: it comes to an end with a code, 0 only when *)
(* the file is there, and no run of it takes the file away.  The file can  *)
(* appear in a run that then fails.                                        *)
(***************************************************************************)
CONSTANT Instances
VARIABLES here, run

vars == <<here, run>>

Init == /\ here \in BOOLEAN
        /\ run = [i \in Instances |-> "idle"]

Begin(i) == /\ run[i] # "running"
            /\ run' = [run EXCEPT ![i] = "running"]
            /\ UNCHANGED here

Appear == /\ \E i \in Instances : run[i] = "running"
          /\ here' = TRUE
          /\ UNCHANGED run

Finish(i) ==
  /\ run[i] = "running"
  /\ here' \in {here, TRUE}
  /\ \/ here' /\ run' = [run EXCEPT ![i] = "zero"]
     \/ run' = [run EXCEPT ![i] = "failed"]

Next == Appear \/ \E i \in Instances : Begin(i) \/ Finish(i)
Spec == Init /\ [][Next]_vars
=============================================================================
