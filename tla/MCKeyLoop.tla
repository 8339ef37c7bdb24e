------------------------------ MODULE MCKeyLoop -----------------------------
(* KeyLoop for the seed keymap and three programs: "near" has a place on the *)
(* taskbar, "far" and "pad" have none; the path of "pad" is not worked out.  *)
EXTENDS KeyLoop
CONSTANTS f1, f2, n1, n2, none
Both(action) == [primary |-> action, secondary |-> action]
SeedBinding == [zero  |-> [primary |-> "lock", secondary |-> "unlock"],
                one   |-> [primary |-> "command", secondary |-> "close"],
                two   |-> Both("near"),
                three |-> [primary |-> "far", secondary |-> "pad"]]
MCBinding == [k \in Keys |-> SeedBinding[k]]
MCAppOf == [w \in Windows |-> IF w \in {f1, f2} THEN "far" ELSE "near"]
=============================================================================
