---- MODULE MCCrashRestart ----
(* CrashRestart with the Auto Core the user runs, its successor, and another. *)
EXTENDS CrashRestart
CONSTANTS a, b, c, nobody
====
