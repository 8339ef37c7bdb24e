--------------------------- MODULE MCHostSession ---------------------------
(* HostSession with named components: two at a time are enough for every    *)
(* order of start, request and settling, and keep the state space small.    *)
EXTENDS HostSession
CONSTANTS lg, ab, tb
============================================================================
