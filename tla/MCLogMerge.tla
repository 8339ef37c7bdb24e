----------------------------- MODULE MCLogMerge -----------------------------
(* LogMerge for two component logs, of one date or of two.                  *)
EXTENDS LogMerge
CONSTANTS a, b, hosted, once
OneDay(s) == 1
TwoDays(s) == IF s = a THEN 1 ELSE 2
=============================================================================
