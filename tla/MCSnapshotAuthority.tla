------------------------- MODULE MCSnapshotAuthority -------------------------
(* Connections to one snapshot authority, for TLC. *)
EXTENDS SnapshotAuthority
CONSTANTS c1, c2
=============================================================================
