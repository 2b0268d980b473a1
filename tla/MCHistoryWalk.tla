--------------------------- MODULE MCHistoryWalk ---------------------------
(* Small instances of HistoryWalk for TLC. *)
EXTENDS HistoryWalk, TLC

CONSTANTS c1, c2

Callers == Permutations(Lookups)
=============================================================================
