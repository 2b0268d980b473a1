--------------------------- MODULE MCTokenBucket ---------------------------
(* Small instances of TokenBucket for TLC. *)
EXTENDS TokenBucket

CONSTANTS a, b, c

Three == {a, b, c}
=============================================================================
