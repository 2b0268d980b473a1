---------------------------- MODULE MCLRUCache ----------------------------
(* Small instances of LRUCache for TLC. *)
EXTENDS LRUCache

CONSTANTS k1, k2, k3, u, v

ThreeKeys == {k1, k2, k3}
TwoValues == {u, v}
ZeroTtl   == {0, 1}
=============================================================================
