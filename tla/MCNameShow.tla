----------------------------- MODULE MCNameShow -----------------------------
(* Small instances of NameShow for TLC. *)
EXTENDS NameShow

CONSTANTS c1, c2

TwoCallers == {c1, c2}
OneCaller  == {c1}

\* Every host fails and answers at will.
Flapping == [up |-> {}, down |-> {}, definitive |-> FALSE]

\* One host is up, the others are down; names may have expired.
OneUp == [up |-> {N - 1}, down |-> 0..(N - 2), definitive |-> TRUE]

FlappingOrOneUp == {Flapping, OneUp}

\* Hosts flap and names may have expired.
FlappingExpiring == {[Flapping EXCEPT !.definitive = TRUE]}
=============================================================================
