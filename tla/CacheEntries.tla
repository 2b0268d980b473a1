---------------------------- MODULE CacheEntries ----------------------------
(***************************************************************************)
(* Entries of a cache with a time to live, as the modules that use or      *)
(* specify a cache see them: [value, left], where left is the time the     *)
(* entry still has, or NoEntry.                                            *)
(***************************************************************************)
EXTENDS Integers

CONSTANTS NoEntry,   \* "not cached"
          Forever    \* the time left of an entry that does not expire

\* The entry set with this time to live; 0 means that it does not expire.
Fresh(value, ttl) ==
  [value |-> value, left |-> IF ttl > 0 THEN ttl ELSE Forever]

\* The entry one unit of time later: it is gone when its time is up.
Aged(e) == IF e = NoEntry \/ e.left = Forever THEN e
           ELSE IF e.left = 1 THEN NoEntry
           ELSE [e EXCEPT !.left = @ - 1]

\* The cache without the keys of lost.
Without(cache, lost) ==
  [k \in DOMAIN cache |-> IF k \in lost THEN NoEntry ELSE cache[k]]
=============================================================================
