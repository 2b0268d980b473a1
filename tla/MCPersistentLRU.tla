-------------------------- MODULE MCPersistentLRU --------------------------
(* Small instances of PersistentLRU for TLC: an identity lives longer than *)
(* the note that a name has none.                                          *)
EXTENDS PersistentLRU

CONSTANTS resolver, authors,   \* caches
          name, name2, author  \* keys

Entry(k, v, left) == [key |-> k, value |-> v, left |-> left]

StoredLongAndShort(c) ==
  IF c = resolver
  THEN {Entry(name, "identity", 2), Entry(name, "null", 1), Entry(name2, "identity", 2)}
  ELSE {Entry(author, "verified", 2)}

\* The class by itself on a log, as its tests use it; and the two caches of
\* index.js, on a table or on one log.
InRows == [backend |-> "sqlite", caches |-> {resolver, authors}, removes |-> FALSE]
OneLog == [backend |-> "jsonl", caches |-> {resolver}, removes |-> TRUE]
TwoLog == [backend |-> "jsonl", caches |-> {resolver, authors}, removes |-> FALSE]

Apart  == {InRows, OneLog}
Shared == {TwoLog}
=============================================================================
