--------------------------- MODULE PersistentLRU ---------------------------
(***************************************************************************)
(* The cache that survives restarts (src/src/persistent-cache.js), in the  *)
(* deployments that src/src/index.js makes of it: a hot map in memory, and *)
(* behind it a SQLite table or a log of records, one line per mutation.    *)
(*                                                                         *)
(*   - The log is replayed at start, and rewritten from the hot map after  *)
(*     COMPACT_EVERY appends: a new file is written and renamed over it.   *)
(*     Another cache on the same path then holds a handle of a file that   *)
(*     nobody will read again ("orphan").                                  *)
(*   - Every call of the file system may fail.  A failure is logged and    *)
(*     the cache goes on in memory.  An append may be cut short, which     *)
(*     leaves a torn line; the next line becomes part of it.               *)
(*   - The process may be killed between any two operations, and in the    *)
(*     middle of a compaction (which leaves the old log).                  *)
(*                                                                         *)
(* Expiry times are modelled by the time left, 0 for "expired"; the        *)
(* default time to live is assumed not to be 0 (see LRUCache for that).    *)
(***************************************************************************)
EXTENDS Integers, Sequences, SequencesExt, FiniteSets

CONSTANTS
  Deployments,     \* of [backend |-> "sqlite" or "jsonl", caches |-> a set,
                   \* removes |-> whether its users call delete and clear]
  Stored(_),       \* what a cache is given: entries [key, value, left]
  MAX,             \* capacity of each hot map
  COMPACT_EVERY,   \* compactEveryWrites
  MAX_LOG          \* bound on the length of the log

Forever == -1      \* the time left of an entry that does not expire

Caches  == UNION {d.caches : d \in Deployments}
Entries == UNION {Stored(c) : c \in Caches}
KeysOf(c) == {e.key : e \in Stored(c)}
Keys      == UNION {KeysOf(c) : c \in Caches}

ASSUME PersistentAssumption ==
  /\ MAX \in Nat \ {0} /\ COMPACT_EVERY \in Nat \ {0} /\ MAX_LOG \in Nat
  /\ Entries \subseteq [key : Keys, value : {e.value : e \in Entries},
                       left : (Nat \ {0}) \cup {Forever}]

VARIABLES
  deployment,  \* one of Deployments
  hot,         \* per cache the entries of its Map, in the order of the Map
  log,         \* the lines of the file at the path (jsonl)
  handle,      \* per cache its append handle: "open", "orphan" or "closed"
  writes,      \* per cache its appends since start or compaction
  rows,        \* the table (sqlite): [ns, entry]
  latest,      \* ghost: per key the entry last set, unless deleted or expired
  given,       \* ghost: every entry ever set, until it expires
  lossy        \* ghost: some write was lost by a failure

fileVars == <<log, handle, writes>>
ghosts   == <<latest, given>>
vars     == <<deployment, hot, fileVars, rows, ghosts, lossy>>

\* A map, as the sequence of its entries.
Live(e)         == e.left # 0
Aged(e)         == IF e.left > 0 THEN [e EXCEPT !.left = @ - 1] ELSE e
At(map, k)      == {n \in DOMAIN map : map[n].key = k}
Has(map, k)     == At(map, k) # {}
Without(map, k) == IF Has(map, k) THEN RemoveAt(map, CHOOSE n \in At(map, k) : TRUE) ELSE map

\* Deleted and set again, which puts it last.
PutLast(map, e) == Append(Without(map, e.key), e)

\* Set in place: a key that is there keeps its position.
Put(map, e) == IF Has(map, e.key)
               THEN [n \in DOMAIN map |-> IF map[n].key = e.key THEN e ELSE map[n]]
               ELSE Append(map, e)

\* The first entries of a map leave until it has its capacity.
Excess(map)  == IF Len(map) > MAX THEN Len(map) - MAX ELSE 0
Pushed(map)  == {map[n].key : n \in 1..Excess(map)}
Trimmed(map) == SubSeq(map, Excess(map) + 1, Len(map))

-----------------------------------------------------------------------------
(* The log *)

SetLine(e) == [op |-> "set", entry |-> e]
DelLine(k) == [op |-> "del", key |-> k]
ClearLine  == [op |-> "clear"]
TornLine   == [op |-> "torn"]

EndsTorn(lines) == lines # <<>> /\ Last(lines) = TornLine

\* Mutants of Replayed1: an expired line is passed over; it is taken for an
\* entry that does not expire.
Replayed1Skipping(map, line) ==
  CASE line.op = "set"   -> IF Live(line.entry) THEN Put(map, line.entry) ELSE map
    [] line.op = "del"   -> Without(map, line.key)
    [] line.op = "clear" -> <<>>
    [] OTHER             -> map

Replayed1Forever(map, line) ==
  CASE line.op = "set"   -> Put(map, [line.entry EXCEPT !.left = Forever])
    [] line.op = "del"   -> Without(map, line.key)
    [] line.op = "clear" -> <<>>
    [] OTHER             -> map

\* One line is replayed.  An expired one removes what was set before it.
Replayed1(map, line) ==
  CASE line.op = "set"   -> IF Live(line.entry) THEN Put(map, line.entry)
                            ELSE Without(map, line.entry.key)
    [] line.op = "del"   -> Without(map, line.key)
    [] line.op = "clear" -> <<>>
    [] OTHER             -> map

Replayed(lines) ==
  LET map[n \in 0..Len(lines)] ==
        IF n = 0 THEN <<>> ELSE Replayed1(map[n - 1], lines[n])
  IN  map[Len(lines)]

\* The log that a compaction writes.
Dump(map) == [n \in DOMAIN map |-> SetLine(map[n])]

\* The log after a line is written to its end, whole or cut short.
Extended(line) == IF EndsTorn(log) THEN Front(log) ELSE Append(log, line)
CutShort       == IF EndsTorn(log) THEN log ELSE Append(log, TornLine)

\* The handles after c has renamed a new file over the log.
Renamed(c, own) ==
  [d \in Caches |-> IF d = c THEN own
                    ELSE IF handle[d] = "open" THEN "orphan" ELSE handle[d]]

\* Mutant of Compact: the log is rewritten in place.
CompactInPlace(c, map, lines) ==
  \/ /\ log' = Dump(map)
     /\ handle' = Renamed(c, "open")
     /\ writes' = [writes EXCEPT ![c] = 0]
  \/ /\ log' = <<>>
     /\ UNCHANGED handle
     /\ writes' = [writes EXCEPT ![c] = COMPACT_EVERY]

\* The log, being lines, is compacted from the map: done, or failed while the
\* new file was written, at the rename, or when it was opened again.  A count
\* that is not reset stays where the next append compacts again.
Compact(c, map, lines) ==
  \/ /\ log' = Dump(map)
     /\ handle' = Renamed(c, "open")
     /\ writes' = [writes EXCEPT ![c] = 0]
  \/ /\ log' = lines
     /\ handle' \in {handle, [handle EXCEPT ![c] = "closed"]}
     /\ writes' = [writes EXCEPT ![c] = COMPACT_EVERY]
  \/ /\ log' = Dump(map)
     /\ handle' = Renamed(c, "closed")
     /\ writes' = [writes EXCEPT ![c] = COMPACT_EVERY]

\* _appendJsonl, with the map that a compaction would write.  A closed handle
\* refuses, or its number belongs to another file by now, which takes the line.
AppendJsonl(c, line, map) ==
  /\ \E outcome \in {"written", "short", "refused"} :
       LET reached == handle[c] = "open" /\ outcome # "refused"
           lines   == CASE ~reached                        -> log
                        [] reached /\ outcome = "short"   -> CutShort
                        [] reached /\ outcome = "written" -> Extended(line)
       IN  /\ Len(lines) <= MAX_LOG
           /\ lossy' = (lossy \/ outcome # "written" \/ handle[c] = "closed" \/ EndsTorn(log))
           /\ \/ /\ outcome = "refused"
                 /\ UNCHANGED fileVars
              \/ /\ outcome # "refused"
                 /\ writes[c] + 1 < COMPACT_EVERY
                 /\ log' = lines
                 /\ writes' = [writes EXCEPT ![c] = @ + 1]
                 /\ UNCHANGED handle
              \/ /\ outcome # "refused"
                 /\ writes[c] + 1 >= COMPACT_EVERY
                 /\ Compact(c, map, lines)
  /\ UNCHANGED rows

-----------------------------------------------------------------------------
(* The table *)

Row(c, e)      == [ns |-> c, entry |-> e]
RowsOf(c, ks)  == {r \in rows : r.ns = c /\ r.entry.key \in ks}

\* The table loses and gains these rows, or the statement fails; the rows of
\* evicted keys go by statements of their own.
Execute(lost, gained, evicted) ==
  /\ \E done \in BOOLEAN, gone \in SUBSET evicted :
       /\ rows' = (IF done THEN (rows \ lost) \cup gained ELSE rows) \ gone
       /\ lossy' = (lossy \/ ~done)
  /\ UNCHANGED fileVars

-----------------------------------------------------------------------------
(* Operations *)

\* The entry g says what e says, for at least as long.
Outlasts(g, e) ==
  /\ g.key = e.key /\ g.value = e.value
  /\ g.left = Forever \/ (e.left # Forever /\ e.left <= g.left)

Sqlite == deployment.backend = "sqlite"

Init ==
  /\ deployment \in Deployments
  /\ hot = [c \in Caches |-> <<>>]
  /\ log = <<>>
  /\ handle = [c \in Caches |-> "open"]
  /\ writes = [c \in Caches |-> 0]
  /\ rows = {}
  /\ latest = {} /\ given = {}
  /\ lossy = FALSE

Set(c, e) ==
  LET map == PutLast(hot[c], e)
  IN  /\ hot' = [hot EXCEPT ![c] = Trimmed(map)]
      /\ IF Sqlite
         THEN Execute(RowsOf(c, {e.key}), {Row(c, e)}, RowsOf(c, Pushed(map)))
         ELSE AppendJsonl(c, SetLine(e), map)
      /\ latest' = {l \in latest : l.key # e.key} \cup {e}
      /\ given' = {g \in given : ~Outlasts(e, g)} \cup {e}
      /\ UNCHANGED deployment

Forget(c, k) ==
  LET map == Without(hot[c], k)
  IN  /\ hot' = [hot EXCEPT ![c] = map]
      /\ IF Sqlite
         THEN Execute(RowsOf(c, {k}), {}, {})
         ELSE AppendJsonl(c, DelLine(k), map)
      /\ latest' = {l \in latest : l.key # k}
      /\ UNCHANGED <<deployment, given>>

Delete(c, k) ==
  /\ deployment.removes
  /\ Forget(c, k)

\* get: an expired entry is deleted, from the disk too; a hit moves last.
Get(c, e) ==
  \/ /\ ~Live(e)
     /\ Forget(c, e.key)
  \/ /\ Live(e)
     /\ hot' = [hot EXCEPT ![c] = PutLast(@, e)]
     /\ UNCHANGED <<deployment, fileVars, rows, ghosts, lossy>>

Clear(c) ==
  /\ deployment.removes
  /\ hot' = [hot EXCEPT ![c] = <<>>]
  /\ IF Sqlite
     THEN Execute(RowsOf(c, Keys), {}, {})
     ELSE AppendJsonl(c, ClearLine, <<>>)
  /\ latest' = {l \in latest : l.key \notin KeysOf(c)}
  /\ UNCHANGED <<deployment, given>>

-----------------------------------------------------------------------------
(* Restarts *)

\* The hot maps from the table: the rows come in any order; expired ones are
\* deleted unless that fails.
Hydrate ==
  LET alive(c) == {r.entry : r \in {s \in rows : s.ns = c /\ Live(s.entry)}}
      dead     == {r \in rows : ~Live(r.entry)}
  IN  /\ \E maps \in [Caches -> UNION {SetToSeqs(alive(c)) : c \in Caches}] :
           /\ \A c \in Caches : maps[c] \in SetToSeqs(alive(c))
           /\ hot' = [c \in Caches |-> Trimmed(maps[c])]
           /\ \E pruned \in {{}, dead},
                 gone \in SUBSET UNION {RowsOf(c, Pushed(maps[c])) : c \in Caches} :
                rows' = rows \ (pruned \cup gone)
      /\ UNCHANGED fileVars

\* The hot maps from the log: every cache on the path replays all of it.
Replay(lines) ==
  /\ log' = lines
  /\ hot' = [c \in Caches |-> IF c \in deployment.caches THEN Trimmed(Replayed(lines)) ELSE <<>>]
  /\ handle' = [c \in Caches |-> "open"]
  /\ writes' = [c \in Caches |-> 0]
  /\ UNCHANGED rows

\* The process ends, or is killed, and is started again.
Restart ==
  /\ IF Sqlite THEN Hydrate ELSE Replay(log)
  /\ UNCHANGED <<deployment, ghosts, lossy>>

\* The machine loses power: appends, which are not synchronised, may be lost.
PowerLoss ==
  /\ ~Sqlite
  /\ \E n \in 1..Len(log) :
       LET whole == SubSeq(log, 1, n - 1)
       IN  \E lines \in {whole, Append(whole, TornLine)} : Replay(lines)
  /\ lossy' = TRUE
  /\ UNCHANGED <<deployment, ghosts>>

Tick ==
  LET aged(es) == {Aged(e) : e \in {f \in es : f.left # 1}}
  IN  /\ hot' = [c \in Caches |-> [n \in DOMAIN hot[c] |-> Aged(hot[c][n])]]
      /\ log' = [n \in DOMAIN log |-> IF log[n].op = "set" THEN SetLine(Aged(log[n].entry))
                                      ELSE log[n]]
      /\ rows' = {Row(r.ns, Aged(r.entry)) : r \in rows}
      /\ latest' = aged(latest)
      /\ given' = aged(given)
      /\ UNCHANGED <<deployment, handle, writes, lossy>>

Next ==
  \/ \E c \in deployment.caches :
       \/ \E e \in Stored(c) : Set(c, e)
       \/ \E e \in ToSet(hot[c]) : Get(c, e)
       \/ \E k \in KeysOf(c) : Delete(c, k)
       \/ Clear(c)
  \/ Restart
  \/ PowerLoss
  \/ Tick

Spec == Init /\ [][Next]_vars

-----------------------------------------------------------------------------
(* Properties *)

LiveIn(map) == {e \in ToSet(map) : Live(e)}

\* An entry never outlives what it was given: whatever was lost, torn, half
\* compacted or replayed, what a cache answers was set once and its time is
\* not up.
NoRevival ==
  \A c \in Caches : \A e \in LiveIn(hot[c]) :
    \E g \in given : Outlasts(g, e)

\* As long as no write was lost, what a cache answers is what was set last:
\* neither a compaction, nor an eviction, nor a replay brings back an older
\* value, or one that was deleted or replaced by one that has expired.
LatestWins ==
  ~lossy => \A c \in Caches : LiveIn(hot[c]) \subseteq latest

\* The live entries of a cache survive a restart, if no write was lost and
\* there is room for all that is kept where they are.
KeptAtRestart ==
  \A c \in deployment.caches :
    Cardinality({l \in latest : Sqlite => l.key \in KeysOf(c)}) <= MAX
      => {e \in LiveIn(hot[c]) : e.key \in KeysOf(c)} \subseteq ToSet(hot'[c])

RestartKeeps == [][Restart /\ ~lossy => KeptAtRestart]_vars
=============================================================================
