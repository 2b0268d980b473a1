------------------------------ MODULE LRUCache ------------------------------
(***************************************************************************)
(* The in-memory cache (src/src/cache.js), also the hot map of the         *)
(* persistent one: a JavaScript Map, whose insertion order is the order of *)
(* use, with an expiry per entry.  Expired entries stay in the Map until   *)
(* they are looked up or pushed out.                                       *)
(*                                                                         *)
(* The absolute expiry is modelled by the time left, 0 for "expired".      *)
(***************************************************************************)
EXTENDS Integers, Sequences, SequencesExt, FiniteSets

CONSTANTS Keys, Values,
          MAX,       \* capacity
          TTL,       \* default time to live; 0 means entries do not expire
          OwnTtls,   \* times to live a caller of set may ask for
          NoEntry

ASSUME LRUAssumption ==
  /\ MAX \in Nat \ {0}
  /\ TTL \in Nat
  /\ OwnTtls \subseteq Nat
  /\ NoEntry \notin Values /\ NoEntry \notin [value : Values, left : Int]

Forever == -1

VARIABLES store,    \* the entries: per key [value, left] or NoEntry
          order,    \* the keys of the Map, least recently used first
          answer,   \* what the last operation returned
          used      \* ghost: per key, the other keys used since its last use

vars == <<store, order, answer, used>>

Ttls  == UNION {0..t : t \in OwnTtls \cup {TTL}}
Entry == [value : Values, left : Ttls \cup {Forever}]

TypeOK ==
  /\ store \in [Keys -> Entry \cup {NoEntry}]
  /\ order \in Seq(Keys)
  /\ answer \in Values \cup {NoEntry}
  /\ used \in [Keys -> SUBSET Keys]

Init ==
  /\ store = [k \in Keys |-> NoEntry]
  /\ order = <<>>
  /\ answer = NoEntry
  /\ used = [k \in Keys |-> {}]

Has(k) == store[k] # NoEntry

\* Deleting a key of the Map: the others keep their order.
Deleted(k) ==
  IF Has(k) THEN RemoveAt(order, CHOOSE n \in DOMAIN order : order[n] = k) ELSE order

\* Mutant of Touched: a key keeps its place in the Map when it is set again.
TouchedInPlace(k) == IF \E n \in DOMAIN order : order[n] = k THEN order ELSE Append(order, k)

\* Deleting a key and setting it again moves it to the end of the Map.
Touched(k) == Append(Deleted(k), k)

Use(k) == used' = [j \in Keys |-> IF j = k THEN {} ELSE used[j] \cup {k}]

\* get: a miss, an expired entry (dropped on the way), or a hit.
Absent(k) ==
  /\ ~Has(k)
  /\ answer' = NoEntry
  /\ UNCHANGED <<store, order, used>>

\* Mutant of Expired: the test of the cache's own time to live is inverted.
ExpiredInverted(k) == Has(k) /\ TTL = 0 /\ store[k].left = 0

Expired(k) == Has(k) /\ TTL > 0 /\ store[k].left = 0

Expire(k) ==
  /\ Expired(k)
  /\ store' = [store EXCEPT ![k] = NoEntry]
  /\ order' = Deleted(k)
  /\ answer' = NoEntry
  /\ UNCHANGED used

\* Mutant of Hit: it does not refresh the recency.
HitInPlace(k) ==
  /\ Has(k)
  /\ ~Expired(k)
  /\ answer' = store[k].value
  /\ Use(k)
  /\ UNCHANGED <<store, order>>

Hit(k) ==
  /\ Has(k)
  /\ ~Expired(k)
  /\ order' = Touched(k)
  /\ answer' = store[k].value
  /\ Use(k)
  /\ UNCHANGED store

Get(k) == Absent(k) \/ Expire(k) \/ Hit(k)

\* set, with the cache's own time to live or the caller's.
Life(ttl) == IF ttl > 0 THEN ttl ELSE Forever

Set(k, v, ttl) ==
  LET filled == [store EXCEPT ![k] = [value |-> v, left |-> Life(ttl)]]
      queue  == Touched(k)
      full   == Len(queue) > MAX
  IN  /\ store' = IF full THEN [filled EXCEPT ![Head(queue)] = NoEntry] ELSE filled
      /\ order' = IF full THEN Tail(queue) ELSE queue
      /\ answer' = v
      /\ Use(k)

Delete(k) ==
  /\ store' = [store EXCEPT ![k] = NoEntry]
  /\ order' = Deleted(k)
  /\ answer' = NoEntry
  /\ UNCHANGED used

Clear ==
  /\ store' = [k \in Keys |-> NoEntry]
  /\ order' = <<>>
  /\ answer' = NoEntry
  /\ UNCHANGED used

Tick ==
  /\ store' = [k \in Keys |-> IF Has(k) /\ store[k].left > 0
                              THEN [store[k] EXCEPT !.left = @ - 1]
                              ELSE store[k]]
  /\ UNCHANGED <<order, answer, used>>

Next ==
  \/ \E k \in Keys : \/ Get(k)
                     \/ \E v \in Values, ttl \in OwnTtls \cup {TTL} : Set(k, v, ttl)
                     \/ Delete(k)
  \/ Clear
  \/ Tick

Spec == Init /\ [][Next]_vars

-----------------------------------------------------------------------------
(* Properties *)

\* The Map and its order agree, and the capacity is respected: a key is in
\* the order exactly once when it is stored, never when it is not.
OrderMatchesStore ==
  /\ Len(order) <= MAX
  /\ \A k \in Keys : Has(k) <=> \E n \in 1..Len(order) : order[n] = k
  /\ \A m, n \in 1..Len(order) : order[m] = order[n] => m = n

\* The cache is least-recently-used: an entry is pushed out only after MAX
\* other keys have been used since it was (used also counts the keys that
\* have left the cache since).
EvictsLeastRecent ==
  [][\A k \in Keys :
       (Has(k) /\ ~Has(k)')
         => \/ Expire(k) \/ Delete(k) \/ Clear
            \/ Cardinality(used'[k]) >= MAX]_vars

\* The order of the Map is the order of use.
OrderIsRecency ==
  \A m, n \in 1..Len(order) : m < n => order[n] \in used[order[m]]

\* The Map in memory, with the types of its parts.
MapOrder == TypeOK /\ OrderMatchesStore /\ OrderIsRecency

\* What the users of the cache see of it: the entries whose time is not up.
Seen == [k \in Keys |-> IF Has(k) /\ store[k].left # 0 THEN store[k] ELSE NoEntry]

\* The cache keeps the promise its users rely on: an answer is the latest
\* value set, given only within its time to live.
Promise == INSTANCE TtlCache WITH entry <- Seen

Implements == Promise!Spec
=============================================================================
