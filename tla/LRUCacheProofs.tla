--------------------------- MODULE LRUCacheProofs ---------------------------
(***************************************************************************)
(* The in-memory cache is least-recently-used and keeps the promise its    *)
(* users rely on, for every capacity, time to live and set of keys.        *)
(***************************************************************************)
EXTENDS LRUCache, FiniteSetTheorems, TLAPS

USE LRUAssumption DEF LRUAssumption, Forever

(***************************************************************************)
(* The Map: a queue that lists a set of keys, each once, in the order of   *)
(* their use.                                                              *)
(***************************************************************************)
Lists(q, S, u) ==
  /\ q \in Seq(Keys)
  /\ \A j \in Keys : j \in S <=> \E n \in 1..Len(q) : q[n] = j
  /\ \A m, n \in 1..Len(q) : q[m] = q[n] => m = n
  /\ \A m, n \in 1..Len(q) : m < n => q[n] \in u[q[m]]

Stored == {k \in Keys : Has(k)}

LEMMA OrderLists ==
  ASSUME MapOrder
  PROVE  Lists(order, Stored, used)
  BY DEF MapOrder, TypeOK, OrderMatchesStore, OrderIsRecency, Lists, Stored

LEMMA RemovedAt ==
  ASSUME NEW s \in Seq(Keys), NEW p \in 1..Len(s)
  PROVE  /\ RemoveAt(s, p) \in Seq(Keys)
         /\ Len(RemoveAt(s, p)) = Len(s) - 1
         /\ \A n \in 1..Len(s) - 1 : RemoveAt(s, p)[n] = s[IF n < p THEN n ELSE n + 1]
<1> DEFINE a == SubSeq(s, 1, p - 1)
           b == SubSeq(s, p + 1, Len(s))
<1>1. /\ a \in Seq(Keys) /\ Len(a) = p - 1
      /\ \A n \in 1..p - 1 : a[n] = s[n]
  OBVIOUS
<1>2. /\ b \in Seq(Keys) /\ Len(b) = Len(s) - p
      /\ \A n \in 1..Len(s) - p : b[n] = s[p + n]
  OBVIOUS
<1>3. RemoveAt(s, p) = a \o b
  BY DEF RemoveAt
<1> HIDE DEF a, b
<1>4. /\ a \o b \in Seq(Keys) /\ Len(a \o b) = Len(a) + Len(b)
      /\ \A n \in 1..Len(a) + Len(b) : (a \o b)[n] = IF n <= Len(a) THEN a[n] ELSE b[n - Len(a)]
  BY <1>1, <1>2
<1>5. \A n \in 1..Len(s) - 1 : (a \o b)[n] = s[IF n < p THEN n ELSE n + 1]
  <2> SUFFICES ASSUME NEW n \in 1..Len(s) - 1
               PROVE  (a \o b)[n] = s[IF n < p THEN n ELSE n + 1]
    OBVIOUS
  <2>1. CASE n < p
    BY <1>1, <1>2, <1>4, <2>1
  <2>2. CASE ~(n < p)
    <3>1. n - (p - 1) \in 1..Len(s) - p /\ p + (n - (p - 1)) = n + 1
      BY <2>2
    <3>2. n \in 1..Len(a) + Len(b) /\ ~(n <= Len(a)) /\ Len(a) = p - 1
      BY <1>1, <1>2, <2>2
    <3>3. (a \o b)[n] = b[n - (p - 1)]
      BY <1>4, <3>2
    <3> QED BY <1>2, <2>2, <3>1, <3>3
  <2> QED BY <2>1, <2>2
<1> QED BY <1>1, <1>2, <1>3, <1>4, <1>5

LEMMA RemovedLists ==
  ASSUME NEW S, NEW u, NEW q, Lists(q, S, u), NEW p \in 1..Len(q)
  PROVE  /\ Lists(RemoveAt(q, p), S \ {q[p]}, u)
         /\ Len(RemoveAt(q, p)) = Len(q) - 1
<1> DEFINE r == RemoveAt(q, p)
           old(n) == IF n < p THEN n ELSE n + 1
<1>1. q \in Seq(Keys) /\ Len(q) \in Nat
  BY DEF Lists
<1>2. /\ r \in Seq(Keys) /\ Len(r) = Len(q) - 1
      /\ \A n \in 1..Len(q) - 1 : r[n] = q[old(n)]
  BY <1>1, RemovedAt
<1> HIDE DEF r
<1>3. \A n \in 1..Len(r) : old(n) \in 1..Len(q) /\ old(n) # p /\ r[n] = q[old(n)]
  BY <1>1, <1>2
<1>4. \A m, n \in 1..Len(r) : (m < n => old(m) < old(n)) /\ (old(m) = old(n) => m = n)
  BY <1>1, <1>2
<1>5. \A o \in 1..Len(q) : o # p => \E n \in 1..Len(r) : old(n) = o
  <2> SUFFICES ASSUME NEW o \in 1..Len(q), o # p
               PROVE  \E n \in 1..Len(r) : old(n) = o
    OBVIOUS
  <2>1. CASE o < p
    BY <1>1, <1>2, <2>1
  <2>2. CASE o > p
    <3>1. o - 1 \in 1..Len(r) /\ old(o - 1) = o
      BY <1>1, <1>2, <2>2
    <3> QED BY <3>1
  <2> QED BY <1>1, <2>1, <2>2
<1> HIDE DEF old
<1>6. \A j \in Keys : j \in S \ {q[p]} <=> \E n \in 1..Len(r) : r[n] = j
  <2> SUFFICES ASSUME NEW j \in Keys
               PROVE  j \in S \ {q[p]} <=> \E n \in 1..Len(r) : r[n] = j
    OBVIOUS
  <2>1. ASSUME j \in S, j # q[p] PROVE \E n \in 1..Len(r) : r[n] = j
    <3>1. PICK o \in 1..Len(q) : q[o] = j
      BY <2>1 DEF Lists
    <3> QED BY <1>3, <1>5, <2>1, <3>1
  <2>2. ASSUME NEW n \in 1..Len(r), r[n] = j PROVE j \in S /\ j # q[p]
    <3>1. old(n) \in 1..Len(q) /\ old(n) # p /\ q[old(n)] = j
      BY <1>3, <2>2
    <3> QED BY <3>1 DEF Lists
  <2> QED BY <2>1, <2>2
<1>7. \A m, n \in 1..Len(r) : r[m] = r[n] => m = n
  BY <1>1, <1>3, <1>4 DEF Lists
<1>8. \A m, n \in 1..Len(r) : m < n => r[n] \in u[r[m]]
  <2> SUFFICES ASSUME NEW m \in 1..Len(r), NEW n \in 1..Len(r), m < n
               PROVE  r[n] \in u[r[m]]
    OBVIOUS
  <2>1. /\ old(m) \in 1..Len(q) /\ old(n) \in 1..Len(q) /\ old(m) < old(n)
        /\ r[m] = q[old(m)] /\ r[n] = q[old(n)]
    BY <1>3, <1>4
  <2> QED BY <2>1 DEF Lists
<1> QED BY <1>2, <1>6, <1>7, <1>8 DEF Lists, r

\* Deleting a key takes it, and nothing else, out of the queue.
LEMMA DeletedLists ==
  ASSUME MapOrder, NEW k \in Keys
  PROVE  /\ Lists(Deleted(k), Stored \ {k}, used)
         /\ Len(Deleted(k)) = IF Has(k) THEN Len(order) - 1 ELSE Len(order)
<1>1. Lists(order, Stored, used)
  BY OrderLists
<1>2. CASE Has(k)
  <2> DEFINE p == CHOOSE n \in DOMAIN order : order[n] = k
  <2>1. p \in 1..Len(order) /\ order[p] = k
    BY <1>1, <1>2 DEF Lists, Stored
  <2> HIDE DEF p
  <2>2. Deleted(k) = RemoveAt(order, p)
    BY <1>2 DEF Deleted, p
  <2> QED BY <1>1, <1>2, <2>1, <2>2, RemovedLists
<1>3. CASE ~Has(k)
  BY <1>1, <1>3 DEF Deleted, Lists, Stored
<1> QED BY <1>2, <1>3

\* Using a key moves it to the end, where it has been used after all others.
LEMMA TouchedLists ==
  ASSUME MapOrder, NEW k \in Keys, Use(k)
  PROVE  /\ Lists(Touched(k), Stored \cup {k}, used')
         /\ Len(Touched(k)) = IF Has(k) THEN Len(order) ELSE Len(order) + 1
<1> DEFINE d == Deleted(k)
           q == Append(d, k)
<1>1. Lists(d, Stored \ {k}, used) /\ Len(d) = IF Has(k) THEN Len(order) - 1 ELSE Len(order)
  BY DeletedLists
<1>2. Touched(k) = q
  BY DEF Touched
<1>3. order \in Seq(Keys) /\ Len(order) \in Nat
  BY DEF MapOrder, TypeOK
<1> HIDE DEF d
<1>4. d \in Seq(Keys) /\ Len(d) \in Nat
  BY <1>1 DEF Lists
<1>5. /\ q \in Seq(Keys) /\ Len(q) = Len(d) + 1
      /\ \A n \in 1..Len(d) : q[n] = d[n] /\ d[n] \in Keys
      /\ q[Len(d) + 1] = k
  BY <1>4
<1> HIDE DEF q
<1>6. \A n \in 1..Len(d) : d[n] # k
  BY <1>1, <1>4 DEF Lists
<1>7. \A n \in 1..Len(q) : n \in 1..Len(d) \/ n = Len(d) + 1
  BY <1>4, <1>5
<1>8. \A j \in Keys : j \in Stored \cup {k} <=> \E n \in 1..Len(q) : q[n] = j
  <2>1. Len(d) + 1 \in 1..Len(q) /\ \A n \in 1..Len(d) : n \in 1..Len(q)
    BY <1>4, <1>5
  <2>2. \A j \in Keys : j \in Stored \ {k} <=> \E n \in 1..Len(d) : d[n] = j
    BY <1>1 DEF Lists
  <2> QED BY <1>5, <1>7, <2>1, <2>2
<1>9. \A m, n \in 1..Len(q) : q[m] = q[n] => m = n
  BY <1>1, <1>5, <1>6, <1>7 DEF Lists
<1>10. \A m, n \in 1..Len(q) : m < n => q[n] \in used'[q[m]]
  <2> SUFFICES ASSUME NEW m \in 1..Len(q), NEW n \in 1..Len(q), m < n
               PROVE  q[n] \in used'[q[m]]
    OBVIOUS
  <2>1. m \in 1..Len(d) /\ q[m] = d[m] /\ d[m] \in Keys /\ d[m] # k
    BY <1>4, <1>5, <1>6
  <2>2. used'[q[m]] = used[d[m]] \cup {k}
    BY <2>1 DEF Use
  <2>3. CASE n \in 1..Len(d)
    BY <1>1, <1>5, <2>1, <2>2, <2>3 DEF Lists
  <2>4. CASE n = Len(d) + 1
    BY <1>5, <2>2, <2>4
  <2> QED BY <1>7, <2>3, <2>4
<1>11. Lists(q, Stored \cup {k}, used')
  BY <1>5, <1>8, <1>9, <1>10 DEF Lists
<1> QED BY <1>1, <1>2, <1>3, <1>5, <1>11

\* Pushing out the least recently used.
LEMMA TailLists ==
  ASSUME NEW S, NEW u, NEW q, Lists(q, S, u), Len(q) > 0
  PROVE  /\ Lists(Tail(q), S \ {Head(q)}, u)
         /\ Len(Tail(q)) = Len(q) - 1
         /\ Head(q) = q[1] /\ Head(q) \in Keys
<1>1. q \in Seq(Keys) /\ Len(q) \in Nat /\ 1 \in 1..Len(q)
  BY DEF Lists
<1>2. RemoveAt(q, 1) \in Seq(Keys) /\ Len(RemoveAt(q, 1)) = Len(q) - 1
      /\ \A n \in 1..Len(q) - 1 : RemoveAt(q, 1)[n] = q[n + 1]
  BY <1>1, RemovedAt
<1>3. Tail(q) \in Seq(Keys) /\ Len(Tail(q)) = Len(q) - 1
      /\ \A n \in 1..Len(q) - 1 : Tail(q)[n] = q[n + 1]
  BY <1>1
<1>4. Tail(q) = RemoveAt(q, 1)
  BY <1>2, <1>3
<1>5. Head(q) = q[1] /\ Head(q) \in Keys
  BY <1>1
<1>6. Lists(RemoveAt(q, 1), S \ {q[1]}, u)
  BY <1>1, RemovedLists
<1> QED BY <1>3, <1>4, <1>5, <1>6
-----------------------------------------------------------------------------
(***************************************************************************)
(* The entries.                                                            *)
(***************************************************************************)
LEMMA TtlsBelow ==
  /\ Ttls \subseteq Nat
  /\ \A t \in Ttls : t > 0 => t - 1 \in Ttls
  /\ \A t \in OwnTtls \cup {TTL} : t \in Ttls
<1>1. ASSUME NEW t \in Ttls
      PROVE  t \in Nat /\ (t > 0 => t - 1 \in Ttls)
  <2>1. PICK u \in OwnTtls \cup {TTL} : t \in 0..u
    BY DEF Ttls
  <2>2. t \in Nat /\ u \in Nat /\ (t > 0 => t - 1 \in 0..u)
    BY <2>1
  <2> QED BY <2>1, <2>2 DEF Ttls
<1>2. ASSUME NEW t \in OwnTtls \cup {TTL}
      PROVE  t \in Ttls
  <2>1. t \in 0..t
    OBVIOUS
  <2> QED BY <2>1 DEF Ttls
<1> QED BY <1>1, <1>2

LEMMA EntryIsNone == \A e \in Entry : e # NoEntry
<1>1. Entry \subseteq [value : Values, left : Int]
  BY TtlsBelow DEF Entry
<1> QED BY <1>1

LEMMA FilledEntry ==
  ASSUME NEW v \in Values, NEW ttl \in OwnTtls \cup {TTL}
  PROVE  [value |-> v, left |-> Life(ttl)] \in Entry
  BY TtlsBelow DEF Entry, Life

LEMMA OlderEntry ==
  ASSUME NEW e \in Entry, e.left > 0
  PROVE  [e EXCEPT !.left = @ - 1] \in Entry
<1>1. e.left \in Ttls /\ e.left - 1 \in Ttls
  BY TtlsBelow DEF Entry
<1> QED BY <1>1 DEF Entry

LEMMA UseType ==
  ASSUME TypeOK, NEW k \in Keys, Use(k)
  PROVE  used' \in [Keys -> SUBSET Keys]
  BY DEF TypeOK, Use

\* What a set leaves: the key is last in the queue, and the first goes if it
\* does not fit.
LEMMA SetLeaves ==
  ASSUME MapOrder, NEW k \in Keys, NEW v \in Values, NEW ttl \in OwnTtls \cup {TTL},
         Set(k, v, ttl)
  PROVE  /\ TypeOK'
         /\ Lists(order', Stored', used')
         /\ Len(order') <= MAX
<1> DEFINE queue == Touched(k)
           new   == [value |-> v, left |-> Life(ttl)]
           filled == [store EXCEPT ![k] = new]
<1>1. /\ Lists(queue, Stored \cup {k}, used')
      /\ Len(queue) = IF Has(k) THEN Len(order) ELSE Len(order) + 1
  BY TouchedLists DEF Set
<1>2. new \in Entry /\ new # NoEntry
  BY FilledEntry, EntryIsNone
<1>3. /\ answer' = v /\ Use(k)
      /\ store' = IF Len(queue) > MAX THEN [filled EXCEPT ![Head(queue)] = NoEntry] ELSE filled
      /\ order' = IF Len(queue) > MAX THEN Tail(queue) ELSE queue
  BY DEF Set
<1> HIDE DEF queue, new
<1>4. /\ store \in [Keys -> Entry \cup {NoEntry}] /\ Len(order) \in Nat /\ Len(order) <= MAX
      /\ queue \in Seq(Keys) /\ Len(queue) \in Nat
  BY <1>1 DEF MapOrder, TypeOK, OrderMatchesStore, Lists
<1>5. /\ filled \in [Keys -> Entry \cup {NoEntry}]
      /\ {j \in Keys : filled[j] # NoEntry} = Stored \cup {k}
  BY <1>2, <1>4 DEF Stored, Has
<1>6. used' \in [Keys -> SUBSET Keys]
  BY <1>3, UseType DEF MapOrder
<1> HIDE DEF filled
<1>7. CASE Len(queue) > MAX
  <2>1. /\ Lists(Tail(queue), (Stored \cup {k}) \ {Head(queue)}, used')
        /\ Len(Tail(queue)) = Len(queue) - 1 /\ Head(queue) \in Keys
    BY <1>1, <1>4, <1>7, TailLists
  <2>2. store' = [filled EXCEPT ![Head(queue)] = NoEntry] /\ order' = Tail(queue)
    BY <1>3, <1>7
  <2>3. /\ store' \in [Keys -> Entry \cup {NoEntry}]
        /\ Stored' = (Stored \cup {k}) \ {Head(queue)}
    BY <1>5, <2>1, <2>2 DEF Stored, Has
  <2>4. Len(order') <= MAX
    BY <1>1, <1>4, <1>7, <2>1, <2>2
  <2>5. order' \in Seq(Keys)
    BY <2>1, <2>2 DEF Lists
  <2> QED BY <1>3, <1>6, <2>1, <2>2, <2>3, <2>4, <2>5 DEF TypeOK
<1>8. CASE ~(Len(queue) > MAX)
  <2>1. store' = filled /\ order' = queue
    BY <1>3, <1>8
  <2>2. store' \in [Keys -> Entry \cup {NoEntry}] /\ Stored' = Stored \cup {k}
    BY <1>5, <2>1 DEF Stored, Has
  <2> QED BY <1>1, <1>3, <1>4, <1>6, <1>8, <2>1, <2>2 DEF TypeOK
<1> QED BY <1>7, <1>8

\* Dropping a key, because it is deleted or because it has expired.
LEMMA DropLeaves ==
  ASSUME MapOrder, NEW k \in Keys, store' = [store EXCEPT ![k] = NoEntry],
         order' = Deleted(k), answer' = NoEntry, UNCHANGED used
  PROVE  /\ TypeOK'
         /\ Lists(order', Stored', used')
         /\ Len(order') <= MAX
<1>1. /\ Lists(order', Stored \ {k}, used')
      /\ Len(order') = IF Has(k) THEN Len(order) - 1 ELSE Len(order)
  BY DeletedLists
<1>2. /\ store \in [Keys -> Entry \cup {NoEntry}] /\ Len(order) \in Nat /\ Len(order) <= MAX
  BY DEF MapOrder, TypeOK, OrderMatchesStore
<1>3. store' \in [Keys -> Entry \cup {NoEntry}] /\ Stored' = Stored \ {k}
  BY <1>2 DEF Stored, Has
<1>4. order' \in Seq(Keys)
  BY <1>1 DEF Lists
<1> QED BY <1>1, <1>2, <1>3, <1>4 DEF TypeOK, MapOrder

\* The order of the Map is the order of use, and agrees with what is stored.
THEOREM MapKeepsItsOrder == Spec => []MapOrder
<1>1. Init => MapOrder
  BY DEF Init, MapOrder, TypeOK, OrderMatchesStore, OrderIsRecency, Has
<1>2. MapOrder /\ [Next]_vars => MapOrder'
  <2> SUFFICES ASSUME MapOrder, [Next]_vars
               PROVE  /\ TypeOK'
                      /\ Lists(order', Stored', used')
                      /\ Len(order') <= MAX
    BY DEF Lists, Stored, MapOrder, OrderMatchesStore, OrderIsRecency, Has
  <2>1. Lists(order, Stored, used) /\ Len(order) <= MAX /\ TypeOK
    BY OrderLists DEF MapOrder, OrderMatchesStore
  <2>2. ASSUME NEW k \in Keys, Absent(k) PROVE UNCHANGED <<store, order, used>> /\ TypeOK'
    BY <2>1, <2>2 DEF Absent, TypeOK
  <2>3. ASSUME NEW k \in Keys, Expire(k)
        PROVE TypeOK' /\ Lists(order', Stored', used') /\ Len(order') <= MAX
    BY <2>3, DropLeaves DEF Expire
  <2>4. ASSUME NEW k \in Keys, Hit(k)
        PROVE TypeOK' /\ Lists(order', Stored', used') /\ Len(order') <= MAX
    <3>1. /\ Lists(Touched(k), Stored \cup {k}, used')
          /\ Len(Touched(k)) = Len(order)
      BY <2>4, TouchedLists DEF Hit
    <3>2. order' = Touched(k) /\ store' = store /\ answer' = store[k].value /\ Has(k)
      BY <2>4 DEF Hit
    <3>3. Stored' = Stored /\ Stored \cup {k} = Stored
      BY <3>2 DEF Stored, Has
    <3>4. store[k] \in Entry /\ store[k].value \in Values
      BY <2>1, <3>2 DEF TypeOK, Has, Entry
    <3>5. used' \in [Keys -> SUBSET Keys]
      BY <2>1, <2>4, UseType DEF Hit
    <3>6. order' \in Seq(Keys)
      BY <3>1, <3>2 DEF Lists
    <3> QED BY <2>1, <3>1, <3>2, <3>3, <3>4, <3>5, <3>6 DEF TypeOK
  <2>5. ASSUME NEW k \in Keys, NEW v \in Values, NEW ttl \in OwnTtls \cup {TTL}, Set(k, v, ttl)
        PROVE TypeOK' /\ Lists(order', Stored', used') /\ Len(order') <= MAX
    BY <2>5, SetLeaves
  <2>6. ASSUME NEW k \in Keys, Delete(k)
        PROVE TypeOK' /\ Lists(order', Stored', used') /\ Len(order') <= MAX
    BY <2>6, DropLeaves DEF Delete
  <2>7. CASE Clear
    BY <2>1, <2>7 DEF Clear, TypeOK, Lists, Stored, Has
  <2>8. CASE Tick
    <3>1. ASSUME NEW k \in Keys
          PROVE  store'[k] \in Entry \cup {NoEntry} /\ (store'[k] # NoEntry <=> store[k] # NoEntry)
      <4>1. store[k] \in Entry \cup {NoEntry}
        BY <2>1 DEF TypeOK
      <4> QED BY <2>8, <4>1, OlderEntry, EntryIsNone DEF Tick, Has
    <3>2. store' \in [Keys -> Entry \cup {NoEntry}] /\ Stored' = Stored
      BY <2>8, <3>1 DEF Tick, Stored, Has
    <3> QED BY <2>1, <2>8, <3>2 DEF Tick, TypeOK
  <2>9. CASE UNCHANGED <<store, order, used>> /\ TypeOK'
    BY <2>1, <2>9 DEF Stored, Has
  <2>10. CASE UNCHANGED vars
    BY <2>1, <2>9, <2>10 DEF vars, TypeOK
  <2> QED BY <2>2, <2>3, <2>4, <2>5, <2>6, <2>7, <2>8, <2>9, <2>10 DEF Next, Get
<1> QED BY <1>1, <1>2, PTL DEF Spec

-----------------------------------------------------------------------------
(***************************************************************************)
(* Eviction.                                                               *)
(***************************************************************************)
UsedFinite == \A k \in Keys : IsFiniteSet(used[k])

LEMMA UsedIsFinite == Spec => []UsedFinite
<1>1. Init => UsedFinite
  BY FS_EmptySet DEF Init, UsedFinite
<1>2. UsedFinite /\ [Next]_vars => UsedFinite'
  <2> SUFFICES ASSUME UsedFinite, [Next]_vars PROVE UsedFinite'
    OBVIOUS
  <2>1. ASSUME NEW k \in Keys, Use(k) PROVE UsedFinite'
    <3>1. ASSUME NEW j \in Keys PROVE IsFiniteSet(used'[j])
      <4>1. IsFiniteSet(used[j] \cup {k})
        BY FS_AddElement DEF UsedFinite
      <4> QED BY <2>1, <4>1, FS_EmptySet DEF Use
    <3> QED BY <3>1 DEF UsedFinite
  <2>2. CASE UNCHANGED used
    BY <2>2 DEF UsedFinite
  <2> QED BY <2>1, <2>2 DEF Next, Get, Absent, Expire, Hit, Set, Delete, Clear, Tick, vars
<1> QED BY <1>1, <1>2, PTL DEF Spec

\* A set pushes out a key other than its own, after which MAX keys have been
\* used since.
LEMMA PushedOut ==
  ASSUME MapOrder, UsedFinite', NEW k \in Keys, Use(k), Len(Touched(k)) > MAX
  PROVE  /\ Head(Touched(k)) \in Keys \ {k}
         /\ Cardinality(used'[Head(Touched(k))]) >= MAX
<1> DEFINE q == Touched(k)
           T == used'[Head(q)]
<1>1. Lists(q, Stored \cup {k}, used')
  BY TouchedLists
<1>2. q = Append(Deleted(k), k) /\ Deleted(k) \in Seq(Keys)
      /\ \A n \in 1..Len(Deleted(k)) : Deleted(k)[n] # k
  BY DeletedLists DEF Touched, Lists
<1>3. Head(q) \in Keys /\ Head(q) # k /\ Head(q) = q[1]
  <2> DEFINE d == Deleted(k)
  <2> HIDE DEF d
  <2>1. ASSUME NEW l, l = Append(d, k), Len(l) > MAX
        PROVE  Head(l) \in Keys /\ Head(l) # k /\ Head(l) = l[1]
    <3>1. d \in Seq(Keys) /\ \A n \in 1..Len(d) : d[n] # k
      BY <1>2 DEF d
    <3>2. Len(l) = Len(d) + 1 /\ Len(d) \in Nat /\ Len(d) > 0
      BY <2>1, <3>1
    <3>3. 1 \in 1..Len(d) /\ l[1] = d[1] /\ Head(l) = l[1]
      BY <2>1, <3>1, <3>2
    <3> QED BY <3>1, <3>3
  <2> QED BY <1>2, <2>1 DEF d
<1> HIDE DEF q
<1>4. q \in Seq(Keys) /\ Len(q) \in Nat /\ Len(q) > MAX
  BY <1>1 DEF Lists, q
<1>5. IsFiniteSet(T) /\ Cardinality(T) \in Nat
  BY <1>3, FS_CardinalityType DEF UsedFinite
<1>6. Cardinality(T) >= MAX
  <2> SUFFICES ASSUME Cardinality(T) < MAX PROVE FALSE
    BY <1>5
  <2> DEFINE f == [n \in 1..MAX |-> q[n + 1]]
  <2>1. \A n \in 1..MAX : n + 1 \in 1..Len(q) /\ 1 < n + 1 /\ 1 \in 1..Len(q)
    BY <1>4
  <2>2. f \in [1..MAX -> T]
    BY <1>1, <1>3, <2>1 DEF Lists
  <2>3. IsFiniteSet(1..MAX) /\ Cardinality(1..MAX) = MAX
    BY FS_Interval
  <2>4. PICK x \in 1..MAX, y \in 1..MAX : x # y /\ f[x] = f[y]
    <3> HIDE DEF f, T
    <3> QED BY <1>5, <2>2, <2>3, FS_PigeonHole
  <2>5. x + 1 = y + 1
    BY <1>1, <2>1, <2>4 DEF Lists
  <2> QED BY <2>4, <2>5
<1> QED BY <1>3, <1>6 DEF q

\* The entry that makes room for a new one is the one that was used longest
\* ago: at least MAX other keys have been used since (set's loop over
\* store.keys(), and get's delete and set that refresh the recency).
THEOREM EvictionIsLeastRecent == Spec => EvictsLeastRecent
<1> DEFINE Evicts(k) == (Has(k) /\ ~Has(k)') => \/ Expire(k) \/ Delete(k) \/ Clear
                                                \/ Cardinality(used'[k]) >= MAX
<1>1. MapOrder /\ UsedFinite' /\ [Next]_vars => [\A k \in Keys : Evicts(k)]_vars
  <2> SUFFICES ASSUME MapOrder, UsedFinite', Next, NEW k \in Keys, Has(k), ~Has(k)'
               PROVE  Expire(k) \/ Delete(k) \/ Clear \/ Cardinality(used'[k]) >= MAX
    BY Zenon
  <2>1. store \in [Keys -> Entry \cup {NoEntry}] /\ store[k] # NoEntry /\ store'[k] = NoEntry
    BY DEF MapOrder, TypeOK, Has
  <2>2. ASSUME NEW j \in Keys, Get(j) PROVE Expire(k)
    BY <2>1, <2>2 DEF Get, Absent, Expire, Hit
  <2>3. ASSUME NEW j \in Keys, NEW v \in Values, NEW ttl \in OwnTtls \cup {TTL}, Set(j, v, ttl)
        PROVE  Cardinality(used'[k]) >= MAX
    <3>1. [value |-> v, left |-> Life(ttl)] # NoEntry
      BY FilledEntry, EntryIsNone
    <3>2. Len(Touched(j)) > MAX /\ k = Head(Touched(j))
      BY <2>1, <2>3, <3>1 DEF Set
    <3> QED BY <2>3, <3>2, PushedOut DEF Set
  <2>4. ASSUME NEW j \in Keys, Delete(j) PROVE Delete(k)
    BY <2>1, <2>4 DEF Delete
  <2>5. ASSUME Tick PROVE FALSE
    <3>1. store[k] \in Entry
      BY <2>1
    <3>2. store'[k] \in Entry
      BY <2>1, <2>5, <3>1, OlderEntry DEF Tick, Has
    <3> QED BY <2>1, <3>2, EntryIsNone
  <2> QED BY <2>2, <2>3, <2>4, <2>5 DEF Next
<1>2. Spec => [][\A k \in Keys : Evicts(k)]_vars
  BY <1>1, MapKeepsItsOrder, UsedIsFinite, PTL DEF Spec
<1> QED BY <1>2 DEF EvictsLeastRecent

-----------------------------------------------------------------------------
(***************************************************************************)
(* The promise.                                                            *)
(*                                                                         *)
(* It needs an assumption that the code leaves to its callers: get looks   *)
(* at the expiry of an entry only if the cache has a time to live of its   *)
(* own, so that a cache without one must not be given entries with one.    *)
(***************************************************************************)
TtlsAgree == TTL > 0 \/ OwnTtls \subseteq {0}

\* In a cache without a time to live no entry has one.
NoneExpires == TTL = 0 => \A k \in Keys : Has(k) => store[k].left = Forever

LEMMA NoneDoesExpire == ASSUME TtlsAgree PROVE Spec => []NoneExpires
<1>1. Init => NoneExpires
  BY DEF Init, NoneExpires, Has
<1>2. MapOrder /\ NoneExpires /\ [Next]_vars => NoneExpires'
  <2> SUFFICES ASSUME MapOrder, NoneExpires, [Next]_vars, TTL = 0, NEW k \in Keys, Has(k)'
               PROVE  store'[k].left = Forever
    BY DEF NoneExpires
  <2>1. store \in [Keys -> Entry \cup {NoEntry}] /\ (Has(k) => store[k].left = Forever)
    BY DEF NoneExpires, MapOrder, TypeOK
  <2>2. ASSUME store'[k] = store[k] PROVE store'[k].left = Forever
    BY <2>1, <2>2 DEF Has
  <2>3. ASSUME NEW j \in Keys, Get(j) PROVE store'[k] = store[k]
    BY <2>1, <2>3 DEF Get, Absent, Expire, Hit, Has
  <2>4. ASSUME NEW j \in Keys, NEW v \in Values, NEW ttl \in OwnTtls \cup {TTL}, Set(j, v, ttl)
        PROVE  store'[k].left = Forever
    <3>1. Life(ttl) = Forever
      BY DEF TtlsAgree, Life
    <3> QED BY <2>1, <2>4, <3>1 DEF Set, Has
  <2>5. ASSUME NEW j \in Keys, Delete(j) PROVE store'[k] = store[k]
    BY <2>1, <2>5 DEF Delete, Has
  <2>6. ASSUME Tick PROVE store'[k] = store[k]
    BY <2>1, <2>6 DEF Tick, Has
  <2>7. ~Clear
    BY DEF Clear, Has
  <2>8. CASE UNCHANGED vars
    BY <2>2, <2>8 DEF vars
  <2> QED BY <2>2, <2>3, <2>4, <2>5, <2>6, <2>7, <2>8 DEF Next
<1> QED BY <1>1, <1>2, MapKeepsItsOrder, PTL DEF Spec

\* Each operation of the cache is one of the promise.
LEMMA GetKeeps ==
  ASSUME MapOrder, NoneExpires, NEW k \in Keys, Get(k)
  PROVE  Promise!Hit(k) \/ Promise!Miss(k)
<1>1. store \in [Keys -> Entry \cup {NoEntry}]
  BY DEF MapOrder, TypeOK
<1>2. CASE Absent(k)
  BY <1>2 DEF Absent, Has, Seen, Promise!Miss, Promise!Cached
<1>3. CASE Expire(k)
  <2>1. Seen[k] = NoEntry
    BY <1>3 DEF Expire, Expired, Seen
  <2>2. Seen' = Seen
    BY <1>1, <1>3 DEF Expire, Expired, Seen, Has
  <2> QED BY <1>3, <2>1, <2>2 DEF Expire, Promise!Miss, Promise!Cached
<1>4. CASE Hit(k)
  <2>1. Has(k) /\ store[k].left # 0
    BY <1>4 DEF Hit, Expired, NoneExpires
  <2>2. Seen[k] = store[k] /\ Seen[k] # NoEntry /\ Seen' = Seen
    BY <1>4, <2>1 DEF Hit, Seen, Has
  <2> QED BY <1>4, <2>2 DEF Hit, Promise!Hit, Promise!Cached
<1> QED BY <1>2, <1>3, <1>4 DEF Get

LEMMA SetKeeps ==
  ASSUME MapOrder, UsedFinite', NEW k \in Keys, NEW v \in Values,
         NEW ttl \in OwnTtls \cup {TTL}, Set(k, v, ttl)
  PROVE  Promise!Set(k, v, Life(ttl)) /\ Life(ttl) \in Promise!Lives
<1> DEFINE queue == Touched(k)
           lost  == IF Len(queue) > MAX THEN {Head(queue)} ELSE {}
           new   == [value |-> v, left |-> Life(ttl)]
<1>1. store \in [Keys -> Entry \cup {NoEntry}]
  BY DEF MapOrder, TypeOK
<1>2. lost \in SUBSET (Keys \ {k})
  BY PushedOut DEF Set
<1>3. /\ new \in Entry /\ new # NoEntry /\ new.left # 0
      /\ ttl \in Ttls
  BY FilledEntry, EntryIsNone, TtlsBelow DEF Life
<1>4. \A j \in Keys : store'[j] = IF j = k THEN new ELSE IF j \in lost THEN NoEntry ELSE store[j]
  BY <1>1, <1>2 DEF Set
<1> HIDE DEF lost, new
<1>5. \A j \in Keys : Seen'[j] = IF j = k THEN new ELSE IF j \in lost THEN NoEntry ELSE Seen[j]
  BY <1>3, <1>4 DEF Seen, Has
<1>6. Seen' = [Promise!Without(Seen, lost) EXCEPT ![k] = new]
  BY <1>5 DEF Seen, Promise!Without
<1>7. Life(ttl) \in Promise!Lives
  BY <1>3 DEF Life, Promise!Lives
<1> QED BY <1>2, <1>6, <1>7 DEF Set, Promise!Set, Promise!Store, new

LEMMA DeleteKeeps ==
  ASSUME MapOrder, NEW k \in Keys, Delete(k)
  PROVE  Promise!Forget
<1>1. store \in [Keys -> Entry \cup {NoEntry}]
  BY DEF MapOrder, TypeOK
<1>2. Seen' = Promise!Without(Seen, {k})
  BY <1>1 DEF Delete, Seen, Has, Promise!Without
<1> QED BY <1>2 DEF Delete, Promise!Forget, Promise!Lose

LEMMA ClearKeeps ==
  ASSUME Clear
  PROVE  Promise!Forget
<1>1. Seen' = Promise!Without(Seen, Keys)
  BY DEF Clear, Seen, Has, Promise!Without
<1> QED BY <1>1 DEF Clear, Promise!Forget, Promise!Lose

LEMMA TickKeeps ==
  ASSUME MapOrder, Tick
  PROVE  Promise!Tick
<1>1. ASSUME NEW k \in Keys PROVE Seen'[k] = Promise!Aged(Seen[k])
  <2>1. store[k] \in Entry \cup {NoEntry}
    BY DEF MapOrder, TypeOK
  <2>2. store'[k] = IF Has(k) /\ store[k].left > 0 THEN [store[k] EXCEPT !.left = @ - 1] ELSE store[k]
    BY DEF Tick
  <2>3. Seen'[k] = IF store'[k] # NoEntry /\ store'[k].left # 0 THEN store'[k] ELSE NoEntry
    BY DEF Seen, Has
  <2>4. Seen[k] = IF store[k] # NoEntry /\ store[k].left # 0 THEN store[k] ELSE NoEntry
    BY DEF Seen, Has
  <2>5. CASE store[k] = NoEntry
    BY <2>2, <2>3, <2>4, <2>5 DEF Has, Promise!Aged
  <2>6. CASE store[k] # NoEntry
    <3>1. store[k] \in Entry /\ store[k].left \in Nat \cup {Forever}
      BY <2>1, <2>6, TtlsBelow DEF Entry
    <3>2. CASE store[k].left \in {0, Forever}
      BY <2>2, <2>3, <2>4, <2>6, <3>2 DEF Promise!Aged
    <3>3. CASE store[k].left > 0
      <4> DEFINE next == [store[k] EXCEPT !.left = @ - 1]
      <4>1. next \in Entry /\ next # NoEntry /\ next.left = store[k].left - 1
        BY <3>1, <3>3, OlderEntry, EntryIsNone DEF Entry
      <4>2. store'[k] = next /\ Seen[k] = store[k]
        BY <2>2, <2>4, <2>6, <3>3 DEF Has
      <4> HIDE DEF next
      <4>3. Seen'[k] = IF store[k].left = 1 THEN NoEntry ELSE next
        BY <2>3, <3>1, <3>3, <4>1, <4>2
      <4>4. Promise!Aged(store[k]) = IF store[k].left = 1 THEN NoEntry ELSE next
        BY <2>6, <3>3 DEF Promise!Aged, next
      <4> QED BY <4>2, <4>3, <4>4
    <3> QED BY <3>1, <3>2, <3>3
  <2> QED BY <2>5, <2>6
<1>2. Seen' = [k \in Keys |-> Promise!Aged(Seen[k])]
  BY <1>1 DEF Seen
<1> QED BY <1>2 DEF Tick, Promise!Tick, Promise!Age

\* The cache implements what its users rely on (TtlCache): whatever it evicts
\* and when, a lookup answers the latest value that was set, only within its
\* time to live, and a value that was just set is there.
THEOREM CacheKeepsItsPromise == ASSUME TtlsAgree PROVE Spec => Implements
<1>1. Init => Promise!Init
  BY DEF Init, Promise!Init, Promise!EntryInit, Seen, Has
<1>2. MapOrder /\ NoneExpires /\ UsedFinite' /\ [Next]_vars => [Promise!Next]_Promise!vars
  <2> SUFFICES ASSUME MapOrder, NoneExpires, UsedFinite', [Next]_vars
               PROVE  [Promise!Next]_Promise!vars
    OBVIOUS
  <2>1. CASE UNCHANGED vars
    BY <2>1 DEF vars, Promise!vars, Seen, Has
  <2>2. CASE \E k \in Keys : Get(k)
    BY <2>2, GetKeeps DEF Promise!Next
  <2>3. CASE \E k \in Keys : \E v \in Values, ttl \in OwnTtls \cup {TTL} : Set(k, v, ttl)
    BY <2>3, SetKeeps DEF Promise!Next
  <2>4. CASE (\E k \in Keys : Delete(k)) \/ Clear
    BY <2>4, DeleteKeeps, ClearKeeps DEF Promise!Next
  <2>5. CASE Tick
    BY <2>5, TickKeeps DEF Promise!Next
  <2> QED BY <2>1, <2>2, <2>3, <2>4, <2>5 DEF Next
<1> QED BY <1>1, <1>2, MapKeepsItsOrder, NoneDoesExpire, UsedIsFinite, PTL
        DEF Spec, Implements, Promise!Spec
=============================================================================
