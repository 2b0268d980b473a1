------------------------ MODULE PersistentLRUProofs ------------------------
(***************************************************************************)
(* What the persistent cache keeps on disk, for any entries, times to      *)
(* live, capacity, length of the log, failures and restarts.               *)
(***************************************************************************)
EXTENDS PersistentLRU, FiniteSetTheorems, WellFoundedInduction, TLAPS

Values    == {e.value : e \in Entries}
Lifetimes == Nat \cup {Forever}
EntryT    == [key : Keys, value : Values, left : Lifetimes]

Line == [op : {"set"}, entry : EntryT] \cup [op : {"del"}, key : Keys]
        \cup {ClearLine, TornLine}

\* A map has each key once.
Maps == {map \in Seq(EntryT) : \A i, j \in DOMAIN map : map[i].key = map[j].key => i = j}

Handles == {"open", "orphan", "closed"}

\* The table has one row for a key of a cache.
RowsUnique(table) ==
  \A r, s \in table : r.ns = s.ns /\ r.entry.key = s.entry.key => r = s

DiskOK ==
  /\ log \in Seq(Line)
  /\ handle \in [Caches -> Handles] /\ writes \in [Caches -> Nat]
  /\ rows \subseteq [ns : Caches, entry : EntryT]
  /\ IsFiniteSet(rows) /\ RowsUnique(rows)
  /\ lossy \in BOOLEAN

GhostsOK ==
  /\ latest \subseteq EntryT /\ given \subseteq EntryT
  /\ IsFiniteSet(latest)
  /\ \A e \in latest \cup given : Live(e)

TypeOK ==
  /\ deployment \in Deployments
  /\ hot \in [Caches -> Maps]
  /\ DiskOK
  /\ GhostsOK

\* All entries there are: in memory, in the lines of the log, in the table.
Sets(lines)    == {n \in DOMAIN lines : lines[n].op = "set"}
Logged(lines)  == {lines[n].entry : n \in Sets(lines)}
InMemory == UNION {ToSet(hot[c]) : c \in Caches}
InTable  == {r.entry : r \in rows}
Held     == InMemory \cup Logged(log) \cup InTable

Covers(set, e) == \E g \in set : Outlasts(g, e)
HeldWasGiven   == \A e \in Held : Live(e) => Covers(given, e)

\* The entries that a replay of the log leaves: those of live lines that no
\* later line replaces or removes.
Wipes(line, k) ==
  \/ line.op = "set" /\ line.entry.key = k
  \/ line.op = "del" /\ line.key = k
  \/ line.op = "clear"

Stands(lines, n, m) ==
  /\ lines[n].op = "set" /\ Live(lines[n].entry)
  /\ \A i \in n + 1..m : ~Wipes(lines[i], lines[n].entry.key)

KeptOf(lines, m) == {lines[n].entry : n \in {i \in 1..m : Stands(lines, i, m)}}
Kept(lines)      == KeptOf(lines, Len(lines))

\* Each cache holds its own keys, in the deployments that keep them apart.
AtHome ==
  /\ \A c \in Caches : c \notin deployment.caches => hot[c] = <<>>
  /\ Sqlite => /\ \A c \in Caches : \A e \in ToSet(hot[c]) : e.key \in KeysOf(c)
               /\ \A r \in rows : r.ns \in deployment.caches /\ r.entry.key \in KeysOf(r.ns)
  /\ ~Sqlite => \A c \in deployment.caches : handle[c] # "orphan"

\* Unless a write was lost, the disk holds what was set last, and all of what
\* is in memory.
DiskIsCurrent ==
  ~lossy =>
    /\ Sqlite => /\ \A r \in rows : Live(r.entry) => r.entry \in latest
                 /\ \A c \in Caches : \A e \in LiveIn(hot[c]) : Row(c, e) \in rows
    /\ ~Sqlite => /\ Kept(log) \subseteq latest
                  /\ \A c \in Caches : LiveIn(hot[c]) \subseteq Kept(log)

-----------------------------------------------------------------------------
(***************************************************************************)
(* Maps.                                                                   *)
(***************************************************************************)
LEMMA RemoveAtIs ==
  ASSUME NEW S, NEW s \in Seq(S), NEW p \in 1..Len(s)
  PROVE  /\ RemoveAt(s, p) \in Seq(S)
         /\ Len(RemoveAt(s, p)) = Len(s) - 1
         /\ \A n \in 1..Len(s) - 1 : RemoveAt(s, p)[n] = s[IF n < p THEN n ELSE n + 1]
<1> DEFINE a == SubSeq(s, 1, p - 1)
           b == SubSeq(s, p + 1, Len(s))
<1>1. /\ a \in Seq(S) /\ Len(a) = p - 1
      /\ \A n \in 1..p - 1 : a[n] = s[n]
  OBVIOUS
<1>2. /\ b \in Seq(S) /\ Len(b) = Len(s) - p
      /\ \A n \in 1..Len(s) - p : b[n] = s[p + n]
  OBVIOUS
<1>3. RemoveAt(s, p) = a \o b
  BY DEF RemoveAt
<1> HIDE DEF a, b
<1>4. /\ a \o b \in Seq(S) /\ Len(a \o b) = Len(a) + Len(b)
      /\ \A n \in 1..Len(a) + Len(b) : (a \o b)[n] = IF n <= Len(a) THEN a[n] ELSE b[n - Len(a)]
  <2>1. a \in Seq(S) /\ b \in Seq(S)
    BY <1>1, <1>2
  <2> QED BY <2>1
<1>5. \A n \in 1..Len(s) - 1 : (a \o b)[n] = s[IF n < p THEN n ELSE n + 1]
  <2> SUFFICES ASSUME NEW n \in 1..Len(s) - 1
               PROVE  (a \o b)[n] = s[IF n < p THEN n ELSE n + 1]
    OBVIOUS
  <2>1. CASE n < p
    BY <1>1, <1>2, <1>4, <2>1
  <2>2. CASE ~(n < p)
    <3>1. n - (p - 1) \in 1..Len(s) - p /\ p + (n - (p - 1)) = n + 1
      BY <2>2
    <3>2. n \in 1..Len(a) + Len(b) /\ ~(n <= Len(a)) /\ Len(a) = p - 1
      BY <1>1, <1>2, <2>2
    <3>3. (a \o b)[n] = b[n - (p - 1)]
      BY <1>4, <3>2
    <3> QED BY <1>2, <2>2, <3>1, <3>3
  <2> QED BY <2>1, <2>2
<1> QED BY <1>1, <1>2, <1>3, <1>4, <1>5

\* Deleting takes away the one entry of a key.
LEMMA WithoutIs ==
  ASSUME NEW map \in Maps, NEW k
  PROVE  /\ Without(map, k) \in Maps
         /\ ToSet(Without(map, k)) = {e \in ToSet(map) : e.key # k}
<1> DEFINE w == Without(map, k)
<1>0. map \in Seq(EntryT) /\ \A i, j \in DOMAIN map : map[i].key = map[j].key => i = j
  BY DEF Maps
<1>1. CASE ~Has(map, k)
  <2>1. w = map /\ \A n \in DOMAIN map : map[n].key # k
    BY <1>1 DEF Without, Has, At
  <2> QED BY <2>1 DEF ToSet
<1>2. CASE Has(map, k)
  <2> DEFINE p == CHOOSE n \in At(map, k) : TRUE
  <2>1. p \in 1..Len(map) /\ map[p].key = k
    BY <1>0, <1>2 DEF Has, At
  <2>2. w = RemoveAt(map, p)
    BY <1>2 DEF Without
  <2> HIDE DEF p
  <2>3. /\ w \in Seq(EntryT) /\ Len(w) = Len(map) - 1
        /\ \A n \in 1..Len(map) - 1 : w[n] = map[IF n < p THEN n ELSE n + 1]
    <3>1. map \in Seq(EntryT) /\ p \in 1..Len(map)
      BY <1>0, <2>1
    <3> HIDE DEF EntryT, w
    <3>2. /\ RemoveAt(map, p) \in Seq(EntryT)
          /\ Len(RemoveAt(map, p)) = Len(map) - 1
          /\ \A n \in 1..Len(map) - 1 : RemoveAt(map, p)[n] = map[IF n < p THEN n ELSE n + 1]
      BY <3>1, RemoveAtIs, Zenon
    <3> QED BY <2>2, <3>2
  <2> HIDE DEF w
  <2>4. ASSUME NEW i \in DOMAIN w, NEW j \in DOMAIN w, w[i].key = w[j].key
        PROVE  i = j
    <3> DEFINE at(n) == IF n < p THEN n ELSE n + 1
    <3>1. i \in 1..Len(map) - 1 /\ j \in 1..Len(map) - 1
      BY <1>0, <2>3
    <3>2. w[i] = map[at(i)] /\ w[j] = map[at(j)] /\ at(i) \in DOMAIN map /\ at(j) \in DOMAIN map
      <4>1. \A n \in 1..Len(map) - 1 : w[n] = map[at(n)]
        BY <2>3
      <4>2. DOMAIN map = 1..Len(map) /\ Len(map) \in Nat
        BY <1>0
      <4>3. \A n \in 1..Len(map) - 1 : at(n) \in DOMAIN map
        BY <2>1, <4>2
      <4> HIDE DEF at
      <4> QED BY <3>1, <4>1, <4>3
    <3>3. at(i) = at(j)
      <4> HIDE DEF at
      <4> QED BY <1>0, <2>4, <3>2
    <3> QED BY <2>1, <3>1, <3>3
  <2>5. ASSUME NEW e \in ToSet(w) PROVE e \in ToSet(map) /\ e.key # k
    <3>1. PICK n \in 1..Len(map) - 1 : e = w[n]
      BY <1>0, <2>3 DEF ToSet
    <3> DEFINE q == IF n < p THEN n ELSE n + 1
    <3>2. q \in DOMAIN map /\ q # p /\ e = map[q]
      BY <1>0, <2>1, <2>3, <3>1
    <3> HIDE DEF q
    <3>3. map[q].key # k
      BY <1>0, <2>1, <3>2
    <3> QED BY <3>2, <3>3 DEF ToSet
  <2>6. ASSUME NEW e \in ToSet(map), e.key # k PROVE e \in ToSet(w)
    <3>1. PICK n \in 1..Len(map) : e = map[n]
      BY <1>0 DEF ToSet
    <3>2. n # p
      BY <2>1, <2>6, <3>1
    <3>3. CASE n < p
      <4>1. n \in 1..Len(map) - 1 /\ w[n] = map[n]
        BY <1>0, <2>1, <2>3, <3>3
      <4> QED BY <1>0, <2>3, <3>1, <4>1 DEF ToSet
    <3>4. CASE n > p
      <4>1. n - 1 \in 1..Len(map) - 1 /\ ~(n - 1 < p) /\ (n - 1) + 1 = n
        BY <1>0, <2>1, <3>4
      <4>2. w[n - 1] = map[n]
        BY <2>3, <4>1
      <4> QED BY <1>0, <2>3, <3>1, <4>1, <4>2 DEF ToSet
    <3> QED BY <1>0, <2>1, <3>2, <3>3, <3>4
  <2>7. w \in Maps
    BY <2>3, <2>4 DEF Maps
  <2> QED BY <2>5, <2>6, <2>7 DEF w
<1> QED BY <1>1, <1>2

\* Once the key is gone, an entry with it can be added.
LEMMA AddedIs ==
  ASSUME NEW w \in Maps, NEW e \in EntryT, \A f \in ToSet(w) : f.key # e.key
  PROVE  /\ Append(w, e) \in Maps
         /\ ToSet(Append(w, e)) = ToSet(w) \cup {e}
         /\ Append(w, e)[Len(w) + 1] = e
<1> DEFINE a == Append(w, e)
<1>1. w \in Seq(EntryT) /\ \A i, j \in DOMAIN w : w[i].key = w[j].key => i = j
  BY DEF Maps
<1>2. /\ a \in Seq(EntryT) /\ Len(a) = Len(w) + 1 /\ a[Len(w) + 1] = e
      /\ \A n \in 1..Len(w) : a[n] = w[n]
  <2> HIDE DEF EntryT
  <2> QED BY <1>1
<1> HIDE DEF a
<1>3. \A n \in 1..Len(w) : w[n].key # e.key
  BY <1>1 DEF ToSet
<1>4. ASSUME NEW i \in DOMAIN a, NEW j \in DOMAIN a, a[i].key = a[j].key
      PROVE  i = j
  <2>1. i \in 1..Len(w) + 1 /\ j \in 1..Len(w) + 1
    BY <1>2
  <2>2. CASE i = Len(w) + 1 \/ j = Len(w) + 1
    BY <1>1, <1>2, <1>3, <1>4, <2>1, <2>2
  <2>3. CASE i # Len(w) + 1 /\ j # Len(w) + 1
    <3>1. i \in 1..Len(w) /\ j \in 1..Len(w)
      BY <1>1, <2>1, <2>3
    <3> QED BY <1>1, <1>2, <1>4, <3>1
  <2> QED BY <2>2, <2>3
<1>5. a \in Maps
  BY <1>2, <1>4 DEF Maps
<1>6. ASSUME NEW f \in ToSet(a) PROVE f \in ToSet(w) \cup {e}
  <2>1. PICK n \in 1..Len(w) + 1 : f = a[n]
    BY <1>1, <1>2 DEF ToSet
  <2>2. CASE n = Len(w) + 1
    BY <1>2, <2>1, <2>2
  <2>3. CASE n \in 1..Len(w)
    BY <1>1, <1>2, <2>1, <2>3 DEF ToSet
  <2> QED BY <1>1, <2>2, <2>3
<1>7. ASSUME NEW f \in ToSet(w) \cup {e} PROVE f \in ToSet(a)
  <2>1. CASE f = e
    <3>1. Len(w) + 1 \in DOMAIN a
      BY <1>1, <1>2
    <3> QED BY <1>2, <2>1, <3>1 DEF ToSet
  <2>2. CASE f \in ToSet(w)
    <3>1. PICK n \in 1..Len(w) : f = w[n]
      BY <1>1, <2>2 DEF ToSet
    <3>2. n \in DOMAIN a /\ a[n] = f
      BY <1>1, <1>2, <3>1
    <3> QED BY <3>2 DEF ToSet
  <2> QED BY <1>7, <2>1, <2>2
<1> QED BY <1>2, <1>5, <1>6, <1>7 DEF a

\* A set changes nothing but the one key, wherever the entry is put.
LEMMA PutLastIs ==
  ASSUME NEW map \in Maps, NEW e \in EntryT
  PROVE  /\ PutLast(map, e) \in Maps
         /\ ToSet(PutLast(map, e)) = {f \in ToSet(map) : f.key # e.key} \cup {e}
         /\ PutLast(map, e)[Len(PutLast(map, e))] = e
<1> DEFINE w == Without(map, e.key)
<1>1. w \in Maps /\ ToSet(w) = {f \in ToSet(map) : f.key # e.key}
  BY WithoutIs
<1>2. PutLast(map, e) = Append(w, e)
  BY DEF PutLast
<1>3. Len(Append(w, e)) = Len(w) + 1
  BY <1>1 DEF Maps
<1> HIDE DEF w
<1>4. \A f \in ToSet(w) : f.key # e.key
  BY <1>1
<1> QED BY <1>1, <1>2, <1>3, <1>4, AddedIs

LEMMA PutIs ==
  ASSUME NEW map \in Maps, NEW e \in EntryT
  PROVE  /\ Put(map, e) \in Maps
         /\ ToSet(Put(map, e)) = {f \in ToSet(map) : f.key # e.key} \cup {e}
<1>0. map \in Seq(EntryT) /\ \A i, j \in DOMAIN map : map[i].key = map[j].key => i = j
  BY DEF Maps
<1>1. CASE ~Has(map, e.key)
  <2>1. \A f \in ToSet(map) : f.key # e.key
    BY <1>1 DEF Has, At, ToSet
  <2>2. Put(map, e) = Append(map, e)
    BY <1>1 DEF Put
  <2>3. {f \in ToSet(map) : f.key # e.key} = ToSet(map)
    BY <2>1
  <2> QED BY <2>1, <2>2, <2>3, AddedIs
<1>2. CASE Has(map, e.key)
  <2> DEFINE a == Put(map, e)
  <2>1. a = [n \in DOMAIN map |-> IF map[n].key = e.key THEN e ELSE map[n]]
    BY <1>2 DEF Put
  <2>2. PICK p \in 1..Len(map) : map[p].key = e.key
    BY <1>0, <1>2 DEF Has, At
  <2> HIDE DEF a
  <2>3. DOMAIN a = 1..Len(map) /\ \A n \in 1..Len(map) : a[n] \in EntryT /\ a[n].key = map[n].key
    BY <1>0, <2>1
  <2>4. a \in Seq(EntryT)
    <3> HIDE DEF EntryT
    <3> QED BY <1>0, <2>1, <2>3
  <2>5. a \in Maps
    BY <1>0, <2>3, <2>4 DEF Maps
  <2>6. ToSet(a) = {f \in ToSet(map) : f.key # e.key} \cup {e}
    BY <1>0, <2>1, <2>2 DEF ToSet
  <2> QED BY <2>5, <2>6 DEF a
<1> QED BY <1>1, <1>2

\* What leaves a full map is the first of it, and its keys leave with it.
LEMMA TrimmedIs ==
  ASSUME NEW map \in Maps
  PROVE  /\ Trimmed(map) \in Maps
         /\ ToSet(Trimmed(map)) \subseteq ToSet(map)
         /\ Len(map) <= MAX => Trimmed(map) = map
         /\ \A f \in ToSet(Trimmed(map)) : f.key \notin Pushed(map)
<1> DEFINE x == Excess(map)
           t == Trimmed(map)
<1>0. map \in Seq(EntryT) /\ \A i, j \in DOMAIN map : map[i].key = map[j].key => i = j
  BY DEF Maps
<1>1. /\ MAX \in Nat \ {0} /\ x \in 0..Len(map)
      /\ Len(map) <= MAX => x = 0
  BY <1>0, PersistentAssumption DEF PersistentAssumption, Excess
<1>2. t = SubSeq(map, x + 1, Len(map))
  BY DEF Trimmed
<1> HIDE DEF x, t
<1>3. /\ t \in Seq(EntryT) /\ Len(t) = Len(map) - x
      /\ \A n \in 1..Len(map) - x : t[n] = map[x + n]
  <2> HIDE DEF EntryT
  <2> QED BY <1>0, <1>1, <1>2
<1>4. t \in Maps
  <2> SUFFICES ASSUME NEW i \in DOMAIN t, NEW j \in DOMAIN t, t[i].key = t[j].key
               PROVE  i = j
    BY <1>3 DEF Maps
  <2>1. /\ i \in 1..Len(map) - x /\ j \in 1..Len(map) - x
        /\ x + i \in DOMAIN map /\ x + j \in DOMAIN map
    BY <1>0, <1>1, <1>3
  <2>2. x + i = x + j
    BY <1>0, <1>3, <2>1
  <2> QED BY <1>1, <2>1, <2>2
<1>5. ASSUME NEW f \in ToSet(t) PROVE f \in ToSet(map) /\ f.key \notin Pushed(map)
  <2>1. PICK n \in 1..Len(map) - x : f = t[n]
    BY <1>0, <1>1, <1>3 DEF ToSet
  <2>2. x + n \in DOMAIN map /\ f = map[x + n]
    BY <1>0, <1>1, <1>3, <2>1
  <2>3. \A i \in 1..x : map[i].key # f.key
    <3> SUFFICES ASSUME NEW i \in 1..x, map[i].key = f.key PROVE FALSE
      OBVIOUS
    <3>1. i \in DOMAIN map /\ i # x + n
      BY <1>0, <1>1, <2>1
    <3> QED BY <1>0, <2>2, <3>1
  <2> QED BY <2>2, <2>3 DEF ToSet, Pushed, x
<1>6. ASSUME Len(map) <= MAX PROVE t = map
  <2>1. x = 0
    BY <1>1, <1>6
  <2>2. t = SubSeq(map, 1, Len(map))
    BY <1>2, <2>1
  <2> HIDE DEF EntryT
  <2> QED BY <1>0, <2>2
<1> QED BY <1>4, <1>5, <1>6 DEF t

\* The entry that was just put last is not among those that leave.
LEMMA LastStays ==
  ASSUME NEW map \in Maps, NEW e \in EntryT
  PROVE  e.key \notin Pushed(PutLast(map, e))
<1> DEFINE m == PutLast(map, e)
<1>1. /\ m \in Seq(EntryT) /\ \A i, j \in DOMAIN m : m[i].key = m[j].key => i = j
      /\ e \in ToSet(m) /\ m[Len(m)] = e
  BY PutLastIs DEF Maps
<1> HIDE DEF m
<1>2. Len(m) \in Nat \ {0}
  BY <1>1 DEF ToSet
<1>3. Excess(m) \in 0..Len(m) - 1
  BY <1>2, PersistentAssumption DEF PersistentAssumption, Excess
<1>4. \A n \in 1..Excess(m) : m[n].key # e.key
  <2> SUFFICES ASSUME NEW n \in 1..Excess(m), m[n].key = e.key PROVE FALSE
    OBVIOUS
  <2>1. n \in DOMAIN m /\ Len(m) \in DOMAIN m /\ n # Len(m)
    BY <1>1, <1>2, <1>3
  <2> QED BY <1>1, <2>1
<1> QED BY <1>4 DEF Pushed, m

-----------------------------------------------------------------------------
(***************************************************************************)
(* The log.                                                                *)
(***************************************************************************)
LEMMA LinesAre ==
  /\ ClearLine \in Line /\ TornLine \in Line
  /\ \A e \in EntryT : SetLine(e) \in Line
  /\ \A k \in Keys : DelLine(k) \in Line
  /\ \A l \in Line : /\ l.op \in {"set", "del", "clear", "torn"}
                     /\ l.op = "set" => l.entry \in EntryT /\ l = SetLine(l.entry)
                     /\ l.op = "del" => l.key \in Keys /\ l = DelLine(l.key)
                     /\ l.op = "clear" => l = ClearLine
                     /\ l.op = "torn" => l = TornLine
  BY DEF Line, SetLine, DelLine, ClearLine, TornLine

LEMMA Replayed1Is ==
  ASSUME NEW map \in Maps, NEW l \in Line
  PROVE  /\ Replayed1(map, l) \in Maps
         /\ ToSet(Replayed1(map, l)) =
              {f \in ToSet(map) : ~Wipes(l, f.key)}
              \cup (IF l.op = "set" /\ Live(l.entry) THEN {l.entry} ELSE {})
<1> DEFINE r == Replayed1(map, l)
<1>1. CASE l.op = "set" /\ Live(l.entry)
  <2>1. r = Put(map, l.entry) /\ l.entry \in EntryT
    BY <1>1, LinesAre DEF Replayed1
  <2>2. \A f \in ToSet(map) : Wipes(l, f.key) <=> l.entry.key = f.key
    BY <1>1 DEF Wipes
  <2>3. r \in Maps /\ ToSet(r) = {f \in ToSet(map) : f.key # l.entry.key} \cup {l.entry}
    BY <2>1, PutIs
  <2> HIDE DEF r
  <2> QED BY <1>1, <2>2, <2>3 DEF r
<1>2. CASE l.op = "set" /\ ~Live(l.entry)
  <2>1. r = Without(map, l.entry.key)
    BY <1>2 DEF Replayed1
  <2>2. \A f \in ToSet(map) : Wipes(l, f.key) <=> l.entry.key = f.key
    BY <1>2 DEF Wipes
  <2>3. r \in Maps /\ ToSet(r) = {f \in ToSet(map) : f.key # l.entry.key}
    BY <2>1, WithoutIs
  <2> HIDE DEF r
  <2> QED BY <1>2, <2>2, <2>3 DEF r
<1>3. CASE l.op = "del"
  <2>1. r = Without(map, l.key)
    BY <1>3 DEF Replayed1
  <2>2. \A f \in ToSet(map) : Wipes(l, f.key) <=> l.key = f.key
    BY <1>3 DEF Wipes
  <2>3. r \in Maps /\ ToSet(r) = {f \in ToSet(map) : f.key # l.key}
    BY <2>1, WithoutIs
  <2> HIDE DEF r
  <2> QED BY <1>3, <2>2, <2>3 DEF r
<1>4. CASE l.op = "clear"
  <2>1. r = << >> /\ \A f \in ToSet(map) : Wipes(l, f.key)
    BY <1>4 DEF Replayed1, Wipes
  <2>2. r \in Maps /\ ToSet(r) = {}
    BY <2>1 DEF Maps, ToSet
  <2> QED BY <1>4, <2>1, <2>2
<1>5. CASE l.op = "torn"
  <2>1. r = map /\ \A f \in ToSet(map) : ~Wipes(l, f.key)
    BY <1>5 DEF Replayed1, Wipes
  <2> QED BY <1>5, <2>1
<1>6. l.op \in {"set", "del", "clear", "torn"}
  BY LinesAre
<1> QED BY <1>1, <1>2, <1>3, <1>4, <1>5, <1>6

LEMMA Smallest ==
  ASSUME NEW S \in SUBSET Nat, S # {}
  PROVE  \E m \in S : \A n \in S : m <= n
<1>1. PICK m \in S : \A n \in S : <<n, m>> \notin OpToRel(<, Nat)
  BY NatLessThanWellFounded, WFMin
<1>2. \A n \in S : ~(n < m)
  BY <1>1 DEF OpToRel
<1> QED BY <1>2

\* One line more.
LEMMA KeptOfMore ==
  ASSUME NEW lines \in Seq(Line), NEW m \in 1..Len(lines)
  PROVE  KeptOf(lines, m) =
           {f \in KeptOf(lines, m - 1) : ~Wipes(lines[m], f.key)}
           \cup (IF lines[m].op = "set" /\ Live(lines[m].entry) THEN {lines[m].entry} ELSE {})
<1> DEFINE old == {f \in KeptOf(lines, m - 1) : ~Wipes(lines[m], f.key)}
           new == IF lines[m].op = "set" /\ Live(lines[m].entry) THEN {lines[m].entry} ELSE {}
<1>1. \A n \in 1..m - 1 : /\ n \in 1..m
                          /\ n + 1..m = (n + 1..m - 1) \cup {m}
  OBVIOUS
<1>2. ASSUME NEW f \in KeptOf(lines, m) PROVE f \in old \cup new
  <2>1. PICK n \in 1..m : Stands(lines, n, m) /\ f = lines[n].entry
    BY DEF KeptOf
  <2>2. CASE n = m
    BY <2>1, <2>2 DEF Stands
  <2>3. CASE n \in 1..m - 1
    <3>1. Stands(lines, n, m - 1) /\ ~Wipes(lines[m], f.key)
      BY <1>1, <2>1, <2>3 DEF Stands
    <3> QED BY <2>1, <2>3, <3>1 DEF KeptOf
  <2> QED BY <2>2, <2>3
<1>3. ASSUME NEW f \in old PROVE f \in KeptOf(lines, m)
  <2>1. PICK n \in 1..m - 1 : Stands(lines, n, m - 1) /\ f = lines[n].entry
    BY <1>3 DEF KeptOf
  <2>2. n \in 1..m /\ Stands(lines, n, m)
    BY <1>1, <1>3, <2>1 DEF Stands
  <2> QED BY <2>1, <2>2 DEF KeptOf
<1>4. ASSUME NEW f \in new PROVE f \in KeptOf(lines, m)
  <2>1. m \in 1..m /\ m + 1..m = {}
    OBVIOUS
  <2>2. Stands(lines, m, m) /\ f = lines[m].entry
    BY <1>4, <2>1 DEF Stands
  <2> QED BY <2>1, <2>2 DEF KeptOf
<1> HIDE DEF old, new
<1>5. KeptOf(lines, m) = old \cup new
  BY <1>2, <1>3, <1>4
<1> QED BY <1>5 DEF old, new

\* A replay leaves the entries of the lines that stand, each key once.
LEMMA ReplayedIs ==
  ASSUME NEW lines \in Seq(Line)
  PROVE  Replayed(lines) \in Maps /\ ToSet(Replayed(lines)) = Kept(lines)
<1> DEFINE N == Len(lines)
           Replays(f, k) == f = [n \in 0..k |-> IF n = 0 THEN << >>
                                                ELSE Replayed1(f[n - 1], lines[n])]
<1>0. N \in Nat
  OBVIOUS
<1>1. \A k \in 0..N : \E f : Replays(f, k)
  <2> DEFINE bad == {k \in 0..N : ~\E f : Replays(f, k)}
  <2> SUFFICES ASSUME bad # {} PROVE FALSE
    OBVIOUS
  <2>1. bad \in SUBSET Nat
    BY <1>0
  <2>2. PICK k \in bad : \A n \in bad : k <= n
    <3> HIDE DEF bad
    <3> QED BY <2>1, Smallest
  <2>3. k \in 0..N /\ ~\E f : Replays(f, k)
    OBVIOUS
  <2>4. CASE k = 0
    <3>1. Replays([n \in 0..0 |-> << >>], 0)
      OBVIOUS
    <3> QED BY <2>3, <2>4, <3>1
  <2>5. CASE k # 0
    <3>1. k - 1 \in 0..N /\ k - 1 \notin bad
      BY <1>0, <2>1, <2>2, <2>3, <2>5
    <3>2. PICK g : Replays(g, k - 1)
      BY <3>1
    <3> DEFINE f == [n \in 0..k |-> IF n = k THEN Replayed1(g[k - 1], lines[k]) ELSE g[n]]
    <3>3. \A n \in 0..k : f[n] = IF n = 0 THEN << >> ELSE Replayed1(f[n - 1], lines[n])
      <4> SUFFICES ASSUME NEW n \in 0..k
                   PROVE  f[n] = IF n = 0 THEN << >> ELSE Replayed1(f[n - 1], lines[n])
        OBVIOUS
      <4>1. CASE n = k
        <5>1. f[n] = Replayed1(g[k - 1], lines[k]) /\ f[k - 1] = g[k - 1]
          BY <1>0, <2>3, <2>5, <4>1
        <5> QED BY <2>5, <4>1, <5>1
      <4>2. CASE n # k
        <5>1. n \in 0..k - 1 /\ f[n] = g[n] /\ (n # 0 => f[n - 1] = g[n - 1])
          BY <1>0, <2>3, <4>2
        <5>2. g[n] = IF n = 0 THEN << >> ELSE Replayed1(g[n - 1], lines[n])
          BY <3>2, <5>1
        <5> QED BY <5>1, <5>2
      <4> QED BY <4>1, <4>2
    <3>4. Replays(f, k)
      BY <3>3
    <3> HIDE DEF f, Replays
    <3> QED BY <2>3, <3>4
  <2> QED BY <2>4, <2>5
<1> DEFINE r == CHOOSE f : Replays(f, N)
<1>2. Replays(r, N)
  <2>1. \E f : Replays(f, N)
    BY <1>0, <1>1
  <2> HIDE DEF Replays
  <2> QED BY <2>1
<1>3. Replayed(lines) = r[N]
  BY DEF Replayed
<1> HIDE DEF r
<1>4. \A m \in 0..N : r[m] \in Maps /\ ToSet(r[m]) = KeptOf(lines, m)
  <2> DEFINE bad == {k \in 0..N : ~(r[k] \in Maps /\ ToSet(r[k]) = KeptOf(lines, k))}
  <2> SUFFICES ASSUME bad # {} PROVE FALSE
    OBVIOUS
  <2>1. bad \in SUBSET Nat
    BY <1>0
  <2>2. PICK k \in bad : \A n \in bad : k <= n
    <3> HIDE DEF bad
    <3> QED BY <2>1, Smallest
  <2>3. k \in 0..N /\ ~(r[k] \in Maps /\ ToSet(r[k]) = KeptOf(lines, k))
    OBVIOUS
  <2>4. CASE k = 0
    <3>1. r[0] = << >>
      BY <1>0, <1>2
    <3>2. r[0] \in Maps /\ ToSet(r[0]) = {}
      BY <3>1 DEF Maps, ToSet
    <3>3. KeptOf(lines, 0) = {}
      BY DEF KeptOf
    <3> QED BY <2>3, <2>4, <3>2, <3>3
  <2>5. CASE k # 0
    <3>1. k - 1 \in 0..N /\ k - 1 \notin bad /\ k \in 1..Len(lines)
      BY <1>0, <2>1, <2>2, <2>3, <2>5
    <3>2. r[k - 1] \in Maps /\ ToSet(r[k - 1]) = KeptOf(lines, k - 1)
      BY <3>1
    <3>3. r[k] = Replayed1(r[k - 1], lines[k]) /\ lines[k] \in Line
      BY <1>0, <1>2, <2>3, <2>5, <3>1
    <3> HIDE DEF bad, Replays
    <3>4. /\ r[k] \in Maps
          /\ ToSet(r[k]) = {f \in ToSet(r[k - 1]) : ~Wipes(lines[k], f.key)}
                           \cup (IF lines[k].op = "set" /\ Live(lines[k].entry)
                                 THEN {lines[k].entry} ELSE {})
      BY <3>2, <3>3, Replayed1Is
    <3>5. ToSet(r[k]) = KeptOf(lines, k)
      BY <3>1, <3>2, <3>4, KeptOfMore
    <3> QED BY <2>3, <3>4, <3>5
  <2> QED BY <2>4, <2>5
<1> QED BY <1>0, <1>3, <1>4 DEF Kept

LEMMA KeptOfAppend ==
  ASSUME NEW lines \in Seq(Line), NEW l \in Line
  PROVE  Kept(Append(lines, l)) =
           {f \in Kept(lines) : ~Wipes(l, f.key)}
           \cup (IF l.op = "set" /\ Live(l.entry) THEN {l.entry} ELSE {})
<1> DEFINE more == Append(lines, l)
           m == Len(lines)
<1>1. /\ more \in Seq(Line) /\ Len(more) = m + 1 /\ m \in Nat
      /\ more[m + 1] = l /\ \A n \in 1..m : more[n] = lines[n]
  <2> HIDE DEF Line
  <2> QED OBVIOUS
<1>2. m + 1 \in 1..Len(more) /\ (m + 1) - 1 = m
  BY <1>1
<1> HIDE DEF more, m
<1>3. \A n \in 1..m : Stands(more, n, m) <=> Stands(lines, n, m)
  BY <1>1 DEF Stands
<1>4. KeptOf(more, m) = KeptOf(lines, m)
  BY <1>1, <1>3 DEF KeptOf
<1>5. KeptOf(more, m + 1) =
        {f \in KeptOf(more, (m + 1) - 1) : ~Wipes(more[m + 1], f.key)}
        \cup (IF more[m + 1].op = "set" /\ Live(more[m + 1].entry) THEN {more[m + 1].entry} ELSE {})
  BY <1>1, <1>2, KeptOfMore
<1> QED BY <1>1, <1>2, <1>4, <1>5 DEF Kept, more, m

\* A compaction keeps what is live in memory.
LEMMA DumpIs ==
  ASSUME NEW map \in Maps
  PROVE  /\ Dump(map) \in Seq(Line)
         /\ Logged(Dump(map)) \subseteq ToSet(map)
         /\ Kept(Dump(map)) = LiveIn(map)
<1> DEFINE d == Dump(map)
<1>0. map \in Seq(EntryT) /\ \A i, j \in DOMAIN map : map[i].key = map[j].key => i = j
  BY DEF Maps
<1>1. d = [n \in 1..Len(map) |-> SetLine(map[n])]
  BY <1>0 DEF Dump
<1>2. \A n \in 1..Len(map) : SetLine(map[n]) \in Line
  BY <1>0, LinesAre
<1>3. d \in Seq(Line) /\ Len(d) = Len(map)
  <2> HIDE DEF Line, EntryT
  <2> QED BY <1>0, <1>1, <1>2
<1>4. \A n \in 1..Len(map) : d[n].op = "set" /\ d[n].entry = map[n]
  BY <1>1 DEF SetLine
<1> HIDE DEF d
<1>5. Logged(d) \subseteq ToSet(map)
  BY <1>0, <1>3, <1>4 DEF Logged, Sets, ToSet
<1>6. \A n \in 1..Len(map) : Stands(d, n, Len(d)) <=> Live(map[n])
  <2> SUFFICES ASSUME NEW n \in 1..Len(map)
               PROVE  Stands(d, n, Len(d)) <=> Live(map[n])
    OBVIOUS
  <2>1. ASSUME NEW i \in n + 1..Len(d) PROVE ~Wipes(d[i], d[n].entry.key)
    <3>1. i \in 1..Len(map) /\ i # n
      BY <1>0, <1>3
    <3>2. map[i].key # map[n].key
      BY <1>0, <3>1
    <3> QED BY <1>4, <3>1, <3>2 DEF Wipes
  <2> QED BY <1>4, <2>1 DEF Stands
<1>7. Kept(d) = LiveIn(map)
  BY <1>0, <1>3, <1>4, <1>6 DEF Kept, KeptOf, LiveIn, ToSet
<1> QED BY <1>3, <1>5, <1>7 DEF d

LEMMA ExtendedIs ==
  ASSUME log \in Seq(Line), NEW l \in Line
  PROVE  /\ Extended(l) \in Seq(Line) /\ CutShort \in Seq(Line)
         /\ \A f \in Logged(Extended(l)) : f \in Logged(log) \/ (l.op = "set" /\ f = l.entry)
         /\ Logged(CutShort) \subseteq Logged(log)
<1>1. ASSUME NEW x \in Line
      PROVE  /\ Append(log, x) \in Seq(Line)
             /\ \A f \in Logged(Append(log, x)) : f \in Logged(log) \/ (x.op = "set" /\ f = x.entry)
  <2>1. /\ Append(log, x) \in Seq(Line) /\ Len(Append(log, x)) = Len(log) + 1
        /\ Append(log, x)[Len(log) + 1] = x
        /\ \A n \in 1..Len(log) : Append(log, x)[n] = log[n]
    <3> HIDE DEF Line
    <3> QED OBVIOUS
  <2>2. ASSUME NEW f \in Logged(Append(log, x))
        PROVE  f \in Logged(log) \/ (x.op = "set" /\ f = x.entry)
    <3>1. PICK n \in 1..Len(log) + 1 : Append(log, x)[n].op = "set" /\ f = Append(log, x)[n].entry
      BY <2>1 DEF Logged, Sets
    <3>2. CASE n = Len(log) + 1
      BY <2>1, <3>1, <3>2
    <3>3. CASE n \in 1..Len(log)
      BY <2>1, <3>1, <3>3 DEF Logged, Sets
    <3> QED BY <3>2, <3>3
  <2> QED BY <2>1, <2>2
<1>2. CASE EndsTorn(log)
  <2>1. Extended(l) = Front(log) /\ CutShort = log /\ log # << >>
    BY <1>2 DEF Extended, CutShort, EndsTorn
  <2>2. /\ Front(log) \in Seq(Line)
        /\ Len(Front(log)) = Len(log) - 1 /\ \A n \in 1..Len(log) - 1 : Front(log)[n] = log[n]
    <3>1. Len(log) \in Nat \ {0}
      BY <2>1
    <3> HIDE DEF Line
    <3> QED BY <3>1 DEF Front
  <2>3. Logged(Front(log)) \subseteq Logged(log)
    BY <2>2 DEF Logged, Sets
  <2> QED BY <2>1, <2>2, <2>3
<1>3. CASE ~EndsTorn(log)
  <2>1. Extended(l) = Append(log, l) /\ CutShort = Append(log, TornLine)
    BY <1>3 DEF Extended, CutShort
  <2>2. TornLine \in Line /\ TornLine.op # "set"
    BY LinesAre DEF TornLine
  <2> QED BY <1>1, <2>1, <2>2
<1> QED BY <1>2, <1>3

\* An append that was not lost leaves the old log with the line, or what a
\* compaction writes; any append leaves nothing else, unless a line is lost.
LEMMA AppendIs ==
  ASSUME DiskOK, NEW c \in Caches, NEW l \in Line, NEW map \in Maps, AppendJsonl(c, l, map)
  PROVE  /\ DiskOK' /\ rows' = rows
         /\ handle[c] # "orphan" => handle'[c] # "orphan"
         /\ lossy => lossy'
         /\ \A f \in Logged(log') : \/ f \in Logged(log) \/ f \in ToSet(map)
                                    \/ l.op = "set" /\ f = l.entry
         /\ ~lossy' /\ handle[c] # "orphan" => log' = Append(log, l) \/ log' = Dump(map)
<1> USE PersistentAssumption DEF PersistentAssumption
<1>0. /\ log \in Seq(Line) /\ handle \in [Caches -> Handles] /\ writes \in [Caches -> Nat]
      /\ lossy \in BOOLEAN
  BY DEF DiskOK
<1>1. rows' = rows
  BY DEF AppendJsonl
<1>2. PICK outcome \in {"written", "short", "refused"} :
        LET reached == handle[c] = "open" /\ outcome # "refused"
            lines   == CASE ~reached                        -> log
                         [] reached /\ outcome = "short"   -> CutShort
                         [] reached /\ outcome = "written" -> Extended(l)
        IN  /\ Len(lines) <= MAX_LOG
            /\ lossy' = (lossy \/ outcome # "written" \/ handle[c] = "closed" \/ EndsTorn(log))
            /\ \/ /\ outcome = "refused"
                  /\ UNCHANGED fileVars
               \/ /\ outcome # "refused"
                  /\ writes[c] + 1 < COMPACT_EVERY
                  /\ log' = lines
                  /\ writes' = [writes EXCEPT ![c] = @ + 1]
                  /\ UNCHANGED handle
               \/ /\ outcome # "refused"
                  /\ writes[c] + 1 >= COMPACT_EVERY
                  /\ Compact(c, map, lines)
  BY DEF AppendJsonl
<1> DEFINE reached == handle[c] = "open" /\ outcome # "refused"
           lines   == CASE ~reached                        -> log
                        [] reached /\ outcome = "short"   -> CutShort
                        [] reached /\ outcome = "written" -> Extended(l)
<1>3. /\ lines \in Seq(Line)
      /\ \A f \in Logged(lines) : f \in Logged(log) \/ (l.op = "set" /\ f = l.entry)
  <2>1. CASE ~reached
    <3>1. lines = log
      BY <2>1
    <3> HIDE DEF lines
    <3> QED BY <1>0, <3>1
  <2>2. CASE reached /\ outcome = "short"
    <3>1. lines = CutShort
      BY <2>2
    <3> QED BY <1>0, <3>1, ExtendedIs
  <2>3. CASE reached /\ outcome = "written"
    <3>1. lines = Extended(l)
      BY <2>3
    <3> QED BY <1>0, <3>1, ExtendedIs
  <2> QED BY <2>1, <2>2, <2>3
<1>4. lossy' = (lossy \/ outcome # "written" \/ handle[c] = "closed" \/ EndsTorn(log))
  BY <1>2
<1>5. ~lossy' /\ handle[c] # "orphan" => lines = Append(log, l)
  <2> SUFFICES ASSUME ~lossy', handle[c] # "orphan" PROVE lines = Append(log, l)
    OBVIOUS
  <2>1. outcome = "written" /\ handle[c] # "closed" /\ ~EndsTorn(log)
    BY <1>4
  <2>2. handle[c] = "open"
    BY <1>0, <2>1 DEF Handles
  <2> QED BY <2>1, <2>2 DEF Extended
<1>6. \/ outcome = "refused" /\ UNCHANGED fileVars
      \/ /\ log' = lines /\ writes' = [writes EXCEPT ![c] = @ + 1] /\ UNCHANGED handle
      \/ Compact(c, map, lines)
  BY <1>2
<1>7. ASSUME NEW own \in {"open", "closed"}
      PROVE  Renamed(c, own) \in [Caches -> Handles] /\ Renamed(c, own)[c] # "orphan"
  BY <1>0 DEF Renamed, Handles
<1>8. /\ Dump(map) \in Seq(Line) /\ Logged(Dump(map)) \subseteq ToSet(map)
  BY DumpIs
<1> HIDE DEF lines
<1>9. log' = log \/ log' = lines \/ log' = Dump(map)
  BY <1>6 DEF Compact, fileVars
<1>10. /\ log' \in Seq(Line)
       /\ \A f \in Logged(log') : \/ f \in Logged(log) \/ f \in ToSet(map)
                                  \/ l.op = "set" /\ f = l.entry
  <2>1. CASE log' = log
    BY <1>0, <2>1
  <2>2. CASE log' = lines
    BY <1>3, <2>2
  <2>3. CASE log' = Dump(map)
    BY <1>8, <2>3
  <2> QED BY <1>9, <2>1, <2>2, <2>3
<1>11. handle' \in [Caches -> Handles] /\ (handle[c] # "orphan" => handle'[c] # "orphan")
  <2>1. CASE UNCHANGED handle
    BY <1>0, <2>1
  <2>2. CASE \E own \in {"open", "closed"} : handle' = Renamed(c, own)
    BY <1>7, <2>2
  <2>3. CASE handle' = [handle EXCEPT ![c] = "closed"]
    BY <1>0, <2>3 DEF Handles
  <2> QED BY <1>6, <2>1, <2>2, <2>3 DEF Compact, fileVars
<1>12. writes' \in [Caches -> Nat]
  BY <1>0, <1>6 DEF Compact, fileVars
<1>13. ~lossy' /\ handle[c] # "orphan" => log' = Append(log, l) \/ log' = Dump(map)
  <2> SUFFICES ASSUME ~lossy', handle[c] # "orphan"
               PROVE  log' = Append(log, l) \/ log' = Dump(map)
    OBVIOUS
  <2>1. outcome = "written" /\ lines = Append(log, l)
    BY <1>4, <1>5
  <2>2. log' = lines \/ log' = Dump(map)
    BY <1>6, <2>1 DEF Compact
  <2> QED BY <2>1, <2>2
<1>14. lossy' \in BOOLEAN /\ (lossy => lossy')
  BY <1>0, <1>4
<1>15. DiskOK'
  BY <1>1, <1>10, <1>11, <1>12, <1>14 DEF DiskOK, RowsUnique
<1> QED BY <1>1, <1>10, <1>11, <1>13, <1>14, <1>15

-----------------------------------------------------------------------------
(***************************************************************************)
(* The table.                                                              *)
(***************************************************************************)
\* A statement that does not fail leaves what it should, less some evicted.
LEMMA ExecuteIs ==
  ASSUME DiskOK, NEW lost, NEW gained, NEW evicted, Execute(lost, gained, evicted),
         gained \subseteq [ns : Caches, entry : EntryT], IsFiniteSet(gained),
         RowsUnique((rows \ lost) \cup gained)
  PROVE  /\ DiskOK' /\ UNCHANGED fileVars
         /\ \A r \in rows' : r \in rows \/ r \in gained
         /\ lossy => lossy'
         /\ ~lossy' => /\ rows' \subseteq (rows \ lost) \cup gained
                       /\ ((rows \ lost) \cup gained) \ evicted \subseteq rows'
<1>1. PICK done \in BOOLEAN, gone \in SUBSET evicted :
        /\ rows' = (IF done THEN (rows \ lost) \cup gained ELSE rows) \ gone
        /\ lossy' = (lossy \/ ~done)
  BY DEF Execute
<1>2. UNCHANGED fileVars
  BY DEF Execute
<1>3. /\ rows \subseteq [ns : Caches, entry : EntryT] /\ IsFiniteSet(rows)
      /\ RowsUnique(rows) /\ lossy \in BOOLEAN
  BY DEF DiskOK
<1>4. lossy' \in BOOLEAN /\ (lossy => lossy') /\ (~lossy' => done)
  <2> HIDE DEF EntryT
  <2> QED BY <1>1, <1>3
<1>5. rows' \subseteq rows \cup gained
  BY <1>1
<1>6. IsFiniteSet(rows')
  <2>1. IsFiniteSet(rows \cup gained)
    BY <1>3, FS_Union
  <2> QED BY <1>5, <2>1, FS_Subset
<1>7. RowsUnique(rows')
  <2>1. CASE done
    BY <1>1, <2>1 DEF RowsUnique
  <2>2. CASE ~done
    BY <1>1, <1>3, <2>2 DEF RowsUnique
  <2> QED BY <2>1, <2>2
<1>8. DiskOK'
  BY <1>2, <1>3, <1>4, <1>5, <1>6, <1>7 DEF DiskOK, fileVars
<1>9. ~lossy' => /\ rows' \subseteq (rows \ lost) \cup gained
                 /\ ((rows \ lost) \cup gained) \ evicted \subseteq rows'
  BY <1>1, <1>4
<1> QED BY <1>2, <1>4, <1>5, <1>8, <1>9

\* The row of a key is replaced.
LEMMA ReplacedIs ==
  ASSUME DiskOK, NEW c \in Caches, NEW e \in EntryT
  PROVE  /\ {Row(c, e)} \subseteq [ns : Caches, entry : EntryT] /\ IsFiniteSet({Row(c, e)})
         /\ RowsUnique((rows \ RowsOf(c, {e.key})) \cup {Row(c, e)})
<1>1. RowsUnique(rows)
  BY DEF DiskOK
<1>2. \A r \in rows \ RowsOf(c, {e.key}) : ~(r.ns = c /\ r.entry.key = e.key)
  BY DEF RowsOf
<1>3. Row(c, e).ns = c /\ Row(c, e).entry = e
  BY DEF Row
<1>4. RowsUnique((rows \ RowsOf(c, {e.key})) \cup {Row(c, e)})
  BY <1>1, <1>2, <1>3 DEF RowsUnique
<1>5. {Row(c, e)} \subseteq [ns : Caches, entry : EntryT]
  BY DEF Row
<1> QED BY <1>4, <1>5, FS_Singleton

LEMMA SetExecutes ==
  ASSUME DiskOK, NEW c \in Caches, NEW e \in EntryT, NEW evicted,
         Execute(RowsOf(c, {e.key}), {Row(c, e)}, evicted)
  PROVE  LET table == (rows \ RowsOf(c, {e.key})) \cup {Row(c, e)}
         IN  /\ DiskOK' /\ UNCHANGED fileVars
             /\ \A r \in rows' : r \in rows \/ r = Row(c, e)
             /\ lossy => lossy'
             /\ ~lossy' => rows' \subseteq table /\ table \ evicted \subseteq rows'
<1> DEFINE lost == RowsOf(c, {e.key})
           gained == {Row(c, e)}
<1>1. /\ gained \subseteq [ns : Caches, entry : EntryT] /\ IsFiniteSet(gained)
      /\ RowsUnique((rows \ lost) \cup gained)
  BY ReplacedIs
<1>2. Execute(lost, gained, evicted)
  OBVIOUS
<1> HIDE DEF lost, gained
<1>3. /\ DiskOK' /\ UNCHANGED fileVars
      /\ \A r \in rows' : r \in rows \/ r \in gained
      /\ lossy => lossy'
      /\ ~lossy' => /\ rows' \subseteq (rows \ lost) \cup gained
                    /\ ((rows \ lost) \cup gained) \ evicted \subseteq rows'
  BY <1>1, <1>2, ExecuteIs, Zenon
<1> QED BY <1>3 DEF lost, gained

LEMMA RemoveExecutes ==
  ASSUME DiskOK, NEW lost, Execute(lost, {}, {})
  PROVE  /\ DiskOK' /\ UNCHANGED fileVars /\ rows' \subseteq rows
         /\ lossy => lossy'
         /\ ~lossy' => rows' = rows \ lost
<1> DEFINE none == {}
<1>1. /\ none \subseteq [ns : Caches, entry : EntryT] /\ IsFiniteSet(none)
      /\ RowsUnique((rows \ lost) \cup none)
  BY FS_EmptySet DEF DiskOK, RowsUnique
<1>2. Execute(lost, none, none)
  OBVIOUS
<1> HIDE DEF none
<1>3. /\ DiskOK' /\ UNCHANGED fileVars
      /\ \A r \in rows' : r \in rows \/ r \in none
      /\ lossy => lossy'
      /\ ~lossy' => /\ rows' \subseteq (rows \ lost) \cup none
                    /\ ((rows \ lost) \cup none) \ none \subseteq rows'
  BY <1>1, <1>2, ExecuteIs, Zenon
<1> QED BY <1>3 DEF none

-----------------------------------------------------------------------------
(***************************************************************************)
(* Types, and where entries come from.                                     *)
(***************************************************************************)
LEMMA LiveOnes ==
  /\ Entries \subseteq EntryT /\ \A e \in Entries : Live(e)
  /\ \A e \in EntryT : e.left \in Int /\ (Live(e) => e.left > 0 \/ e.left = Forever)
<1>1. Forever \in Int /\ Forever # 0 /\ Forever < 0
  BY DEF Forever
<1>2. ASSUME NEW e \in Entries PROVE e \in EntryT /\ Live(e)
  <2>1. e \in [key : Keys, value : {f.value : f \in Entries}, left : (Nat \ {0}) \cup {Forever}]
    BY PersistentAssumption DEF PersistentAssumption
  <2> QED BY <1>1, <2>1 DEF EntryT, Values, Lifetimes, Live
<1> QED BY <1>1, <1>2 DEF EntryT, Lifetimes, Live

LEMMA CachesAre ==
  ASSUME TypeOK
  PROVE  /\ deployment.caches \subseteq Caches
         /\ \A c \in Caches : KeysOf(c) \subseteq Keys /\ Stored(c) \subseteq Entries
  BY DEF TypeOK, Caches, Keys, Entries

\* An operation of one cache changes the map of that cache.
LEMMA OneMap ==
  ASSUME TypeOK, NEW c \in Caches, NEW m \in Maps, hot' = [hot EXCEPT ![c] = m]
  PROVE  /\ hot' \in [Caches -> Maps] /\ hot'[c] = m
         /\ \A d \in Caches : d # c => hot'[d] = hot[d]
  BY DEF TypeOK

\* Nothing is held that was not held before, except what was set.
From(new) == \A f \in Held' : f \in Held \/ f \in new

LEMMA HeldIs ==
  ASSUME NEW new,
         \A d \in Caches : \A f \in ToSet(hot'[d]) : f \in Held \/ f \in new,
         \A f \in Logged(log') : f \in Held \/ f \in new,
         \A r \in rows' : r.entry \in Held \/ r.entry \in new
  PROVE  From(new)
<1> SUFFICES ASSUME NEW f \in Held' PROVE f \in Held \/ f \in new
  BY DEF From
<1>1. \/ \E d \in Caches : f \in ToSet(hot'[d])
      \/ f \in Logged(log')
      \/ \E r \in rows' : f = r.entry
  <2>1. f \in InMemory' \/ f \in Logged(log') \/ f \in InTable'
    BY DEF Held
  <2>2. f \in InMemory' => \E d \in Caches : f \in ToSet(hot'[d])
    BY DEF InMemory
  <2>3. f \in InTable' => \E r \in rows' : f = r.entry
    BY DEF InTable
  <2> QED BY <2>1, <2>2, <2>3
<1> QED BY <1>1

LEMMA HeldAre ==
  /\ \A d \in Caches : ToSet(hot[d]) \subseteq Held
  /\ Logged(log) \subseteq Held
  /\ \A r \in rows : r.entry \in Held
<1>1. \A d \in Caches : ToSet(hot[d]) \subseteq InMemory
  BY DEF InMemory
<1>2. \A r \in rows : r.entry \in InTable
  BY DEF InTable
<1> QED BY <1>1, <1>2 DEF Held

LEMMA SetWrites ==
  ASSUME DiskOK, NEW c \in Caches, NEW e \in EntryT, NEW map \in Maps,
         IF Sqlite THEN Execute(RowsOf(c, {e.key}), {Row(c, e)}, RowsOf(c, Pushed(map)))
                   ELSE AppendJsonl(c, SetLine(e), map)
  PROVE  /\ DiskOK'
         /\ \A f \in Logged(log') : f \in Logged(log) \/ f \in ToSet(map) \/ f = e
         /\ \A r \in rows' : r \in rows \/ r = Row(c, e)
<1>1. CASE Sqlite
  <2>1. Execute(RowsOf(c, {e.key}), {Row(c, e)}, RowsOf(c, Pushed(map)))
    BY <1>1
  <2>2. DiskOK' /\ UNCHANGED fileVars /\ \A r \in rows' : r \in rows \/ r = Row(c, e)
    BY <2>1, SetExecutes
  <2> QED BY <2>2 DEF fileVars
<1>2. CASE ~Sqlite
  <2>1. AppendJsonl(c, SetLine(e), map)
    BY <1>2
  <2>2. SetLine(e) \in Line /\ SetLine(e).entry = e
    BY LinesAre DEF SetLine
  <2>3. /\ DiskOK' /\ rows' = rows
        /\ \A f \in Logged(log') : \/ f \in Logged(log) \/ f \in ToSet(map)
                                   \/ SetLine(e).op = "set" /\ f = SetLine(e).entry
    BY <2>1, <2>2, AppendIs
  <2> QED BY <2>2, <2>3
<1> QED BY <1>1, <1>2

LEMMA RemoveWrites ==
  ASSUME DiskOK, NEW c \in Caches, NEW lost, NEW l \in Line, l.op # "set", NEW map \in Maps,
         IF Sqlite THEN Execute(lost, {}, {}) ELSE AppendJsonl(c, l, map)
  PROVE  /\ DiskOK'
         /\ \A f \in Logged(log') : f \in Logged(log) \/ f \in ToSet(map)
         /\ rows' \subseteq rows
<1>1. CASE Sqlite
  <2>1. Execute(lost, {}, {})
    BY <1>1
  <2>2. DiskOK' /\ UNCHANGED fileVars /\ rows' \subseteq rows
    BY <2>1, RemoveExecutes
  <2> QED BY <2>2 DEF fileVars
<1>2. CASE ~Sqlite
  <2>1. AppendJsonl(c, l, map)
    BY <1>2
  <2>2. /\ DiskOK' /\ rows' = rows
        /\ \A f \in Logged(log') : \/ f \in Logged(log) \/ f \in ToSet(map)
                                   \/ l.op = "set" /\ f = l.entry
    BY <2>1, AppendIs
  <2> QED BY <2>2
<1> QED BY <1>1, <1>2

LEMMA SetTypes ==
  ASSUME TypeOK, NEW c \in deployment.caches, NEW e \in Stored(c), Set(c, e)
  PROVE  TypeOK' /\ From({e})
<1> DEFINE map == PutLast(hot[c], e)
<1>1. c \in Caches /\ e \in EntryT /\ Live(e) /\ hot[c] \in Maps /\ DiskOK
  BY CachesAre, LiveOnes DEF TypeOK
<1>2. map \in Maps /\ ToSet(map) = {f \in ToSet(hot[c]) : f.key # e.key} \cup {e}
  BY <1>1, PutLastIs
<1>3. /\ hot' = [hot EXCEPT ![c] = Trimmed(map)]
      /\ IF Sqlite THEN Execute(RowsOf(c, {e.key}), {Row(c, e)}, RowsOf(c, Pushed(map)))
                   ELSE AppendJsonl(c, SetLine(e), map)
      /\ latest' = {l \in latest : l.key # e.key} \cup {e}
      /\ given' = {g \in given : ~Outlasts(e, g)} \cup {e}
      /\ UNCHANGED deployment
  BY DEF Set
<1> HIDE DEF map
<1>4. Trimmed(map) \in Maps /\ ToSet(Trimmed(map)) \subseteq ToSet(map)
  BY <1>2, TrimmedIs
<1>5. /\ DiskOK'
      /\ \A f \in Logged(log') : f \in Logged(log) \/ f \in ToSet(map) \/ f = e
      /\ \A r \in rows' : r \in rows \/ r = Row(c, e)
  BY <1>1, <1>2, <1>3, SetWrites
<1>6. /\ hot' \in [Caches -> Maps] /\ hot'[c] = Trimmed(map)
      /\ \A d \in Caches : d # c => hot'[d] = hot[d]
  BY <1>1, <1>3, <1>4, OneMap
<1>7. GhostsOK'
  <2>1. GhostsOK
    BY DEF TypeOK
  <2>2. IsFiniteSet({l \in latest : l.key # e.key})
    BY <2>1, FS_Subset DEF GhostsOK
  <2>3. IsFiniteSet(latest')
    BY <1>3, <2>2, FS_AddElement
  <2> QED BY <1>1, <1>3, <2>1, <2>3 DEF GhostsOK
<1>8. TypeOK'
  BY <1>3, <1>5, <1>6, <1>7 DEF TypeOK
<1>9. ToSet(map) \subseteq Held \cup {e}
  BY <1>1, <1>2, HeldAre
<1>10. From({e})
  <2>1. \A d \in Caches : \A f \in ToSet(hot'[d]) : f \in Held \/ f \in {e}
    BY <1>1, <1>4, <1>6, <1>9, HeldAre
  <2>2. \A f \in Logged(log') : f \in Held \/ f \in {e}
    BY <1>5, <1>9, HeldAre
  <2>3. \A r \in rows' : r.entry \in Held \/ r.entry \in {e}
    BY <1>5, HeldAre DEF Row
  <2> QED BY <2>1, <2>2, <2>3, HeldIs
<1> QED BY <1>8, <1>10

LEMMA RemoveTypes ==
  ASSUME TypeOK, NEW c \in Caches, NEW m \in Maps, ToSet(m) \subseteq ToSet(hot[c]),
         hot' = [hot EXCEPT ![c] = m],
         NEW lost, NEW l \in Line, l.op # "set",
         IF Sqlite THEN Execute(lost, {}, {}) ELSE AppendJsonl(c, l, m),
         latest' \subseteq latest, UNCHANGED <<deployment, given>>
  PROVE  TypeOK' /\ From({})
<1>0. DiskOK /\ GhostsOK
  BY DEF TypeOK
<1>1. /\ DiskOK' /\ rows' \subseteq rows
      /\ \A f \in Logged(log') : f \in Logged(log) \/ f \in ToSet(m)
  BY <1>0, RemoveWrites, Zenon
<1>2. /\ hot' \in [Caches -> Maps] /\ hot'[c] = m
      /\ \A d \in Caches : d # c => hot'[d] = hot[d]
  BY OneMap
<1>3. GhostsOK'
  <2>1. IsFiniteSet(latest')
    BY <1>0, FS_Subset DEF GhostsOK
  <2> QED BY <1>0, <2>1 DEF GhostsOK
<1>4. TypeOK'
  BY <1>1, <1>2, <1>3 DEF TypeOK
<1>5. From({})
  <2>1. \A d \in Caches : \A f \in ToSet(hot'[d]) : f \in Held \/ f \in {}
    BY <1>2, HeldAre
  <2>2. \A f \in Logged(log') : f \in Held \/ f \in {}
    BY <1>1, HeldAre
  <2>3. \A r \in rows' : r.entry \in Held \/ r.entry \in {}
    BY <1>1, HeldAre
  <2> DEFINE new == {}
  <2> HIDE DEF new
  <2>4. From(new)
    BY <2>1, <2>2, <2>3, HeldIs, Zenon DEF new
  <2> QED BY <2>4 DEF new
<1> QED BY <1>4, <1>5

LEMMA ForgetTypes ==
  ASSUME TypeOK, NEW c \in deployment.caches, NEW k \in Keys, Forget(c, k)
  PROVE  TypeOK' /\ From({})
<1> DEFINE m == Without(hot[c], k)
<1>1. c \in Caches /\ hot[c] \in Maps
  BY CachesAre DEF TypeOK
<1>2. m \in Maps /\ ToSet(m) \subseteq ToSet(hot[c])
  BY <1>1, WithoutIs
<1>3. DelLine(k) \in Line /\ DelLine(k).op # "set"
  BY LinesAre DEF DelLine
<1>4. /\ hot' = [hot EXCEPT ![c] = m]
      /\ IF Sqlite THEN Execute(RowsOf(c, {k}), {}, {}) ELSE AppendJsonl(c, DelLine(k), m)
      /\ latest' \subseteq latest /\ UNCHANGED <<deployment, given>>
  BY DEF Forget
<1> HIDE DEF m
<1> QED BY <1>1, <1>2, <1>3, <1>4, RemoveTypes, Zenon

LEMMA ClearTypes ==
  ASSUME TypeOK, NEW c \in deployment.caches, Clear(c)
  PROVE  TypeOK' /\ From({})
<1> DEFINE m == << >>
<1>1. c \in Caches /\ hot[c] \in Maps
  BY CachesAre DEF TypeOK
<1>2. m \in Maps /\ ToSet(m) \subseteq ToSet(hot[c])
  BY DEF Maps, ToSet
<1>3. ClearLine \in Line /\ ClearLine.op # "set"
  BY LinesAre DEF ClearLine
<1>4. /\ hot' = [hot EXCEPT ![c] = m]
      /\ IF Sqlite THEN Execute(RowsOf(c, Keys), {}, {}) ELSE AppendJsonl(c, ClearLine, m)
      /\ latest' \subseteq latest /\ UNCHANGED <<deployment, given>>
  BY DEF Clear
<1> HIDE DEF m
<1> QED BY <1>1, <1>2, <1>3, <1>4, RemoveTypes, Zenon

\* A hit moves an entry, which changes no set.
LEMMA HitIs ==
  ASSUME NEW map \in Maps, NEW e \in ToSet(map)
  PROVE  e \in EntryT /\ PutLast(map, e) \in Maps /\ ToSet(PutLast(map, e)) = ToSet(map)
<1>1. map \in Seq(EntryT) /\ \A i, j \in DOMAIN map : map[i].key = map[j].key => i = j
  BY DEF Maps
<1>2. e \in EntryT /\ \A f \in ToSet(map) : f.key = e.key => f = e
  BY <1>1 DEF ToSet
<1>3. {f \in ToSet(map) : f.key # e.key} \cup {e} = ToSet(map)
  BY <1>2
<1> QED BY <1>2, <1>3, PutLastIs

LEMMA GetTypes ==
  ASSUME TypeOK, NEW c \in deployment.caches, NEW e \in ToSet(hot[c]), Get(c, e)
  PROVE  TypeOK' /\ From({})
<1>1. c \in Caches /\ hot[c] \in Maps
  BY CachesAre DEF TypeOK
<1>2. CASE Forget(c, e.key)
  <2>1. e \in EntryT
    BY <1>1, HitIs
  <2>2. e.key \in Keys
    BY <2>1 DEF EntryT
  <2> QED BY <1>2, <2>2, ForgetTypes
<1>3. CASE /\ hot' = [hot EXCEPT ![c] = PutLast(@, e)]
           /\ UNCHANGED <<deployment, fileVars, rows, ghosts, lossy>>
  <2> DEFINE m == PutLast(hot[c], e)
  <2>1. m \in Maps /\ ToSet(m) = ToSet(hot[c])
    BY <1>1, HitIs
  <2>2. hot' = [hot EXCEPT ![c] = m]
    BY <1>3
  <2> HIDE DEF m
  <2>3. /\ hot' \in [Caches -> Maps] /\ hot'[c] = m
        /\ \A d \in Caches : d # c => hot'[d] = hot[d]
    BY <1>1, <2>1, <2>2, OneMap
  <2>4. TypeOK'
    BY <1>3, <2>3 DEF TypeOK, DiskOK, GhostsOK, RowsUnique, fileVars, ghosts
  <2>5. \A d \in Caches : ToSet(hot'[d]) = ToSet(hot[d])
    BY <2>1, <2>3
  <2>6. From({})
    <3>1. InMemory' = InMemory
      BY <2>5 DEF InMemory
    <3>2. Held' = Held
      BY <1>3, <3>1 DEF Held, InTable, fileVars
    <3> QED BY <3>2 DEF From
  <2> QED BY <2>4, <2>6
<1> QED BY <1>2, <1>3 DEF Get

-----------------------------------------------------------------------------
(***************************************************************************)
(* Restarts.                                                               *)
(***************************************************************************)
\* The image of a finite set.
LEMMA ImageIsFinite ==
  ASSUME NEW S, NEW T, IsFiniteSet(S), NEW f \in [S -> T], \A t \in T : \E s \in S : f[s] = t
  PROVE  IsFiniteSet(T)
<1>1. f \in Surjection(S, T)
  BY DEF Surjection
<1> QED BY <1>1, FS_Surjection

\* The rows of a cache in any order are a map.
LEMMA SeqsAre ==
  ASSUME NEW S, S \subseteq EntryT, IsFiniteSet(S),
         \A e, f \in S : e.key = f.key => e = f,
         NEW s \in SetToSeqs(S)
  PROVE  s \in Maps /\ ToSet(s) = S /\ Len(s) = Cardinality(S)
<1> DEFINE n == Cardinality(S)
<1>1. n \in Nat
  BY FS_CardinalityType
<1> HIDE DEF n
<1>2. s \in [1..n -> S] /\ \A i, j \in 1..n : i # j => s[i] # s[j]
  BY DEF SetToSeqs, n
<1>3. s \in Injection(1..n, S)
  BY <1>2 DEF Injection, IsInjective
<1>4. Cardinality(1..n) = n
  BY <1>1, FS_Interval
<1>5. s \in Surjection(1..n, S)
  BY <1>3, <1>4, FS_Injection DEF n
<1>6. \A e \in S : \E i \in 1..n : s[i] = e
  BY <1>5 DEF Surjection
<1>7. s \in Seq(EntryT) /\ Len(s) = n /\ DOMAIN s = 1..n
  <2>1. s \in [1..n -> EntryT]
    BY <1>2
  <2> HIDE DEF EntryT
  <2> QED BY <1>1, <2>1
<1>8. s \in Maps
  <2> SUFFICES ASSUME NEW i \in DOMAIN s, NEW j \in DOMAIN s, s[i].key = s[j].key
               PROVE  i = j
    BY <1>7 DEF Maps
  <2>1. s[i] \in S /\ s[j] \in S
    BY <1>2, <1>7
  <2>2. s[i] = s[j]
    BY <2>1
  <2> QED BY <1>2, <1>7, <2>2
<1>9. ToSet(s) = S
  BY <1>2, <1>6, <1>7 DEF ToSet
<1> QED BY <1>7, <1>8, <1>9 DEF n

Alive(c) == {r.entry : r \in {s \in rows : s.ns = c /\ Live(s.entry)}}

LEMMA AliveIs ==
  ASSUME DiskOK, NEW c \in Caches
  PROVE  /\ Alive(c) \subseteq EntryT /\ IsFiniteSet(Alive(c))
         /\ \A e, f \in Alive(c) : e.key = f.key => e = f
<1> DEFINE own == {s \in rows : s.ns = c /\ Live(s.entry)}
<1>1. /\ rows \subseteq [ns : Caches, entry : EntryT]
      /\ IsFiniteSet(rows) /\ RowsUnique(rows)
  BY DEF DiskOK
<1>2. IsFiniteSet(own)
  BY <1>1, FS_Subset
<1>3. IsFiniteSet(Alive(c))
  <2> DEFINE entryOf == [r \in own |-> r.entry]
  <2>1. entryOf \in [own -> Alive(c)] /\ \A e \in Alive(c) : \E r \in own : entryOf[r] = e
    BY DEF Alive
  <2> HIDE DEF own, entryOf
  <2> QED BY <1>2, <2>1, ImageIsFinite
<1>4. Alive(c) \subseteq EntryT
  BY <1>1 DEF Alive
<1>5. ASSUME NEW e \in Alive(c), NEW f \in Alive(c), e.key = f.key PROVE e = f
  <2>1. PICK r \in own : e = r.entry
    BY DEF Alive
  <2>2. PICK s \in own : f = s.entry
    BY DEF Alive
  <2>3. r = s
    BY <1>1, <1>5, <2>1, <2>2 DEF RowsUnique
  <2> QED BY <2>1, <2>2, <2>3
<1> QED BY <1>3, <1>4, <1>5

\* What a hydration does.
Hydrates(maps) ==
  /\ \A c \in Caches : /\ maps[c] \in Maps /\ ToSet(maps[c]) = Alive(c)
                       /\ Len(maps[c]) = Cardinality(Alive(c))
  /\ hot' = [c \in Caches |-> Trimmed(maps[c])]
  /\ UNCHANGED fileVars
  /\ rows' \subseteq rows
  /\ \A r \in rows : Live(r.entry) /\ r.entry.key \notin Pushed(maps[r.ns]) => r \in rows'

LEMMA HydrateIs ==
  ASSUME DiskOK, Hydrate
  PROVE  \E maps : Hydrates(maps)
<1> DEFINE dead == {r \in rows : ~Live(r.entry)}
<1>1. PICK maps \in [Caches -> UNION {SetToSeqs(Alive(c)) : c \in Caches}] :
        /\ \A c \in Caches : maps[c] \in SetToSeqs(Alive(c))
        /\ hot' = [c \in Caches |-> Trimmed(maps[c])]
        /\ \E pruned \in {{}, dead},
              gone \in SUBSET UNION {RowsOf(c, Pushed(maps[c])) : c \in Caches} :
             rows' = rows \ (pruned \cup gone)
  BY DEF Hydrate, Alive
<1>2. UNCHANGED fileVars
  BY DEF Hydrate
<1>3. PICK pruned \in {{}, dead},
           gone \in SUBSET UNION {RowsOf(c, Pushed(maps[c])) : c \in Caches} :
             rows' = rows \ (pruned \cup gone)
  BY <1>1
<1>4. \A c \in Caches : /\ maps[c] \in Maps /\ ToSet(maps[c]) = Alive(c)
                        /\ Len(maps[c]) = Cardinality(Alive(c))
  <2> SUFFICES ASSUME NEW c \in Caches
               PROVE  /\ maps[c] \in Maps /\ ToSet(maps[c]) = Alive(c)
                      /\ Len(maps[c]) = Cardinality(Alive(c))
    OBVIOUS
  <2>1. maps[c] \in SetToSeqs(Alive(c))
    BY <1>1
  <2>2. /\ Alive(c) \subseteq EntryT /\ IsFiniteSet(Alive(c))
        /\ \A e, f \in Alive(c) : e.key = f.key => e = f
    BY AliveIs
  <2> QED BY <2>1, <2>2, SeqsAre
<1>5. ASSUME NEW r \in rows, Live(r.entry), r.entry.key \notin Pushed(maps[r.ns])
      PROVE  r \in rows'
  <2>1. r \notin pruned
    BY <1>5
  <2>2. r \notin gone
    <3> SUFFICES ASSUME r \in gone PROVE FALSE
      OBVIOUS
    <3>1. PICK c \in Caches : r \in RowsOf(c, Pushed(maps[c]))
      BY <1>3
    <3> QED BY <1>5, <3>1 DEF RowsOf
  <2> QED BY <1>3, <2>1, <2>2
<1>6. Hydrates(maps)
  BY <1>1, <1>2, <1>3, <1>4, <1>5 DEF Hydrates
<1> QED BY <1>6

LEMMA HydrateTypes ==
  ASSUME TypeOK, Hydrate, UNCHANGED <<deployment, ghosts, lossy>>
  PROVE  TypeOK' /\ From({})
<1>0. DiskOK /\ GhostsOK
  BY DEF TypeOK
<1>1. PICK maps : Hydrates(maps)
  BY <1>0, HydrateIs
<1>2. \A c \in Caches : /\ Trimmed(maps[c]) \in Maps
                        /\ ToSet(Trimmed(maps[c])) \subseteq Alive(c)
  BY <1>1, TrimmedIs DEF Hydrates
<1>3. \A c \in Caches : hot'[c] = Trimmed(maps[c])
  BY <1>1 DEF Hydrates
<1>4. hot' \in [Caches -> Maps]
  BY <1>1, <1>2 DEF Hydrates
<1>5. DiskOK'
  <2>1. rows' \subseteq rows /\ UNCHANGED fileVars
    BY <1>1 DEF Hydrates
  <2>2. IsFiniteSet(rows')
    BY <1>0, <2>1, FS_Subset DEF DiskOK
  <2> QED BY <1>0, <2>1, <2>2 DEF DiskOK, RowsUnique, fileVars
<1>6. TypeOK'
  BY <1>0, <1>4, <1>5 DEF TypeOK, GhostsOK, ghosts
<1>7. From({})
  <2>1. \A d \in Caches : Alive(d) \subseteq Held
    BY HeldAre DEF Alive
  <2> DEFINE new == {}
  <2> HIDE DEF new
  <2>2. \A d \in Caches : \A f \in ToSet(hot'[d]) : f \in Held \/ f \in new
    BY <1>2, <1>3, <2>1
  <2>3. \A f \in Logged(log') : f \in Held \/ f \in new
    BY <1>1, HeldAre DEF Hydrates, fileVars
  <2>4. \A r \in rows' : r.entry \in Held \/ r.entry \in new
    BY <1>1, HeldAre DEF Hydrates
  <2>5. From(new)
    BY <2>2, <2>3, <2>4, HeldIs
  <2> QED BY <2>5 DEF new
<1> QED BY <1>6, <1>7

LEMMA ReplayTypes ==
  ASSUME TypeOK, NEW lines \in Seq(Line), Logged(lines) \subseteq Logged(log), Replay(lines),
         lossy' \in BOOLEAN, UNCHANGED <<deployment, ghosts>>
  PROVE  TypeOK' /\ From({})
<1>0. DiskOK /\ GhostsOK
  BY DEF TypeOK
<1>1. /\ log' = lines /\ UNCHANGED rows
      /\ hot' = [c \in Caches |-> IF c \in deployment.caches THEN Trimmed(Replayed(lines)) ELSE << >>]
      /\ handle' = [c \in Caches |-> "open"] /\ writes' = [c \in Caches |-> 0]
  BY DEF Replay
<1>2. Replayed(lines) \in Maps /\ ToSet(Replayed(lines)) = Kept(lines)
  BY ReplayedIs
<1>3. Trimmed(Replayed(lines)) \in Maps /\ ToSet(Trimmed(Replayed(lines))) \subseteq Kept(lines)
  BY <1>2, TrimmedIs
<1>4. << >> \in Maps /\ ToSet(<< >>) = {}
  BY DEF Maps, ToSet
<1>5. Kept(lines) \subseteq Logged(lines)
  BY DEF Kept, KeptOf, Stands, Logged, Sets
<1>6. /\ hot' \in [Caches -> Maps]
      /\ \A d \in Caches : ToSet(hot'[d]) \subseteq Kept(lines)
  BY <1>1, <1>3, <1>4
<1>7. TypeOK'
  BY <1>0, <1>1, <1>6 DEF TypeOK, DiskOK, GhostsOK, RowsUnique, Handles, ghosts
<1>8. From({})
  <2> DEFINE new == {}
  <2> HIDE DEF new
  <2>2. \A d \in Caches : \A f \in ToSet(hot'[d]) : f \in Held \/ f \in new
    BY <1>5, <1>6, HeldAre
  <2>3. \A f \in Logged(log') : f \in Held \/ f \in new
    BY <1>1, HeldAre
  <2>4. \A r \in rows' : r.entry \in Held \/ r.entry \in new
    BY <1>1, HeldAre
  <2>5. From(new)
    BY <2>2, <2>3, <2>4, HeldIs
  <2> QED BY <2>5 DEF new
<1> QED BY <1>7, <1>8

LEMMA RestartTypes ==
  ASSUME TypeOK, Restart
  PROVE  TypeOK' /\ From({})
<1>1. UNCHANGED <<deployment, ghosts, lossy>> /\ log \in Seq(Line) /\ lossy \in BOOLEAN
  BY DEF Restart, TypeOK, DiskOK
<1>2. CASE Sqlite
  BY <1>1, <1>2, HydrateTypes DEF Restart
<1>3. CASE ~Sqlite
  <2>1. Replay(log)
    BY <1>3 DEF Restart
  <2> QED BY <1>1, <2>1, ReplayTypes
<1> QED BY <1>2, <1>3

LEMMA PowerLossTypes ==
  ASSUME TypeOK, PowerLoss
  PROVE  TypeOK' /\ From({})
<1>1. /\ UNCHANGED <<deployment, ghosts>> /\ lossy' = TRUE /\ log \in Seq(Line)
  BY DEF PowerLoss, TypeOK, DiskOK
<1>2. PICK n \in 1..Len(log) :
        LET whole == SubSeq(log, 1, n - 1)
        IN  \E lines \in {whole, Append(whole, TornLine)} : Replay(lines)
  BY DEF PowerLoss
<1> DEFINE whole == SubSeq(log, 1, n - 1)
<1>3. PICK lines \in {whole, Append(whole, TornLine)} : Replay(lines)
  BY <1>2
<1>4. whole \in Seq(Line) /\ Len(whole) = n - 1 /\ \A i \in 1..n - 1 : whole[i] = log[i]
  <2> HIDE DEF Line
  <2> QED BY <1>1
<1> HIDE DEF whole
<1>5. TornLine \in Line /\ TornLine.op # "set"
  BY LinesAre DEF TornLine
<1>6. /\ Append(whole, TornLine) \in Seq(Line) /\ Len(Append(whole, TornLine)) = n
      /\ Append(whole, TornLine)[n] = TornLine
      /\ \A i \in 1..n - 1 : Append(whole, TornLine)[i] = log[i]
  <2> HIDE DEF Line
  <2> QED BY <1>4, <1>5
<1>7. Logged(whole) \subseteq Logged(log)
  BY <1>1, <1>4 DEF Logged, Sets
<1>8. Logged(Append(whole, TornLine)) \subseteq Logged(log)
  <2> SUFFICES ASSUME NEW i \in 1..n, Append(whole, TornLine)[i].op = "set"
               PROVE  i \in 1..n - 1
    BY <1>1, <1>6 DEF Logged, Sets
  <2> QED BY <1>5, <1>6
<1>9. lines \in Seq(Line) /\ Logged(lines) \subseteq Logged(log)
  BY <1>3, <1>4, <1>6, <1>7, <1>8
<1> QED BY <1>1, <1>3, <1>9, ReplayTypes

-----------------------------------------------------------------------------
(***************************************************************************)
(* The passage of time.                                                    *)
(***************************************************************************)
LEMMA AgedIs ==
  ASSUME NEW e \in EntryT
  PROVE  /\ Aged(e) \in EntryT /\ Aged(e).key = e.key /\ Aged(e).value = e.value
         /\ Live(Aged(e)) <=> Live(e) /\ e.left # 1
         /\ Aged(e).left = IF e.left > 0 THEN e.left - 1 ELSE e.left
<1>1. e.left \in Int /\ (e.left \in Nat \/ e.left = Forever) /\ Forever < 0 /\ Forever \in Int
  BY DEF EntryT, Lifetimes, Forever
<1>2. CASE e.left > 0
  <2>1. Aged(e) = [e EXCEPT !.left = e.left - 1] /\ e.left - 1 \in Nat
    BY <1>1, <1>2 DEF Aged
  <2>2. Aged(e) \in EntryT
    BY <2>1 DEF EntryT, Lifetimes
  <2>3. Aged(e).key = e.key /\ Aged(e).value = e.value /\ Aged(e).left = e.left - 1
    BY <2>1 DEF EntryT
  <2> QED BY <1>1, <1>2, <2>2, <2>3 DEF Live
<1>3. CASE ~(e.left > 0)
  <2>1. Aged(e) = e
    BY <1>3 DEF Aged
  <2> QED BY <1>1, <1>3, <2>1 DEF Live
<1> QED BY <1>2, <1>3

\* The entries of a ghost after one unit of time.
AgedSet(es) == {Aged(e) : e \in {f \in es : f.left # 1}}

LEMMA AgedSetIs ==
  ASSUME NEW es, es \subseteq EntryT, \A e \in es : Live(e)
  PROVE  /\ AgedSet(es) \subseteq EntryT /\ \A e \in AgedSet(es) : Live(e)
         /\ \A e \in es : Live(Aged(e)) => Aged(e) \in AgedSet(es)
  BY AgedIs DEF AgedSet

LEMMA AgedSetIsFinite ==
  ASSUME NEW es, IsFiniteSet(es)
  PROVE  IsFiniteSet(AgedSet(es))
<1> DEFINE S == {f \in es : f.left # 1}
           age == [e \in S |-> Aged(e)]
<1>1. IsFiniteSet(S)
  BY FS_Subset
<1>2. age \in [S -> AgedSet(es)] /\ \A t \in AgedSet(es) : \E e \in S : age[e] = t
  BY DEF AgedSet
<1> HIDE DEF S, age
<1> QED BY <1>1, <1>2, ImageIsFinite

\* What is left of the parts of Tick.
LEMMA TickIs ==
  ASSUME TypeOK, Tick
  PROVE  /\ hot' = [c \in Caches |-> [n \in DOMAIN hot[c] |-> Aged(hot[c][n])]]
         /\ log' = [n \in DOMAIN log |-> IF log[n].op = "set" THEN SetLine(Aged(log[n].entry))
                                         ELSE log[n]]
         /\ rows' = {Row(r.ns, Aged(r.entry)) : r \in rows}
         /\ latest' = AgedSet(latest) /\ given' = AgedSet(given)
         /\ UNCHANGED <<deployment, handle, writes, lossy>>
  BY DEF Tick, AgedSet

LEMMA MapAges ==
  ASSUME NEW map \in Maps, NEW aged, aged = [n \in DOMAIN map |-> Aged(map[n])]
  PROVE  aged \in Maps /\ ToSet(aged) = {Aged(e) : e \in ToSet(map)}
<1>1. map \in Seq(EntryT) /\ \A i, j \in DOMAIN map : map[i].key = map[j].key => i = j
  BY DEF Maps
<1>2. /\ aged = [n \in 1..Len(map) |-> Aged(map[n])] /\ DOMAIN aged = 1..Len(map)
      /\ \A n \in 1..Len(map) : map[n] \in EntryT /\ aged[n] = Aged(map[n])
  BY <1>1
<1>3. \A n \in 1..Len(map) : Aged(map[n]) \in EntryT /\ Aged(map[n]).key = map[n].key
  BY <1>2, AgedIs
<1>4. aged \in Seq(EntryT)
  <2> HIDE DEF EntryT
  <2> QED BY <1>1, <1>2, <1>3
<1>5. aged \in Maps
  BY <1>1, <1>2, <1>3, <1>4 DEF Maps
<1>6. ToSet(aged) = {Aged(e) : e \in ToSet(map)}
  BY <1>1, <1>2 DEF ToSet
<1> QED BY <1>5, <1>6

LEMMA LogAges ==
  ASSUME NEW lines \in Seq(Line), NEW aged,
         aged = [n \in DOMAIN lines |-> IF lines[n].op = "set" THEN SetLine(Aged(lines[n].entry))
                                        ELSE lines[n]]
  PROVE  /\ aged \in Seq(Line) /\ Len(aged) = Len(lines)
         /\ \A n \in 1..Len(lines) :
              /\ aged[n].op = lines[n].op
              /\ lines[n].op = "set" => /\ lines[n].entry \in EntryT
                                        /\ aged[n].entry = Aged(lines[n].entry)
              /\ lines[n].op # "set" => aged[n] = lines[n]
<1>1. /\ DOMAIN lines = 1..Len(lines) /\ Len(lines) \in Nat
      /\ \A n \in 1..Len(lines) : lines[n] \in Line
  <2> HIDE DEF Line
  <2> QED OBVIOUS
<1>2. ASSUME NEW n \in 1..Len(lines)
      PROVE  /\ aged[n] \in Line /\ aged[n].op = lines[n].op
             /\ lines[n].op = "set" => /\ lines[n].entry \in EntryT
                                       /\ aged[n].entry = Aged(lines[n].entry)
             /\ lines[n].op # "set" => aged[n] = lines[n]
  <2>1. CASE lines[n].op = "set"
    <3>1. lines[n].entry \in EntryT
      BY <1>1, <2>1, LinesAre
    <3>2. Aged(lines[n].entry) \in EntryT
      BY <3>1, AgedIs
    <3>3. aged[n] = SetLine(Aged(lines[n].entry))
      BY <1>1, <2>1
    <3>4. SetLine(Aged(lines[n].entry)).op = "set" /\ SetLine(Aged(lines[n].entry)).entry = Aged(lines[n].entry)
      BY DEF SetLine
    <3> QED BY <2>1, <3>1, <3>2, <3>3, <3>4, LinesAre
  <2>2. CASE lines[n].op # "set"
    BY <1>1, <2>2
  <2> QED BY <2>1, <2>2
<1>3. aged = [n \in 1..Len(lines) |-> aged[n]]
  BY <1>1
<1>4. aged \in Seq(Line) /\ Len(aged) = Len(lines)
  <2> HIDE DEF Line
  <2> QED BY <1>1, <1>2, <1>3
<1> QED BY <1>2, <1>4

LEMMA TickTypes ==
  ASSUME TypeOK, Tick
  PROVE  /\ TypeOK'
         /\ \A f \in Held' : \E e \in Held : e \in EntryT /\ f = Aged(e)
<1>0. /\ deployment \in Deployments /\ hot \in [Caches -> Maps] /\ DiskOK /\ GhostsOK
      /\ log \in Seq(Line)
  BY DEF TypeOK, DiskOK
<1>1. /\ hot' = [c \in Caches |-> [n \in DOMAIN hot[c] |-> Aged(hot[c][n])]]
      /\ log' = [n \in DOMAIN log |-> IF log[n].op = "set" THEN SetLine(Aged(log[n].entry))
                                      ELSE log[n]]
      /\ rows' = {Row(r.ns, Aged(r.entry)) : r \in rows}
      /\ latest' = AgedSet(latest) /\ given' = AgedSet(given)
      /\ UNCHANGED <<deployment, handle, writes, lossy>>
  BY TickIs
<1>2. \A c \in Caches : hot'[c] \in Maps /\ ToSet(hot'[c]) = {Aged(e) : e \in ToSet(hot[c])}
  <2> SUFFICES ASSUME NEW c \in Caches
               PROVE  hot'[c] \in Maps /\ ToSet(hot'[c]) = {Aged(e) : e \in ToSet(hot[c])}
    OBVIOUS
  <2>1. hot[c] \in Maps /\ hot'[c] = [n \in DOMAIN hot[c] |-> Aged(hot[c][n])]
    BY <1>0, <1>1
  <2> QED BY <2>1, MapAges
<1>3. hot' \in [Caches -> Maps]
  BY <1>1, <1>2
<1>4. /\ log' \in Seq(Line) /\ Len(log') = Len(log)
      /\ \A n \in 1..Len(log) : /\ log'[n].op = log[n].op
                                /\ log[n].op = "set" => /\ log[n].entry \in EntryT
                                                        /\ log'[n].entry = Aged(log[n].entry)
  <2>1. log' = [n \in DOMAIN log |-> IF log[n].op = "set" THEN SetLine(Aged(log[n].entry))
                                     ELSE log[n]]
    BY <1>1
  <2> QED BY <1>0, <2>1, LogAges
<1>5. rows \subseteq [ns : Caches, entry : EntryT] /\ IsFiniteSet(rows) /\ RowsUnique(rows)
  BY <1>0 DEF DiskOK
<1>6. \A r \in rows : /\ r.ns \in Caches /\ r.entry \in EntryT
                      /\ Row(r.ns, Aged(r.entry)).ns = r.ns
                      /\ Row(r.ns, Aged(r.entry)).entry = Aged(r.entry)
                      /\ Row(r.ns, Aged(r.entry)) \in [ns : Caches, entry : EntryT]
  BY <1>5, AgedIs DEF Row
<1>7. DiskOK'
  <2>1. rows' \subseteq [ns : Caches, entry : EntryT]
    BY <1>1, <1>6
  <2>2. IsFiniteSet(rows')
    <3> DEFINE age == [r \in rows |-> Row(r.ns, Aged(r.entry))]
    <3>1. age \in [rows -> rows'] /\ \A t \in rows' : \E r \in rows : age[r] = t
      BY <1>1
    <3> HIDE DEF age
    <3> QED BY <1>5, <3>1, ImageIsFinite
  <2>3. RowsUnique(rows')
    <3> SUFFICES ASSUME NEW p \in rows', NEW q \in rows', p.ns = q.ns, p.entry.key = q.entry.key
                 PROVE  p = q
      BY DEF RowsUnique
    <3>1. PICK r \in rows : p = Row(r.ns, Aged(r.entry))
      BY <1>1
    <3>2. PICK s \in rows : q = Row(s.ns, Aged(s.entry))
      BY <1>1
    <3>3. r.ns = s.ns /\ r.entry.key = s.entry.key
      BY <1>6, <3>1, <3>2, AgedIs
    <3>4. r = s
      BY <1>5, <3>3 DEF RowsUnique
    <3> QED BY <3>1, <3>2, <3>4
  <2> QED BY <1>0, <1>1, <1>4, <2>1, <2>2, <2>3 DEF DiskOK
<1>8. GhostsOK'
  <2>1. IsFiniteSet(latest')
    BY <1>0, <1>1, AgedSetIsFinite DEF GhostsOK
  <2>2. \A es \in {latest, given} : AgedSet(es) \subseteq EntryT /\ \A e \in AgedSet(es) : Live(e)
    BY <1>0, AgedSetIs DEF GhostsOK
  <2> QED BY <1>1, <2>1, <2>2 DEF GhostsOK
<1>9. TypeOK'
  BY <1>0, <1>1, <1>3, <1>7, <1>8 DEF TypeOK
<1>10. ASSUME NEW f \in Held' PROVE \E e \in Held : e \in EntryT /\ f = Aged(e)
  <2>1. f \in InMemory' \/ f \in Logged(log') \/ f \in InTable'
    BY DEF Held
  <2>2. CASE f \in InMemory'
    <3>1. PICK c \in Caches : f \in ToSet(hot'[c])
      BY <2>2 DEF InMemory
    <3>2. PICK e \in ToSet(hot[c]) : f = Aged(e)
      BY <1>2, <3>1
    <3>3. e \in EntryT
      BY <1>0 DEF Maps, ToSet
    <3> QED BY <3>2, <3>3, HeldAre
  <2>3. CASE f \in Logged(log')
    <3>1. PICK n \in 1..Len(log) : log'[n].op = "set" /\ f = log'[n].entry
      BY <1>4, <2>3 DEF Logged, Sets
    <3>2. log[n].entry \in EntryT /\ f = Aged(log[n].entry) /\ log[n].entry \in Logged(log)
      BY <1>0, <1>4, <3>1 DEF Logged, Sets
    <3> QED BY <3>2, HeldAre
  <2>4. CASE f \in InTable'
    <3>1. PICK p \in rows' : f = p.entry
      BY <2>4 DEF InTable
    <3>2. PICK r \in rows : p = Row(r.ns, Aged(r.entry))
      BY <1>1
    <3> QED BY <1>6, <3>1, <3>2, HeldAre
  <2> QED BY <2>1, <2>2, <2>3, <2>4
<1> QED BY <1>9, <1>10

-----------------------------------------------------------------------------
(***************************************************************************)
(* Nothing outlives what it was given.                                     *)
(***************************************************************************)
LEMMA OutlastsIs ==
  /\ \A e \in EntryT : Outlasts(e, e)
  /\ \A e, f, g \in EntryT : Outlasts(e, f) /\ Outlasts(f, g) => Outlasts(e, g)
<1>1. \A e \in EntryT : e.left \in Int
  BY LiveOnes
<1>2. \A e \in EntryT : Outlasts(e, e)
  BY <1>1 DEF Outlasts
<1>3. ASSUME NEW e \in EntryT, NEW f \in EntryT, NEW g \in EntryT, Outlasts(e, f), Outlasts(f, g)
      PROVE  Outlasts(e, g)
  BY <1>1, <1>3 DEF Outlasts
<1> QED BY <1>2, <1>3

LEMMA OutlastsAges ==
  ASSUME NEW g \in EntryT, NEW e \in EntryT, Outlasts(g, e), Live(g), Live(Aged(e))
  PROVE  g.left # 1 /\ Outlasts(Aged(g), Aged(e))
<1>1. /\ e.left \in Int /\ (e.left > 0 \/ e.left = Forever) /\ e.left # 1
      /\ g.left \in Int /\ (g.left > 0 \/ g.left = Forever)
      /\ Forever \in Int /\ Forever < 0
  BY LiveOnes, AgedIs DEF Forever
<1>2. /\ Aged(g).key = g.key /\ Aged(g).value = g.value
      /\ Aged(g).left = IF g.left > 0 THEN g.left - 1 ELSE g.left
      /\ Aged(e).key = e.key /\ Aged(e).value = e.value
      /\ Aged(e).left = IF e.left > 0 THEN e.left - 1 ELSE e.left
  BY AgedIs
<1>3. /\ g.key = e.key /\ g.value = e.value
      /\ g.left = Forever \/ (e.left # Forever /\ e.left <= g.left)
  BY DEF Outlasts
<1>4. CASE g.left = Forever
  BY <1>1, <1>2, <1>3, <1>4 DEF Outlasts
<1>5. CASE e.left # Forever /\ e.left <= g.left
  BY <1>1, <1>2, <1>3, <1>5 DEF Outlasts
<1> QED BY <1>3, <1>4, <1>5

\* All that is held is an entry.
LEMMA HeldAreEntries == TypeOK => Held \subseteq EntryT
<1> SUFFICES ASSUME TypeOK, NEW f \in Held PROVE f \in EntryT
  OBVIOUS
<1>1. /\ hot \in [Caches -> Maps] /\ log \in Seq(Line)
      /\ rows \subseteq [ns : Caches, entry : EntryT]
  BY DEF TypeOK, DiskOK
<1>2. f \in InMemory \/ f \in Logged(log) \/ f \in InTable
  BY DEF Held
<1>3. CASE f \in InMemory
  BY <1>1, <1>3 DEF InMemory, Maps, ToSet
<1>4. CASE f \in Logged(log)
  <2>1. PICK n \in DOMAIN log : log[n].op = "set" /\ f = log[n].entry
    BY <1>4 DEF Logged, Sets
  <2>2. log[n] \in Line
    <3> HIDE DEF Line
    <3> QED BY <1>1
  <2> QED BY <2>1, <2>2, LinesAre
<1>5. CASE f \in InTable
  BY <1>1, <1>5 DEF InTable
<1> QED BY <1>2, <1>3, <1>4, <1>5

\* A step that keeps what was given, and holds nothing new.
LEMMA CoverStays ==
  ASSUME HeldWasGiven, From({}), UNCHANGED given
  PROVE  HeldWasGiven'
<1> SUFFICES ASSUME NEW f \in Held', Live(f) PROVE \E g \in given' : Outlasts(g, f)
  BY DEF HeldWasGiven, Covers
<1>1. f \in Held
  BY DEF From
<1> QED BY <1>1 DEF HeldWasGiven, Covers

LEMMA SetCovers ==
  ASSUME TypeOK, HeldWasGiven, NEW c \in deployment.caches, NEW e \in Stored(c), Set(c, e)
  PROVE  HeldWasGiven'
<1>1. From({e}) /\ e \in EntryT /\ given \subseteq EntryT /\ Held \subseteq EntryT
  BY SetTypes, CachesAre, LiveOnes, HeldAreEntries DEF TypeOK, GhostsOK
<1>2. given' = {g \in given : ~Outlasts(e, g)} \cup {e}
  BY DEF Set
<1> SUFFICES ASSUME NEW f \in Held', Live(f) PROVE \E g \in given' : Outlasts(g, f)
  BY DEF HeldWasGiven, Covers
<1>3. CASE f = e
  BY <1>1, <1>2, <1>3, OutlastsIs
<1>4. CASE f \in Held
  <2>1. PICK g \in given : Outlasts(g, f)
    BY <1>4 DEF HeldWasGiven, Covers
  <2>2. CASE Outlasts(e, g)
    <3>1. Outlasts(e, f)
      BY <1>1, <1>4, <2>1, <2>2, OutlastsIs
    <3> QED BY <1>2, <3>1
  <2>3. CASE ~Outlasts(e, g)
    BY <1>2, <2>1, <2>3
  <2> QED BY <2>2, <2>3
<1> QED BY <1>1, <1>3, <1>4 DEF From

LEMMA TickCovers ==
  ASSUME TypeOK, HeldWasGiven, Tick
  PROVE  HeldWasGiven'
<1>1. \A f \in Held' : \E e \in Held : e \in EntryT /\ f = Aged(e)
  BY TickTypes
<1>2. /\ given' = AgedSet(given) /\ given \subseteq EntryT /\ \A g \in given : Live(g)
  BY TickIs DEF TypeOK, GhostsOK
<1> SUFFICES ASSUME NEW f \in Held', Live(f) PROVE \E g \in given' : Outlasts(g, f)
  BY DEF HeldWasGiven, Covers
<1>3. PICK e \in Held : e \in EntryT /\ f = Aged(e)
  BY <1>1
<1>4. Live(e)
  BY <1>3, AgedIs
<1>5. PICK g \in given : Outlasts(g, e)
  BY <1>4 DEF HeldWasGiven, Covers
<1>6. g.left # 1 /\ Outlasts(Aged(g), f)
  BY <1>2, <1>3, <1>5, OutlastsAges
<1>7. Aged(g) \in given'
  BY <1>2, <1>6 DEF AgedSet
<1> QED BY <1>6, <1>7

LEMMA InitTypes == Init => TypeOK /\ HeldWasGiven
<1> SUFFICES ASSUME Init PROVE TypeOK /\ HeldWasGiven
  OBVIOUS
<1>1. << >> \in Maps /\ << >> \in Seq(Line) /\ ToSet(<< >>) = {} /\ Logged(<< >>) = {}
  BY DEF Maps, ToSet, Logged, Sets
<1>2. DiskOK
  BY <1>1, FS_EmptySet DEF Init, DiskOK, Handles, RowsUnique
<1>3. GhostsOK
  BY FS_EmptySet DEF Init, GhostsOK
<1>4. TypeOK
  BY <1>1, <1>2, <1>3 DEF Init, TypeOK
<1>5. InMemory = {}
  BY <1>1 DEF Init, InMemory
<1>6. InTable = {}
  BY DEF Init, InTable
<1>7. Held = {}
  BY <1>1, <1>5, <1>6 DEF Init, Held
<1> QED BY <1>4, <1>7 DEF HeldWasGiven

\* Every step keeps the types, and holds nothing that was not given.
LEMMA StepTypes ==
  ASSUME TypeOK, [Next]_vars
  PROVE  TypeOK' /\ (HeldWasGiven => HeldWasGiven')
<1>1. ASSUME NEW c \in deployment.caches, NEW e \in Stored(c), Set(c, e)
      PROVE  TypeOK' /\ (HeldWasGiven => HeldWasGiven')
  BY <1>1, SetTypes, SetCovers
<1>2. ASSUME NEW c \in deployment.caches, NEW e \in ToSet(hot[c]), Get(c, e)
      PROVE  TypeOK' /\ (HeldWasGiven => HeldWasGiven')
  <2>1. TypeOK' /\ From({})
    BY <1>2, GetTypes
  <2>2. UNCHANGED given
    BY <1>2 DEF Get, Forget, ghosts
  <2> QED BY <2>1, <2>2, CoverStays
<1>3. ASSUME NEW c \in deployment.caches, NEW k \in KeysOf(c), Delete(c, k)
      PROVE  TypeOK' /\ (HeldWasGiven => HeldWasGiven')
  <2>1. Forget(c, k) /\ k \in Keys
    BY <1>3, CachesAre DEF Delete
  <2>2. TypeOK' /\ From({})
    BY <2>1, ForgetTypes
  <2>3. UNCHANGED given
    BY <2>1 DEF Forget
  <2> QED BY <2>2, <2>3, CoverStays
<1>4. ASSUME NEW c \in deployment.caches, Clear(c)
      PROVE  TypeOK' /\ (HeldWasGiven => HeldWasGiven')
  <2>1. TypeOK' /\ From({})
    BY <1>4, ClearTypes
  <2>2. UNCHANGED given
    BY <1>4 DEF Clear
  <2> QED BY <2>1, <2>2, CoverStays
<1>5. CASE Restart
  <2>1. UNCHANGED given
    BY <1>5 DEF Restart, ghosts
  <2> QED BY <1>5, <2>1, RestartTypes, CoverStays
<1>6. CASE PowerLoss
  <2>1. UNCHANGED given
    BY <1>6 DEF PowerLoss, ghosts
  <2> QED BY <1>6, <2>1, PowerLossTypes, CoverStays
<1>7. CASE Tick
  BY <1>7, TickTypes, TickCovers
<1>8. CASE UNCHANGED vars
  <2>1. TypeOK'
    BY <1>8 DEF vars, fileVars, ghosts, TypeOK, DiskOK, GhostsOK, RowsUnique
  <2>2. Held' = Held /\ given' = given
    BY <1>8 DEF vars, fileVars, ghosts, Held, InMemory, InTable
  <2> QED BY <2>1, <2>2 DEF HeldWasGiven, Covers
<1> QED BY <1>1, <1>2, <1>3, <1>4, <1>5, <1>6, <1>7, <1>8 DEF Next

\* What a cache answers was set once, and its time is not up, whatever was
\* lost, torn, half compacted or replayed.  Inductive for all that is held:
\* in memory, in the lines of the log and in the rows of the table.
THEOREM NothingIsRevived == Spec => [](TypeOK /\ NoRevival)
<1>1. Init => TypeOK /\ HeldWasGiven
  BY InitTypes
<1>2. (TypeOK /\ HeldWasGiven) /\ [Next]_vars => (TypeOK /\ HeldWasGiven)'
  BY StepTypes
<1>3. TypeOK /\ HeldWasGiven => TypeOK /\ NoRevival
  <2>1. HeldWasGiven => NoRevival
    BY HeldAre DEF HeldWasGiven, Covers, NoRevival, LiveIn
  <2> QED BY <2>1
<1> QED BY <1>1, <1>2, <1>3, PTL DEF Spec

-----------------------------------------------------------------------------
(***************************************************************************)
(* What was set last is on the disk.                                       *)
(***************************************************************************)
\* Both theorems of this part are about caches that share a table, or have a
\* log of their own.  On the log that index.js shares between two caches they
\* fail, though the keys are apart: each cache replays the keys of the other
\* (persistent-cache.js:134-158), and a compaction (175-191) dumps its stale
\* copies over the newer lines.  NothingIsRevived holds there too.
OneCachePerLog ==
  \A d \in Deployments : d.backend # "sqlite" => \A b, c \in d.caches : b = c

\* The caches of a table have no key in common, so that `latest` tells whose
\* entry it is: an author is 64 hex digits, an identity has a "|".
KeysApart ==
  \A d \in Deployments : d.backend = "sqlite" =>
    \A b, c \in d.caches : b # c => KeysOf(b) \cap KeysOf(c) = {}

LEMMA ApartIs ==
  ASSUME OneCachePerLog, KeysApart, TypeOK,
         NEW b \in deployment.caches, NEW c \in deployment.caches, b # c
  PROVE  Sqlite /\ KeysOf(b) \cap KeysOf(c) = {}
<1>1. deployment \in Deployments
  BY DEF TypeOK
<1>2. Sqlite
  BY <1>1 DEF OneCachePerLog, Sqlite
<1> QED BY <1>1, <1>2 DEF KeysApart, Sqlite

\* A row of another cache, or of another key, is not touched.
LEMMA NotLost ==
  ASSUME OneCachePerLog, KeysApart, TypeOK, AtHome, Sqlite, NEW c \in deployment.caches,
         NEW kk \in SUBSET KeysOf(c), NEW r \in rows, ~(r.ns = c /\ r.entry.key \in kk)
  PROVE  r.entry.key \notin kk
<1>1. r.ns \in deployment.caches /\ r.entry.key \in KeysOf(r.ns)
  BY DEF AtHome
<1>2. CASE r.ns = c
  BY <1>2
<1>3. CASE r.ns # c
  <2>1. KeysOf(r.ns) \cap KeysOf(c) = {}
    BY <1>1, <1>3, ApartIs
  <2> QED BY <1>1, <2>1
<1> QED BY <1>2, <1>3

LEMMA RowIs ==
  /\ \A c, e : Row(c, e).ns = c /\ Row(c, e).entry = e
  /\ \A r \in [ns : Caches, entry : EntryT] : r = Row(r.ns, r.entry)
  BY DEF Row

LEMMA SetHome ==
  ASSUME OneCachePerLog, KeysApart, TypeOK, AtHome, NEW c \in deployment.caches, NEW e \in Stored(c), Set(c, e)
  PROVE  AtHome'
<1> DEFINE map == PutLast(hot[c], e)
<1>1. /\ c \in Caches /\ e \in EntryT /\ e.key \in KeysOf(c) /\ hot[c] \in Maps /\ DiskOK
      /\ SetLine(e) \in Line
  BY CachesAre, LiveOnes, LinesAre DEF TypeOK, KeysOf
<1>2. map \in Maps /\ ToSet(map) = {f \in ToSet(hot[c]) : f.key # e.key} \cup {e}
  BY <1>1, PutLastIs
<1>3. /\ hot' = [hot EXCEPT ![c] = Trimmed(map)]
      /\ IF Sqlite THEN Execute(RowsOf(c, {e.key}), {Row(c, e)}, RowsOf(c, Pushed(map)))
                   ELSE AppendJsonl(c, SetLine(e), map)
      /\ deployment' = deployment /\ Sqlite' = Sqlite
  BY DEF Set, Sqlite
<1> HIDE DEF map
<1>4. Trimmed(map) \in Maps /\ ToSet(Trimmed(map)) \subseteq ToSet(map)
  BY <1>2, TrimmedIs
<1>5. hot'[c] = Trimmed(map) /\ \A d \in Caches : d # c => hot'[d] = hot[d]
  BY <1>1, <1>3, <1>4, OneMap
<1>6. \A r \in rows' : r \in rows \/ r = Row(c, e)
  BY <1>1, <1>2, <1>3, SetWrites
<1>7. \A d \in Caches : d \notin deployment.caches => hot'[d] = << >>
  BY <1>5 DEF AtHome
<1>8. ASSUME Sqlite
      PROVE  /\ \A d \in Caches : \A f \in ToSet(hot'[d]) : f.key \in KeysOf(d)
             /\ \A r \in rows' : r.ns \in deployment.caches /\ r.entry.key \in KeysOf(r.ns)
  <2>1. \A d \in Caches : \A f \in ToSet(hot[d]) : f.key \in KeysOf(d)
    BY <1>8 DEF AtHome
  <2>2. \A r \in rows : r.ns \in deployment.caches /\ r.entry.key \in KeysOf(r.ns)
    BY <1>8 DEF AtHome
  <2>3. \A d \in Caches : \A f \in ToSet(hot'[d]) : f.key \in KeysOf(d)
    BY <1>1, <1>2, <1>4, <1>5, <2>1
  <2> QED BY <1>1, <1>6, <2>2, <2>3, RowIs
<1>9. ASSUME ~Sqlite PROVE \A d \in deployment.caches : handle'[d] # "orphan"
  <2>1. handle[c] # "orphan"
    BY <1>9 DEF AtHome
  <2>2. handle'[c] # "orphan"
    BY <1>1, <1>2, <1>3, <1>9, <2>1, AppendIs
  <2> QED BY <1>9, <2>2, ApartIs
<1> QED BY <1>3, <1>7, <1>8, <1>9 DEF AtHome

LEMMA SetCurrent ==
  ASSUME OneCachePerLog, KeysApart, TypeOK, AtHome, DiskIsCurrent,
         NEW c \in deployment.caches, NEW e \in Stored(c), Set(c, e)
  PROVE  DiskIsCurrent'
<1> DEFINE map == PutLast(hot[c], e)
           table == (rows \ RowsOf(c, {e.key})) \cup {Row(c, e)}
<1>1. /\ c \in Caches /\ e \in EntryT /\ Live(e) /\ e.key \in KeysOf(c) /\ hot[c] \in Maps /\ DiskOK
      /\ SetLine(e) \in Line /\ SetLine(e).op = "set" /\ SetLine(e).entry = e
      /\ log \in Seq(Line) /\ rows \subseteq [ns : Caches, entry : EntryT]
  BY CachesAre, LiveOnes, LinesAre DEF TypeOK, KeysOf, SetLine, DiskOK
<1>2. /\ map \in Maps /\ ToSet(map) = {f \in ToSet(hot[c]) : f.key # e.key} \cup {e}
      /\ e.key \notin Pushed(map)
  BY <1>1, PutLastIs, LastStays
<1>3. /\ hot' = [hot EXCEPT ![c] = Trimmed(map)]
      /\ IF Sqlite THEN Execute(RowsOf(c, {e.key}), {Row(c, e)}, RowsOf(c, Pushed(map)))
                   ELSE AppendJsonl(c, SetLine(e), map)
      /\ latest' = {l \in latest : l.key # e.key} \cup {e}
      /\ deployment' = deployment /\ Sqlite' = Sqlite
  BY DEF Set, Sqlite
<1> HIDE DEF map
<1>4. /\ Trimmed(map) \in Maps /\ ToSet(Trimmed(map)) \subseteq ToSet(map)
      /\ \A f \in ToSet(Trimmed(map)) : f.key \notin Pushed(map)
  BY <1>2, TrimmedIs
<1>5. hot'[c] = Trimmed(map) /\ \A d \in Caches : d # c => hot'[d] = hot[d]
  BY <1>1, <1>3, <1>4, OneMap
<1>6. CASE Sqlite /\ ~lossy'
  <2>1. /\ lossy => lossy'
        /\ ~lossy' => rows' \subseteq table /\ table \ RowsOf(c, Pushed(map)) \subseteq rows'
    <3>1. DiskOK /\ Execute(RowsOf(c, {e.key}), {Row(c, e)}, RowsOf(c, Pushed(map)))
      BY <1>1, <1>3, <1>6
    <3> QED BY <1>1, <3>1, SetExecutes
  <2>2. /\ rows' \subseteq table /\ table \ RowsOf(c, Pushed(map)) \subseteq rows'
        /\ \A r \in rows : Live(r.entry) => r.entry \in latest
        /\ \A d \in Caches : \A f \in LiveIn(hot[d]) : Row(d, f) \in rows
    BY <1>6, <2>1 DEF DiskIsCurrent
  <2>3. ASSUME NEW r \in rows', Live(r.entry) PROVE r.entry \in latest'
    <3>1. CASE r = Row(c, e)
      BY <1>3, <3>1, RowIs
    <3>2. CASE r \in rows /\ r \notin RowsOf(c, {e.key})
      <4>1. ~(r.ns = c /\ r.entry.key \in {e.key})
        BY <3>2 DEF RowsOf
      <4>2. r.entry.key \notin {e.key}
        BY <1>1, <1>6, <3>2, <4>1, NotLost
      <4> QED BY <1>3, <2>2, <2>3, <3>2, <4>2
    <3> QED BY <2>2, <3>1, <3>2
  <2>4. ASSUME NEW d \in Caches, NEW f \in LiveIn(hot'[d]) PROVE Row(d, f) \in rows'
    <3>1. CASE d # c
      <4>1. Row(d, f) \in rows
        BY <1>5, <2>2, <2>4, <3>1
      <4>2. Row(d, f) \in table /\ Row(d, f) \notin RowsOf(c, Pushed(map))
        BY <3>1, <4>1, RowIs DEF RowsOf
      <4> HIDE DEF table
      <4> QED BY <2>2, <4>2
    <3>2. CASE d = c
      <4>1. f \in ToSet(map) /\ Live(f) /\ f.key \notin Pushed(map)
        BY <1>4, <1>5, <2>4, <3>2 DEF LiveIn
      <4>2. Row(c, f) \in table
        <5>1. CASE f = e
          BY <5>1
        <5>2. CASE f \in ToSet(hot[c]) /\ f.key # e.key
          <6>1. Row(c, f) \in rows
            BY <1>1, <2>2, <4>1, <5>2 DEF LiveIn
          <6> QED BY <5>2, <6>1, RowIs DEF RowsOf
        <5> QED BY <1>2, <4>1, <5>1, <5>2
      <4>3. Row(c, f) \notin RowsOf(c, Pushed(map))
        BY <4>1, RowIs DEF RowsOf
      <4> HIDE DEF table
      <4> QED BY <2>2, <3>2, <4>2, <4>3
    <3> QED BY <3>1, <3>2
  <2> QED BY <1>3, <1>6, <2>3, <2>4 DEF DiskIsCurrent
<1>7. CASE ~Sqlite /\ ~lossy'
  <2>1. handle[c] # "orphan"
    BY <1>7 DEF AtHome
  <2>2. (lossy => lossy') /\ (log' = Append(log, SetLine(e)) \/ log' = Dump(map))
    BY <1>1, <1>2, <1>3, <1>7, <2>1, AppendIs
  <2>3. /\ Kept(log) \subseteq latest
        /\ \A d \in Caches : LiveIn(hot[d]) \subseteq Kept(log)
    BY <1>7, <2>2 DEF DiskIsCurrent
  <2>4. LiveIn(map) \subseteq {f \in Kept(log) : f.key # e.key} \cup {e}
    BY <1>1, <1>2, <2>3 DEF LiveIn
  <2>5. Kept(log') \subseteq latest' /\ LiveIn(map) \subseteq Kept(log')
    <3>1. CASE log' = Append(log, SetLine(e))
      <4>1. Kept(log') = {f \in Kept(log) : ~Wipes(SetLine(e), f.key)} \cup {e}
        BY <1>1, <3>1, KeptOfAppend
      <4>2. \A f \in Kept(log) : Wipes(SetLine(e), f.key) <=> f.key = e.key
        BY <1>1 DEF Wipes
      <4> QED BY <1>3, <2>3, <2>4, <4>1, <4>2
    <3>2. CASE log' = Dump(map)
      <4>1. Kept(log') = LiveIn(map)
        BY <1>2, <3>2, DumpIs
      <4> QED BY <1>3, <2>3, <2>4, <4>1
    <3> QED BY <2>2, <3>1, <3>2
  <2>6. \A d \in Caches : LiveIn(hot'[d]) \subseteq Kept(log')
    <3> SUFFICES ASSUME NEW d \in Caches PROVE LiveIn(hot'[d]) \subseteq Kept(log')
      OBVIOUS
    <3>1. CASE d = c
      BY <1>4, <1>5, <2>5, <3>1 DEF LiveIn
    <3>2. CASE d # c
      <4>1. d \notin deployment.caches
        BY <1>7, <3>2, ApartIs
      <4>2. hot'[d] = << >>
        BY <1>5, <3>2, <4>1 DEF AtHome
      <4> QED BY <4>2 DEF LiveIn, ToSet
    <3> QED BY <3>1, <3>2
  <2> QED BY <1>3, <1>7, <2>5, <2>6 DEF DiskIsCurrent
<1> QED BY <1>6, <1>7 DEF DiskIsCurrent

\* Keys kk are removed from the cache c: by a delete of one key, found or
\* expired, or by a clear of all.
LEMMA RemoveKeeps ==
  ASSUME OneCachePerLog, KeysApart, TypeOK, AtHome, DiskIsCurrent,
         NEW c \in deployment.caches, NEW m \in Maps,
         NEW kk, NEW lost, NEW l \in Line, l.op # "set",
         ToSet(m) = {f \in ToSet(hot[c]) : ~Wipes(l, f.key)},
         \A k \in kk : Wipes(l, k),
         Sqlite => /\ kk \subseteq KeysOf(c)
                   /\ \A r \in rows : r \in lost <=> r.ns = c /\ r.entry.key \in kk,
         hot' = [hot EXCEPT ![c] = m],
         IF Sqlite THEN Execute(lost, {}, {}) ELSE AppendJsonl(c, l, m),
         latest' = {f \in latest : f.key \notin kk}, UNCHANGED deployment
  PROVE  AtHome' /\ DiskIsCurrent'
<1>1. /\ c \in Caches /\ DiskOK /\ log \in Seq(Line) /\ Sqlite' = Sqlite
      /\ rows \subseteq [ns : Caches, entry : EntryT]
  BY CachesAre DEF TypeOK, DiskOK, Sqlite
<1>2. hot'[c] = m /\ \A d \in Caches : d # c => hot'[d] = hot[d]
  BY <1>1, OneMap
<1>3. \A f \in ToSet(m) : f \in ToSet(hot[c]) /\ ~Wipes(l, f.key) /\ f.key \notin kk
  OBVIOUS
<1>4. \A d \in Caches : d \notin deployment.caches => hot'[d] = << >>
  BY <1>2 DEF AtHome
<1>5. CASE Sqlite
  <2>1. /\ UNCHANGED fileVars /\ rows' \subseteq rows /\ (lossy => lossy')
        /\ ~lossy' => rows' = rows \ lost
    <3>1. Execute(lost, {}, {})
      BY <1>5
    <3> QED BY <1>1, <3>1, RemoveExecutes
  <2>2. /\ \A d \in Caches : \A f \in ToSet(hot[d]) : f.key \in KeysOf(d)
        /\ \A r \in rows : r.ns \in deployment.caches /\ r.entry.key \in KeysOf(r.ns)
    BY <1>5 DEF AtHome
  <2>3. \A d \in Caches : \A f \in ToSet(hot'[d]) : f.key \in KeysOf(d)
    BY <1>2, <1>3, <2>2
  <2>4. AtHome'
    BY <1>1, <1>4, <1>5, <2>1, <2>2, <2>3 DEF AtHome
  <2>5. ASSUME ~lossy'
        PROVE  /\ \A r \in rows' : Live(r.entry) => r.entry \in latest'
               /\ \A d \in Caches : \A f \in LiveIn(hot'[d]) : Row(d, f) \in rows'
    <3>1. /\ rows' = rows \ lost
          /\ \A r \in rows : Live(r.entry) => r.entry \in latest
          /\ \A d \in Caches : \A f \in LiveIn(hot[d]) : Row(d, f) \in rows
      BY <1>5, <2>1, <2>5 DEF DiskIsCurrent
    <3>2. ASSUME NEW r \in rows', Live(r.entry) PROVE r.entry \in latest'
      <4>1. r \in rows /\ ~(r.ns = c /\ r.entry.key \in kk)
        BY <1>5, <3>1
      <4>2. r.entry.key \notin kk
        <5>1. kk \in SUBSET KeysOf(c)
          BY <1>5
        <5> QED BY <1>5, <4>1, <5>1, NotLost
      <4> QED BY <3>1, <3>2, <4>1, <4>2
    <3>3. ASSUME NEW d \in Caches, NEW f \in LiveIn(hot'[d]) PROVE Row(d, f) \in rows'
      <4>1. Row(d, f) \in rows
        BY <1>2, <1>3, <3>1, <3>3 DEF LiveIn
      <4>2. ~(Row(d, f).ns = c /\ Row(d, f).entry.key \in kk)
        BY <1>2, <1>3, <3>3, RowIs DEF LiveIn
      <4> QED BY <1>5, <3>1, <4>1, <4>2
    <3> QED BY <3>2, <3>3
  <2> QED BY <1>1, <1>5, <2>4, <2>5 DEF DiskIsCurrent
<1>6. CASE ~Sqlite
  <2>1. handle[c] # "orphan" /\ AppendJsonl(c, l, m)
    BY <1>6 DEF AtHome
  <2>2. /\ handle'[c] # "orphan" /\ (lossy => lossy')
        /\ ~lossy' => log' = Append(log, l) \/ log' = Dump(m)
    BY <1>1, <2>1, AppendIs
  <2>3. AtHome'
    BY <1>1, <1>4, <1>6, <2>2, ApartIs DEF AtHome
  <2>4. ASSUME ~lossy'
        PROVE  Kept(log') \subseteq latest' /\ \A d \in Caches : LiveIn(hot'[d]) \subseteq Kept(log')
    <3>1. /\ Kept(log) \subseteq latest
          /\ \A d \in Caches : LiveIn(hot[d]) \subseteq Kept(log)
      BY <1>6, <2>2, <2>4 DEF DiskIsCurrent
    <3>2. LiveIn(m) \subseteq {f \in Kept(log) : ~Wipes(l, f.key)}
      BY <1>1, <1>3, <3>1 DEF LiveIn
    <3>3. Kept(log') \subseteq {f \in Kept(log) : ~Wipes(l, f.key)} /\ LiveIn(m) \subseteq Kept(log')
      <4>1. CASE log' = Append(log, l)
        <5>1. Kept(log') = {f \in Kept(log) : ~Wipes(l, f.key)}
          BY <1>1, <4>1, KeptOfAppend
        <5> QED BY <3>2, <5>1
      <4>2. CASE log' = Dump(m)
        <5>1. Kept(log') = LiveIn(m)
          BY <4>2, DumpIs
        <5> QED BY <3>2, <5>1
      <4> QED BY <2>2, <2>4, <4>1, <4>2
    <3>4. ASSUME NEW d \in Caches PROVE LiveIn(hot'[d]) \subseteq Kept(log')
      <4>1. CASE d = c
        BY <1>2, <3>3, <4>1
      <4>2. CASE d # c
        <5>1. d \notin deployment.caches
          BY <1>6, <4>2, ApartIs
        <5>2. hot'[d] = << >>
          BY <1>4, <5>1
        <5> QED BY <5>2 DEF LiveIn, ToSet
      <4> QED BY <4>1, <4>2
    <3> QED BY <3>1, <3>3, <3>4
  <2> QED BY <1>1, <1>6, <2>3, <2>4 DEF DiskIsCurrent
<1> QED BY <1>5, <1>6

LEMMA ForgetKeeps ==
  ASSUME OneCachePerLog, KeysApart, TypeOK, AtHome, DiskIsCurrent,
         NEW c \in deployment.caches, NEW k \in Keys, Sqlite => k \in KeysOf(c), Forget(c, k)
  PROVE  AtHome' /\ DiskIsCurrent'
<1> DEFINE m == Without(hot[c], k)
           l == DelLine(k)
           kk == {k}
           lost == RowsOf(c, {k})
<1>1. c \in Caches /\ hot[c] \in Maps
  BY CachesAre DEF TypeOK
<1>2. m \in Maps /\ ToSet(m) = {f \in ToSet(hot[c]) : f.key # k}
  BY <1>1, WithoutIs
<1>3. l \in Line /\ l.op # "set" /\ \A x : Wipes(l, x) <=> x = k
  BY LinesAre DEF DelLine, Wipes
<1>4. ToSet(m) = {f \in ToSet(hot[c]) : ~Wipes(l, f.key)} /\ \A x \in kk : Wipes(l, x)
  BY <1>2, <1>3
<1>5. Sqlite => /\ kk \subseteq KeysOf(c)
                /\ \A r \in rows : r \in lost <=> r.ns = c /\ r.entry.key \in kk
  BY DEF RowsOf
<1>6. /\ hot' = [hot EXCEPT ![c] = m]
      /\ IF Sqlite THEN Execute(lost, {}, {}) ELSE AppendJsonl(c, l, m)
      /\ latest' = {f \in latest : f.key \notin kk} /\ UNCHANGED deployment
  BY DEF Forget
<1> HIDE DEF m, l, kk, lost
<1> QED BY <1>2, <1>3, <1>4, <1>5, <1>6, RemoveKeeps, Zenon

LEMMA ClearKeeps ==
  ASSUME OneCachePerLog, KeysApart, TypeOK, AtHome, DiskIsCurrent, NEW c \in deployment.caches, Clear(c)
  PROVE  AtHome' /\ DiskIsCurrent'
<1> DEFINE m == << >>
           l == ClearLine
           kk == KeysOf(c)
           lost == RowsOf(c, Keys)
<1>1. c \in Caches /\ hot[c] \in Maps /\ KeysOf(c) \subseteq Keys
  BY CachesAre DEF TypeOK
<1>2. m \in Maps /\ ToSet(m) = {}
  BY DEF Maps, ToSet
<1>3. l \in Line /\ l.op # "set" /\ \A x : Wipes(l, x)
  BY LinesAre DEF ClearLine, Wipes
<1>4. ToSet(m) = {f \in ToSet(hot[c]) : ~Wipes(l, f.key)} /\ \A x \in kk : Wipes(l, x)
  BY <1>2, <1>3
<1>5. Sqlite => /\ kk \subseteq KeysOf(c)
                /\ \A r \in rows : r \in lost <=> r.ns = c /\ r.entry.key \in kk
  BY <1>1 DEF RowsOf, AtHome
<1>6. /\ hot' = [hot EXCEPT ![c] = m]
      /\ IF Sqlite THEN Execute(lost, {}, {}) ELSE AppendJsonl(c, l, m)
      /\ latest' = {f \in latest : f.key \notin kk} /\ UNCHANGED deployment
  BY DEF Clear
<1> HIDE DEF m, l, kk, lost
<1> QED BY <1>2, <1>3, <1>4, <1>5, <1>6, RemoveKeeps, Zenon

LEMMA GetKeeps ==
  ASSUME OneCachePerLog, KeysApart, TypeOK, AtHome, DiskIsCurrent,
         NEW c \in deployment.caches, NEW e \in ToSet(hot[c]), Get(c, e)
  PROVE  AtHome' /\ DiskIsCurrent'
<1>1. c \in Caches /\ hot[c] \in Maps
  BY CachesAre DEF TypeOK
<1>2. CASE Forget(c, e.key)
  <2>1. e \in EntryT
    BY <1>1, HitIs
  <2>2. e.key \in Keys /\ (Sqlite => e.key \in KeysOf(c))
    BY <1>1, <2>1 DEF EntryT, AtHome
  <2> QED BY <1>2, <2>2, ForgetKeeps
<1>3. CASE /\ hot' = [hot EXCEPT ![c] = PutLast(@, e)]
           /\ UNCHANGED <<deployment, fileVars, rows, ghosts, lossy>>
  <2> DEFINE m == PutLast(hot[c], e)
  <2>1. m \in Maps /\ ToSet(m) = ToSet(hot[c])
    BY <1>1, HitIs
  <2>2. hot' = [hot EXCEPT ![c] = m]
    BY <1>3
  <2> HIDE DEF m
  <2>3. hot'[c] = m /\ \A d \in Caches : d # c => hot'[d] = hot[d]
    BY <1>1, <2>1, <2>2, OneMap
  <2>4. \A d \in Caches : ToSet(hot'[d]) = ToSet(hot[d]) /\ LiveIn(hot'[d]) = LiveIn(hot[d])
    BY <2>1, <2>3 DEF LiveIn
  <2>5. /\ UNCHANGED <<deployment, log, handle, rows, latest, lossy>> /\ Sqlite' = Sqlite
    BY <1>3 DEF fileVars, ghosts, Sqlite
  <2>6. \A d \in Caches : d \notin deployment.caches => hot'[d] = << >>
    BY <2>3 DEF AtHome
  <2>7. AtHome'
    BY <2>4, <2>5, <2>6 DEF AtHome
  <2>8. DiskIsCurrent'
    BY <2>4, <2>5 DEF DiskIsCurrent
  <2> QED BY <2>7, <2>8
<1> QED BY <1>2, <1>3 DEF Get

LEMMA NothingIn == ASSUME NEW map \in Maps, ToSet(map) = {} PROVE map = << >>
<1>1. map \in Seq(EntryT)
  BY DEF Maps
<1>2. DOMAIN map = {}
  BY <1>1 DEF ToSet
<1>3. Len(map) = 0
  <2> HIDE DEF EntryT
  <2> QED BY <1>1, <1>2
<1> HIDE DEF EntryT
<1> QED BY <1>1, <1>3

LEMMA RestartKeepsDisk ==
  ASSUME TypeOK, AtHome, DiskIsCurrent, Restart
  PROVE  AtHome' /\ DiskIsCurrent'
<1>0. /\ UNCHANGED <<deployment, ghosts, lossy>> /\ Sqlite' = Sqlite /\ latest' = latest
      /\ log \in Seq(Line) /\ DiskOK /\ rows \subseteq [ns : Caches, entry : EntryT]
  BY DEF Restart, Sqlite, ghosts, TypeOK, DiskOK
<1>1. CASE Sqlite
  <2>1. PICK maps : Hydrates(maps)
    BY <1>0, <1>1, HydrateIs DEF Restart
  <2>2. \A c \in Caches : /\ hot'[c] \in Maps /\ ToSet(hot'[c]) \subseteq Alive(c)
                          /\ \A f \in ToSet(hot'[c]) : f.key \notin Pushed(maps[c])
    <3> SUFFICES ASSUME NEW c \in Caches
                 PROVE  /\ hot'[c] \in Maps /\ ToSet(hot'[c]) \subseteq Alive(c)
                        /\ \A f \in ToSet(hot'[c]) : f.key \notin Pushed(maps[c])
      OBVIOUS
    <3>1. maps[c] \in Maps /\ ToSet(maps[c]) = Alive(c) /\ hot'[c] = Trimmed(maps[c])
      BY <2>1 DEF Hydrates
    <3> QED BY <3>1, TrimmedIs
  <2>3. \A c \in Caches : \A f \in Alive(c) : Row(c, f) \in rows /\ Live(f)
    BY <1>0, RowIs DEF Alive
  <2>4. /\ rows' \subseteq rows
        /\ \A r \in rows : r.ns \in deployment.caches /\ r.entry.key \in KeysOf(r.ns)
    BY <1>1, <2>1 DEF Hydrates, AtHome
  <2>5. \A c \in Caches : \A f \in ToSet(hot'[c]) : /\ f \in Alive(c) /\ f.key \in KeysOf(c)
                                                    /\ c \in deployment.caches
    BY <2>2, <2>3, <2>4, RowIs
  <2>6. \A c \in Caches : c \notin deployment.caches => hot'[c] = << >>
    <3> SUFFICES ASSUME NEW c \in Caches, c \notin deployment.caches PROVE hot'[c] = << >>
      OBVIOUS
    <3>1. ToSet(hot'[c]) = {}
      BY <2>5
    <3> QED BY <2>2, <3>1, NothingIn
  <2>7. AtHome'
    BY <1>0, <1>1, <2>4, <2>5, <2>6 DEF AtHome
  <2>8. ASSUME ~lossy
        PROVE  /\ \A r \in rows' : Live(r.entry) => r.entry \in latest'
               /\ \A c \in Caches : \A f \in LiveIn(hot'[c]) : Row(c, f) \in rows'
    <3>1. \A r \in rows : Live(r.entry) => r.entry \in latest
      BY <1>1, <2>8 DEF DiskIsCurrent
    <3>2. ASSUME NEW c \in Caches, NEW f \in LiveIn(hot'[c]) PROVE Row(c, f) \in rows'
      <4>1. f \in ToSet(hot'[c])
        BY <3>2 DEF LiveIn
      <4>2. Row(c, f) \in rows /\ Live(f) /\ f.key \notin Pushed(maps[c])
        BY <2>2, <2>3, <4>1
      <4> QED BY <2>1, <4>2, RowIs DEF Hydrates
    <3> QED BY <1>0, <2>4, <3>1, <3>2
  <2> QED BY <1>0, <1>1, <2>7, <2>8 DEF DiskIsCurrent
<1>2. CASE ~Sqlite
  <2>1. /\ log' = log
        /\ hot' = [c \in Caches |-> IF c \in deployment.caches THEN Trimmed(Replayed(log)) ELSE << >>]
        /\ handle' = [c \in Caches |-> "open"]
    BY <1>2 DEF Restart, Replay
  <2>2. Replayed(log) \in Maps /\ ToSet(Replayed(log)) = Kept(log)
    BY <1>0, ReplayedIs
  <2>3. ToSet(Trimmed(Replayed(log))) \subseteq Kept(log)
    BY <2>2, TrimmedIs
  <2>4. \A c \in Caches : LiveIn(hot'[c]) \subseteq Kept(log)
    BY <2>1, <2>3 DEF LiveIn, ToSet
  <2>5. deployment.caches \subseteq Caches
    BY CachesAre
  <2>6. AtHome'
    BY <1>0, <1>2, <2>1, <2>5 DEF AtHome
  <2> QED BY <1>0, <1>2, <2>1, <2>4, <2>6 DEF DiskIsCurrent
<1> QED BY <1>1, <1>2

LEMMA PowerLossKeeps ==
  ASSUME TypeOK, AtHome, DiskIsCurrent, PowerLoss
  PROVE  AtHome' /\ DiskIsCurrent'
<1>1. /\ ~Sqlite /\ Sqlite' = Sqlite /\ lossy' = TRUE /\ deployment' = deployment
      /\ deployment.caches \subseteq Caches
  BY CachesAre DEF PowerLoss, Sqlite
<1>2. \E lines : Replay(lines)
  BY DEF PowerLoss
<1>3. /\ \A c \in Caches : c \notin deployment.caches => hot'[c] = << >>
      /\ handle' = [c \in Caches |-> "open"]
  BY <1>2 DEF Replay
<1>4. AtHome'
  BY <1>1, <1>3 DEF AtHome
<1> QED BY <1>1, <1>4 DEF DiskIsCurrent

\* What a replay would leave ages as all the rest does.
LEMMA KeptAges ==
  ASSUME NEW lines \in Seq(Line), NEW aged,
         aged = [n \in DOMAIN lines |-> IF lines[n].op = "set" THEN SetLine(Aged(lines[n].entry))
                                        ELSE lines[n]]
  PROVE  /\ Kept(lines) \subseteq EntryT
         /\ Kept(aged) = AgedSet(Kept(lines))
<1>1. /\ Len(aged) = Len(lines) /\ Len(lines) \in Nat
      /\ \A n \in 1..Len(lines) :
           /\ aged[n].op = lines[n].op
           /\ lines[n].op = "set" => /\ lines[n].entry \in EntryT
                                     /\ aged[n].entry = Aged(lines[n].entry)
           /\ lines[n].op # "set" => aged[n] = lines[n]
  BY LogAges
<1>2. \A n \in 1..Len(lines) : \A k : Wipes(aged[n], k) <=> Wipes(lines[n], k)
  <2> SUFFICES ASSUME NEW n \in 1..Len(lines), NEW k
               PROVE  Wipes(aged[n], k) <=> Wipes(lines[n], k)
    OBVIOUS
  <2>1. CASE lines[n].op = "set"
    <3>0. lines[n].entry \in EntryT /\ aged[n].op = "set" /\ aged[n].entry = Aged(lines[n].entry)
      BY <1>1, <2>1
    <3>1. aged[n].op = "set" /\ aged[n].entry.key = lines[n].entry.key
      BY <3>0, AgedIs
    <3> QED BY <2>1, <3>1 DEF Wipes
  <2>2. CASE lines[n].op # "set"
    BY <1>1, <2>2
  <2> QED BY <2>1, <2>2
<1>3. \A n \in 1..Len(lines) : Stands(lines, n, Len(lines)) => lines[n].entry \in EntryT
  BY <1>1 DEF Stands
<1>4. \A n \in 1..Len(lines) :
        Stands(aged, n, Len(lines)) <=> Stands(lines, n, Len(lines)) /\ lines[n].entry.left # 1
  <2> SUFFICES ASSUME NEW n \in 1..Len(lines)
               PROVE  Stands(aged, n, Len(lines)) <=>
                      Stands(lines, n, Len(lines)) /\ lines[n].entry.left # 1
    OBVIOUS
  <2>1. CASE lines[n].op = "set"
    <3>0. lines[n].entry \in EntryT /\ aged[n].op = "set" /\ aged[n].entry = Aged(lines[n].entry)
      BY <1>1, <2>1
    <3>1. /\ aged[n].op = "set" /\ aged[n].entry.key = lines[n].entry.key
          /\ Live(aged[n].entry) <=> Live(lines[n].entry) /\ lines[n].entry.left # 1
      BY <3>0, AgedIs
    <3>2. \A i \in n + 1..Len(lines) : Wipes(aged[i], lines[n].entry.key)
                                       <=> Wipes(lines[i], lines[n].entry.key)
      BY <1>1, <1>2
    <3> QED BY <2>1, <3>1, <3>2 DEF Stands
  <2>2. CASE lines[n].op # "set"
    BY <1>1, <2>2 DEF Stands
  <2> QED BY <2>1, <2>2
<1>5. Kept(lines) \subseteq EntryT
  BY <1>3 DEF Kept, KeptOf
<1>6. ASSUME NEW f \in Kept(aged) PROVE f \in AgedSet(Kept(lines))
  <2>1. PICK n \in 1..Len(lines) : Stands(aged, n, Len(lines)) /\ f = aged[n].entry
    BY <1>1 DEF Kept, KeptOf
  <2>2. Stands(lines, n, Len(lines)) /\ lines[n].entry.left # 1 /\ f = Aged(lines[n].entry)
    BY <1>1, <1>4, <2>1 DEF Stands
  <2>3. lines[n].entry \in Kept(lines)
    BY <2>2 DEF Kept, KeptOf
  <2> QED BY <2>2, <2>3 DEF AgedSet
<1>7. ASSUME NEW f \in AgedSet(Kept(lines)) PROVE f \in Kept(aged)
  <2>1. PICK e \in Kept(lines) : e.left # 1 /\ f = Aged(e)
    BY <1>7 DEF AgedSet
  <2>2. PICK n \in 1..Len(lines) : Stands(lines, n, Len(lines)) /\ e = lines[n].entry
    BY DEF Kept, KeptOf
  <2>3. Stands(aged, n, Len(lines)) /\ f = aged[n].entry
    BY <1>1, <1>4, <2>1, <2>2 DEF Stands
  <2> QED BY <1>1, <2>3 DEF Kept, KeptOf
<1> QED BY <1>5, <1>6, <1>7

LEMMA TickKeeps ==
  ASSUME TypeOK, AtHome, DiskIsCurrent, Tick
  PROVE  AtHome' /\ DiskIsCurrent'
<1>0. /\ hot \in [Caches -> Maps] /\ log \in Seq(Line) /\ rows \subseteq [ns : Caches, entry : EntryT]
      /\ latest \subseteq EntryT /\ \A e \in latest : Live(e)
  BY DEF TypeOK, DiskOK, GhostsOK
<1>1. /\ hot' = [c \in Caches |-> [n \in DOMAIN hot[c] |-> Aged(hot[c][n])]]
      /\ log' = [n \in DOMAIN log |-> IF log[n].op = "set" THEN SetLine(Aged(log[n].entry))
                                      ELSE log[n]]
      /\ rows' = {Row(r.ns, Aged(r.entry)) : r \in rows}
      /\ latest' = AgedSet(latest)
      /\ UNCHANGED <<deployment, handle, lossy>> /\ Sqlite' = Sqlite
  BY TickIs DEF Sqlite
<1>2. \A c \in Caches : /\ ToSet(hot'[c]) = {Aged(e) : e \in ToSet(hot[c])}
                        /\ ToSet(hot[c]) \subseteq EntryT
                        /\ hot[c] = << >> => hot'[c] = << >>
  <2> SUFFICES ASSUME NEW c \in Caches
               PROVE  /\ ToSet(hot'[c]) = {Aged(e) : e \in ToSet(hot[c])}
                      /\ ToSet(hot[c]) \subseteq EntryT
                      /\ hot[c] = << >> => hot'[c] = << >>
    OBVIOUS
  <2>1. hot[c] \in Maps /\ hot'[c] = [n \in DOMAIN hot[c] |-> Aged(hot[c][n])]
    BY <1>0, <1>1
  <2>2. hot'[c] \in Maps /\ ToSet(hot'[c]) = {Aged(e) : e \in ToSet(hot[c])}
    BY <2>1, MapAges
  <2>3. ASSUME hot[c] = << >> PROVE hot'[c] = << >>
    <3>1. ToSet(hot'[c]) = {}
      BY <2>2, <2>3 DEF ToSet
    <3> QED BY <2>2, <3>1, NothingIn
  <2>4. ToSet(hot[c]) \subseteq EntryT
    BY <2>1 DEF Maps, ToSet
  <2> QED BY <2>2, <2>3, <2>4
<1>3. \A c \in Caches : \A f \in LiveIn(hot'[c]) : \E e \in LiveIn(hot[c]) :
        e \in EntryT /\ e.left # 1 /\ f = Aged(e)
  BY <1>2, AgedIs DEF LiveIn
<1>4. AtHome'
  <2>1. ASSUME Sqlite
        PROVE  /\ \A c \in Caches : \A f \in ToSet(hot'[c]) : f.key \in KeysOf(c)
               /\ \A r \in rows' : r.ns \in deployment.caches /\ r.entry.key \in KeysOf(r.ns)
    <3>1. \A c \in Caches : \A f \in ToSet(hot'[c]) : f.key \in KeysOf(c)
      BY <1>2, <2>1, AgedIs DEF AtHome
    <3>2. \A r \in rows' : r.ns \in deployment.caches /\ r.entry.key \in KeysOf(r.ns)
      <4> SUFFICES ASSUME NEW s \in rows PROVE /\ Row(s.ns, Aged(s.entry)).ns \in deployment.caches
                                               /\ Row(s.ns, Aged(s.entry)).entry.key
                                                  \in KeysOf(Row(s.ns, Aged(s.entry)).ns)
        BY <1>1
      <4>1. s.ns \in deployment.caches /\ s.entry.key \in KeysOf(s.ns) /\ s.entry \in EntryT
        BY <1>0, <2>1 DEF AtHome
      <4> QED BY <4>1, AgedIs, RowIs
    <3> QED BY <3>1, <3>2
  <2> QED BY <1>1, <1>2, <2>1 DEF AtHome
<1>5. ASSUME ~lossy, Sqlite
      PROVE  /\ \A r \in rows' : Live(r.entry) => r.entry \in latest'
             /\ \A c \in Caches : \A f \in LiveIn(hot'[c]) : Row(c, f) \in rows'
  <2>1. /\ \A r \in rows : Live(r.entry) => r.entry \in latest
        /\ \A c \in Caches : \A f \in LiveIn(hot[c]) : Row(c, f) \in rows
    BY <1>5 DEF DiskIsCurrent
  <2>2. ASSUME NEW r \in rows', Live(r.entry) PROVE r.entry \in latest'
    <3>1. PICK s \in rows : r = Row(s.ns, Aged(s.entry))
      BY <1>1
    <3>2. s.entry \in EntryT /\ r.entry = Aged(s.entry)
      BY <1>0, <3>1, RowIs
    <3>3. Live(s.entry) /\ s.entry.left # 1
      BY <2>2, <3>2, AgedIs
    <3> QED BY <1>1, <2>1, <3>2, <3>3 DEF AgedSet
  <2>3. ASSUME NEW c \in Caches, NEW f \in LiveIn(hot'[c]) PROVE Row(c, f) \in rows'
    <3>1. PICK e \in LiveIn(hot[c]) : f = Aged(e)
      BY <1>3
    <3>2. Row(c, e) \in rows
      BY <2>1
    <3>3. Row(Row(c, e).ns, Aged(Row(c, e).entry)) \in rows'
      BY <1>1, <3>2
    <3> QED BY <3>1, <3>3, RowIs
  <2> QED BY <2>2, <2>3
<1>6. ASSUME ~lossy, ~Sqlite
      PROVE  Kept(log') \subseteq latest' /\ \A c \in Caches : LiveIn(hot'[c]) \subseteq Kept(log')
  <2>1. Kept(log) \subseteq latest /\ \A c \in Caches : LiveIn(hot[c]) \subseteq Kept(log)
    BY <1>6 DEF DiskIsCurrent
  <2>2. Kept(log') = AgedSet(Kept(log))
    BY <1>0, <1>1, KeptAges
  <2>3. Kept(log') \subseteq latest'
    BY <1>1, <2>1, <2>2 DEF AgedSet
  <2>4. \A c \in Caches : LiveIn(hot'[c]) \subseteq Kept(log')
    BY <1>3, <2>1, <2>2 DEF AgedSet
  <2> QED BY <2>3, <2>4
<1> QED BY <1>1, <1>4, <1>5, <1>6 DEF DiskIsCurrent

LEMMA InitKeeps == Init => AtHome /\ DiskIsCurrent
<1> SUFFICES ASSUME Init PROVE AtHome /\ DiskIsCurrent
  OBVIOUS
<1>1. ToSet(<< >>) = {} /\ Kept(<< >>) = {}
  BY DEF ToSet, Kept, KeptOf
<1>2. deployment.caches \subseteq Caches
  BY InitTypes, CachesAre
<1>3. AtHome
  BY <1>1, <1>2 DEF Init, AtHome
<1>4. DiskIsCurrent
  BY <1>1 DEF Init, DiskIsCurrent, LiveIn
<1> QED BY <1>3, <1>4

LEMMA StepKeeps ==
  ASSUME OneCachePerLog, KeysApart, TypeOK, AtHome, DiskIsCurrent, [Next]_vars
  PROVE  AtHome' /\ DiskIsCurrent'
<1>1. ASSUME NEW c \in deployment.caches, NEW e \in Stored(c), Set(c, e)
      PROVE  AtHome' /\ DiskIsCurrent'
  BY <1>1, SetHome, SetCurrent
<1>2. ASSUME NEW c \in deployment.caches, NEW e \in ToSet(hot[c]), Get(c, e)
      PROVE  AtHome' /\ DiskIsCurrent'
  BY <1>2, GetKeeps
<1>3. ASSUME NEW c \in deployment.caches, NEW k \in KeysOf(c), Delete(c, k)
      PROVE  AtHome' /\ DiskIsCurrent'
  <2>1. Forget(c, k) /\ k \in Keys
    BY <1>3, CachesAre DEF Delete
  <2> QED BY <2>1, ForgetKeeps
<1>4. ASSUME NEW c \in deployment.caches, Clear(c)
      PROVE  AtHome' /\ DiskIsCurrent'
  BY <1>4, ClearKeeps
<1>5. CASE Restart
  BY <1>5, RestartKeepsDisk
<1>6. CASE PowerLoss
  BY <1>6, PowerLossKeeps
<1>7. CASE Tick
  BY <1>7, TickKeeps
<1>8. CASE UNCHANGED vars
  <2>1. AtHome'
    BY <1>8 DEF vars, fileVars, AtHome, Sqlite
  <2>2. DiskIsCurrent'
    BY <1>8 DEF vars, fileVars, ghosts, DiskIsCurrent, Sqlite
  <2> QED BY <2>1, <2>2
<1> QED BY <1>1, <1>2, <1>3, <1>4, <1>5, <1>6, <1>7, <1>8 DEF Next

\* Unless a write was lost, the disk is what was set last, in memory or not.
LEMMA DiskInvariant ==
  ASSUME OneCachePerLog, KeysApart
  PROVE  Spec => [](TypeOK /\ AtHome /\ DiskIsCurrent)
<1>1. Init => TypeOK /\ AtHome /\ DiskIsCurrent
  BY InitTypes, InitKeeps
<1>2. (TypeOK /\ AtHome /\ DiskIsCurrent) /\ [Next]_vars => (TypeOK /\ AtHome /\ DiskIsCurrent)'
  BY StepTypes, StepKeeps
<1> QED BY <1>1, <1>2, PTL DEF Spec

\* As long as no write was lost, a cache on a table, or on a log of its own,
\* answers what was set last: neither a compaction, nor an eviction, nor a
\* replay brings back an older value.
THEOREM LatestAlwaysWins ==
  ASSUME OneCachePerLog, KeysApart
  PROVE  Spec => []LatestWins
<1>1. AtHome /\ DiskIsCurrent => LatestWins
  <2> SUFFICES ASSUME DiskIsCurrent, ~lossy, NEW c \in Caches, NEW e \in LiveIn(hot[c])
               PROVE  e \in latest
    BY DEF LatestWins
  <2>1. CASE Sqlite
    <3>1. Row(c, e) \in rows /\ Live(e)
      BY <2>1 DEF DiskIsCurrent, LiveIn
    <3> QED BY <2>1, <3>1, RowIs DEF DiskIsCurrent
  <2>2. CASE ~Sqlite
    BY <2>2 DEF DiskIsCurrent
  <2> QED BY <2>1, <2>2
<1> QED BY <1>1, DiskInvariant, PTL

\* The entries of a map are as many as it is long.
LEMMA MapCounts ==
  ASSUME NEW map \in Maps
  PROVE  IsFiniteSet(ToSet(map)) /\ Cardinality(ToSet(map)) = Len(map)
<1> DEFINE n == Len(map)
           at == [i \in 1..n |-> map[i]]
<1>1. /\ map \in Seq(EntryT) /\ n \in Nat /\ DOMAIN map = 1..n
      /\ \A i, j \in DOMAIN map : map[i].key = map[j].key => i = j
  BY DEF Maps
<1>2. at \in [1..n -> ToSet(map)] /\ IsInjective(at)
  BY <1>1 DEF ToSet, IsInjective
<1>3. \A e \in ToSet(map) : \E i \in 1..n : at[i] = e
  BY <1>1 DEF ToSet
<1> HIDE DEF n, at
<1>4. at \in Bijection(1..n, ToSet(map))
  BY <1>2, <1>3 DEF Bijection, Injection, Surjection
<1>5. ExistsBijection(1..n, ToSet(map))
  BY <1>4 DEF ExistsBijection
<1>6. IsFiniteSet(1..n)
  BY <1>1, FS_Interval
<1>7. IsFiniteSet(ToSet(map)) /\ Cardinality(ToSet(map)) = n
  BY <1>1, <1>5, <1>6, FS_Bijection, FS_CountingElements
<1> QED BY <1>7 DEF n

LEMMA EnoughRoom ==
  ASSUME NEW map \in Maps, NEW S, IsFiniteSet(S), ToSet(map) \subseteq S, Cardinality(S) <= MAX
  PROVE  Trimmed(map) = map
<1>1. Cardinality(ToSet(map)) = Len(map) /\ Cardinality(ToSet(map)) <= Cardinality(S)
  BY MapCounts, FS_Subset
<1>2. Len(map) \in Nat /\ Cardinality(S) \in Nat /\ MAX \in Nat
  BY FS_CardinalityType, PersistentAssumption DEF PersistentAssumption, Maps
<1>3. Len(map) <= MAX
  BY <1>1, <1>2
<1> QED BY <1>3, TrimmedIs

LEMMA RestartFinds ==
  ASSUME TypeOK, AtHome, DiskIsCurrent, Restart, ~lossy
  PROVE  KeptAtRestart
<1> SUFFICES ASSUME NEW c \in deployment.caches,
                    Cardinality({l \in latest : Sqlite => l.key \in KeysOf(c)}) <= MAX,
                    NEW e \in LiveIn(hot[c]), e.key \in KeysOf(c)
             PROVE  e \in ToSet(hot'[c])
  BY DEF KeptAtRestart
<1> DEFINE S == {l \in latest : Sqlite => l.key \in KeysOf(c)}
<1>1. /\ c \in Caches /\ DiskOK /\ log \in Seq(Line) /\ IsFiniteSet(latest)
  BY CachesAre DEF TypeOK, DiskOK, GhostsOK
<1>2. IsFiniteSet(S) /\ Cardinality(S) <= MAX
  BY <1>1, FS_Subset
<1>3. CASE Sqlite
  <2>1. PICK maps : Hydrates(maps)
    BY <1>1, <1>3, HydrateIs DEF Restart
  <2>2. maps[c] \in Maps /\ ToSet(maps[c]) = Alive(c) /\ hot'[c] = Trimmed(maps[c])
    BY <1>1, <2>1 DEF Hydrates
  <2>3. Alive(c) \subseteq S
    BY <1>3 DEF Alive, AtHome, DiskIsCurrent
  <2>4. hot'[c] = maps[c]
    <3> HIDE DEF S
    <3> QED BY <1>2, <2>2, <2>3, EnoughRoom
  <2>5. Row(c, e) \in rows /\ Live(e)
    BY <1>1, <1>3 DEF DiskIsCurrent, LiveIn
  <2>6. e \in Alive(c)
    BY <2>5, RowIs DEF Alive
  <2> QED BY <2>2, <2>4, <2>6
<1>4. CASE ~Sqlite
  <2>1. hot'[c] = Trimmed(Replayed(log))
    BY <1>1, <1>4 DEF Restart, Replay
  <2>2. Replayed(log) \in Maps /\ ToSet(Replayed(log)) = Kept(log)
    BY <1>1, ReplayedIs
  <2>3. Kept(log) \subseteq S /\ e \in Kept(log)
    BY <1>1, <1>4 DEF DiskIsCurrent
  <2>4. hot'[c] = Replayed(log)
    <3> HIDE DEF S
    <3> QED BY <1>2, <2>1, <2>2, <2>3, EnoughRoom
  <2> QED BY <2>2, <2>3, <2>4
<1> QED BY <1>3, <1>4

\* The live entries of a cache on a table, or on a log of its own, survive a
\* restart, unless a write was lost or there is no room for them.
THEOREM RestartLosesNothing ==
  ASSUME OneCachePerLog, KeysApart
  PROVE  Spec => RestartKeeps
<1>1. TypeOK /\ AtHome /\ DiskIsCurrent => (Restart /\ ~lossy => KeptAtRestart)
  BY RestartFinds
<1> QED BY <1>1, DiskInvariant, PTL DEF RestartKeeps
=============================================================================
