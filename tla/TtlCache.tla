------------------------------ MODULE TtlCache ------------------------------
(***************************************************************************)
(* What a cache of this program promises its users, whatever its eviction  *)
(* policy: a lookup answers the value of the latest set of that key, and   *)
(* only within the time to live of that set; anything may be forgotten,    *)
(* earlier than that, except the entry just set.                           *)
(*                                                                         *)
(* Implemented by LRUCache, used by Policy.                                *)
(***************************************************************************)
EXTENDS CacheEntries

CONSTANTS Keys, Values, Ttls

VARIABLES entry,     \* per key: [value, left] or NoEntry
          answer     \* what the last operation returned

vars == <<entry, answer>>

\* A time to live of 0 is the lack of one.
Lives == {IF ttl > 0 THEN ttl ELSE Forever : ttl \in Ttls}

Entry == [value : Values, left : Lives]

TypeOK == /\ entry \in [Keys -> Entry \cup {NoEntry}]
          /\ answer \in Values \cup {NoEntry}

EntryInit == entry = [k \in Keys |-> NoEntry]

Init == EntryInit /\ answer = NoEntry

Cached(k) == entry[k] # NoEntry

(* What becomes of the entries. *)
Store(k, v, left) ==
  \E lost \in SUBSET (Keys \ {k}) :
    entry' = [Without(entry, lost) EXCEPT ![k] = [value |-> v, left |-> left]]

Lose == \E lost \in SUBSET Keys : entry' = Without(entry, lost)

Age == entry' = [k \in Keys |-> Aged(entry[k])]

(* The operations. *)
Set(k, v, left) == Store(k, v, left) /\ answer' = v

Hit(k) ==
  /\ Cached(k)
  /\ answer' = entry[k].value
  /\ UNCHANGED entry

Miss(k) ==
  /\ ~Cached(k)
  /\ answer' = NoEntry
  /\ UNCHANGED entry

Forget == Lose /\ answer' = NoEntry

Tick == Age /\ UNCHANGED answer

Next == \/ \E k \in Keys : \/ \E v \in Values, left \in Lives : Set(k, v, left)
                           \/ Hit(k)
                           \/ Miss(k)
        \/ Forget
        \/ Tick

Spec == Init /\ [][Next]_vars

\* The promise to a user of the cache that looks at its entries.
EntryNext == \/ \E k \in Keys, v \in Values, left \in Lives : Store(k, v, left)
             \/ Lose
             \/ Age

EntrySpec == EntryInit /\ [][EntryNext]_entry
=============================================================================
