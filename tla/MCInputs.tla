---------------------------- MODULE MCInputs -------------------------------
(* A small instance of Inputs for TLC. *)
EXTENDS Inputs, TLC

CONSTANTS alice, bob, tag, carol, junk

Value(name, value)    == [tag |-> name, value |-> value]
K(kind, max, quota)   == [tag |-> "k", kind |-> kind, maxBytes |-> max, maxPerDay |-> quota]
P(pubkey, policy)     == [tag |-> "p", pubkey |-> pubkey, policy |-> policy]
Gate(depth)           == [tag |-> "wot", root |-> alice, depth |-> depth]

AllTags ==
  {Value("d", tag), Value("d", Absent), Value("max_event_size", 1),
   Value("min_rules_created_at", 6),
   K(1, Absent, 2), K(1, 1, Absent), K(7, Absent, Absent), K(Absent, 1, 1),
   P(bob, "allow"), P(bob, "deny"), P(bob, "other"), P(alice, "deny"),
   Gate(1), Gate(2), Gate(0)}

Ctx(kind, size, posts, trusted) ==
  [author |-> bob, kind |-> kind, sizeBytes |-> size,
   postsToday |-> posts, trusted |-> trusted]

AllContexts ==
  {Ctx(1, 2, 2, {Gate(2)}), Ctx(1, 1, 1, {}), Ctx(7, 2, 0, {}), Ctx(1, 1, 3, Absent),
   Ctx(1, 1, Absent, Absent)}

-----------------------------------------------------------------------------
Letter == 97                          \* "a"; 353 has the same low byte
Long(n) == [i \in 1..n |-> Letter]
A   == <<Letter>>
DA  == Prefix("d") \o A
IDA == Prefix("id") \o A
DLong == Prefix("d") \o Long(64)

AllKeys == {alice, bob, carol}

None == [l \in {} |-> Null]
Doc(mark, size, nostr) == [mark |-> mark, size |-> size, nostr |-> nostr]
Text(k)          == [text |-> k, pubkey |-> Null, names |-> None]
Fields(k, names) == [text |-> Null, pubkey |-> k, names |-> names]
Root(k) == [l \in {"_"} |-> k]
Sub(k)  == [l \in {"alice"} |-> k]

AllDocuments ==
  {Doc(1, 75, Text(alice)),
   Doc(2, 76, Fields(alice, None)),
   Doc(3, 255, Fields(alice, Sub(carol))),
   Doc(4, 256, Fields(bob, Root(carol) @@ Sub(junk))),
   Doc(5, 20, Null)}

Out(op, name, rand, doc, cut) ==
  [op |-> op, name |-> name, rand |-> rand, doc |-> doc, cut |-> cut]

U == OP_NAME_UPDATE
F == OP_NAME_FIRSTUPDATE

AllOutputs ==
  {Out(U, DA, Null, d, cut) : d \in AllDocuments, cut \in {0, 4}}
    \cup {Out(F, DA, r, d, 0) : r \in {Null, 20}, d \in AllDocuments}
    \cup {Out(F, DA, r, Doc(1, 75, Text(alice)), 0) : r \in {19, 21}}
    \cup {Out(F, DA, 20, d, 100) : d \in AllDocuments}
    \cup {Out(U, n, Null, Doc(4, 256, Fields(bob, Root(carol) @@ Sub(junk))), 3) : n \in {IDA, DLong}}
    \cup {Out(U, DA, 20, Doc(1, 75, Text(alice)), 0), Out(81, DA, Null, Doc(1, 75, Text(alice)), 0)}

Id(local, ns, stem) == [local |-> local, ns |-> ns, stem |-> stem]

AllIdentifiers ==
  {Id(l, "bit", A) : l \in {Null, "", "_", "alice", "nobody"}}
    \cup {Id(l, ns, A) : l \in {Null, "alice"}, ns \in {"d", "id"}}
    \cup {Id(Null, "bit", Long(64)), Id(Null, "bit", Long(65)), Id(Null, "id", Long(64))}
    \cup {Id(Null, "bit", <<353>>), Id(Null, "bit", <<225>>), Id(Null, "d", A \o DotBit),
          Id("alice", "d", A \o DotBit), Id(Null, "bit", <<Letter, DOT, Letter>>),
          Id(Null, "other", A)}
=============================================================================
