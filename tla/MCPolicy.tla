------------------------------ MODULE MCPolicy ------------------------------
(* Small instances of Policy for TLC. *)
EXTENDS Policy, TLC

CONSTANTS alice, bob, x, y, r1, r2, tag, OtherCommunity

Config(mode) == [mode |-> mode, allowNonBit |-> TRUE, softFail |-> FALSE, client |-> TRUE,
                 nip9a |-> FALSE, requireRules |-> FALSE, rejectImeta |-> FALSE]

Event(kind, p) == [shape |-> "event", kind |-> kind, pubkey |-> p, nip05 |-> NoNip05,
                   size |-> 1, imeta |-> FALSE, doc |-> NoDoc]
Metadata(p, id) == [Event(0, p) EXCEPT !.nip05 = id]
RulesEvent(d)   == [Event(RulesKind, d.pubkey) EXCEPT !.doc = d]
Unfit(shape)    == [Event(1, alice) EXCEPT !.shape = shape]

(* Identities: names that change hands while they are looked up. *)
IdentityConfigs == {Config("all-kinds-require-bit")}
IdentityEvents  == {Metadata(alice, x), Event(1, alice)}

(* Rules: the documents of the owner of the community, one of which denies bob, *)
(* and documents that are none of the community's: by another author, bound   *)
(* to another community, without a d tag.                                      *)
Owner == [owner |-> alice, dTag |-> tag]
K(kind, max)   == [tag |-> "k", kind |-> kind, maxBytes |-> max, maxPerDay |-> Absent]
P(p, policy)   == [tag |-> "p", pubkey |-> p, policy |-> policy]
D              == [tag |-> "d", value |-> tag]
Floor(at)      == [tag |-> "min_rules_created_at", value |-> at]
Rules(at, tags) == ParseRulesEvent([pubkey |-> alice, createdAt |-> at, tags |-> tags])

OwnDocs == {Rules(1, <<D, K(1, Absent), P(bob, "allow")>>),
            Rules(2, <<P(bob, "allow"), K(1, 1), P(bob, "deny"), D>>),
            Rules(3, <<D, K(7, Absent), P(bob, "allow"), Floor(2)>>),
            Rules(4, <<D, K(1, Absent), Floor(9)>>)}
Lax     == Rules(5, <<D, K(1, Absent), K(7, Absent)>>)
Foreign == {[Lax EXCEPT !.pubkey = bob],
            [Lax EXCEPT !.createdAt = 6, !.communityAddress = OtherCommunity],
            [Lax EXCEPT !.createdAt = 7, !.dTag = NoTag]}
RulesDocs == OwnDocs \cup Foreign

RulesConfigs == {[Config("kind0-only") EXCEPT
                    !.nip9a = TRUE, !.requireRules = q, !.rejectImeta = TRUE,
                    !.client = FALSE, !.allowNonBit = q, !.softFail = q] : q \in BOOLEAN}
RulesEvents ==
  {RulesEvent(d) : d \in RulesDocs} \cup
  {Event(1, bob), Event(7, bob), [Event(1, bob) EXCEPT !.imeta = TRUE],
   [Event(1, alice) EXCEPT !.imeta = TRUE], [Event(1, bob) EXCEPT !.size = 2],
   Metadata(bob, NoNip05), Metadata(bob, NonBit), Metadata(bob, x),
   Unfit("not-new"), Unfit("missing-pubkey")}

(* Both, each with its own lines. *)
AllConfigs   == IdentityConfigs \cup RulesConfigs
AllLines(c)  == IF c \in IdentityConfigs THEN IdentityEvents ELSE RulesEvents

\* One document per time, and rules events hold nothing but their document.
ASSUME InstanceAssumption ==
  /\ \A d, f \in Docs : d.createdAt = f.createdAt => d = f
  /\ \A e \in Events : e.kind = RulesKind => e = RulesEvent(e.doc)

Lines == Permutations(Reqs)
=============================================================================
