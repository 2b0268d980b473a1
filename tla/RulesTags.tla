----------------------------- MODULE RulesTags -----------------------------
(***************************************************************************)
(* A rules document grows tag by tag, and is parsed and applied to an      *)
(* event after each: how the parser and the validator of RulesDocument     *)
(* respond to repeated, contradictory and reordered tags.                  *)
(***************************************************************************)
EXTENDS RulesDocument, FiniteSets

CONSTANTS Tags,       \* tags the owner may write
          Contexts,   \* events (and what is known of their authors) to judge
          Owner, At,  \* who made the document, and when
          MAX_TAGS    \* bound on its length

VARIABLES tags, ctx

ASSUME TagsAssumption == Absent \notin {"allow", "deny", "author_denied"}

tagsVars == <<tags, ctx>>

TagsInit == tags = <<>> /\ ctx \in Contexts

Write(t) == /\ Len(tags) < MAX_TAGS
            /\ tags' = Append(tags, t)
            /\ UNCHANGED ctx

TagsNext == \E t \in Tags : Write(t)

TagsSpec == TagsInit /\ [][TagsNext]_tagsVars

Parsed(ts) == ParseRulesEvent([pubkey |-> Owner, createdAt |-> At, tags |-> ts])

\* The verdict on the event; "malformed" when the document is.
Judged(ts) == IF LastOf(ts, "d") = Absent THEN "malformed" ELSE Violation(Parsed(ts), ctx)

-----------------------------------------------------------------------------
(* Properties *)

\* A denied author stays denied whatever is added to the document, except
\* that the document itself may come to be stale (validate checks it first).
DenyIsFinal ==
  [][Judged(tags) = "author_denied" => Judged(tags') \in {"author_denied", "stale_rules"}]_tagsVars

\* An allow tag bypasses the web-of-trust gates and nothing else: it opens no
\* kind, lifts no cap or quota, and outweighs no deny (README, "Whitelist
\* semantics").
AllowOnlyPassesGates ==
  [][(\E t \in Tags : t.tag = "p" /\ t.policy = "allow" /\ tags' = Append(tags, t))
       => \/ Judged(tags') = Judged(tags)
          \/ Judged(tags) = "wot_gate_failed" /\ Judged(tags') = Absent]_tagsVars

\* Where the order of tags is not meant to count (no two rules for a kind, no
\* second value for a tag that has one) it does not.
Plain(ts) ==
  \A m, n \in DOMAIN ts :
    m # n => \/ ts[m].tag # ts[n].tag
             \/ ts[m].tag \in {"p", "wot"}
             \/ ts[m].tag = "k" /\ ts[m].kind # ts[n].kind

Orders(n) == {f \in [1..n -> 1..n] : Cardinality({f[i] : i \in 1..n}) = n}

OrderOfTagsIsIrrelevant ==
  Plain(tags) =>
    \A f \in Orders(Len(tags)) :
      Judged([i \in DOMAIN tags |-> tags[f[i]]]) = Judged(tags)
=============================================================================
