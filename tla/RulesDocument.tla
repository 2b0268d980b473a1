--------------------------- MODULE RulesDocument ---------------------------
(***************************************************************************)
(* A NIP-9B rules document: how the tags of a kind:34551 event are read    *)
(* (parseRulesEvent of src/src/nip9a-parser.js) and what a document says   *)
(* about one event (src/src/nip9a-validator.js).                           *)
(*                                                                         *)
(* A tag is a record whose field "tag" names it; numbers have been parsed, *)
(* Absent standing for a missing or unreadable one.                        *)
(***************************************************************************)
EXTENDS Integers, Sequences

CONSTANTS Absent

(***************************************************************************)
(* parseRulesEvent: of the tags that may be given once, the last valid one *)
(* counts; the others accumulate in their order.                           *)
(***************************************************************************)
\* The switch of the parser: a tag that fails its test is skipped.
Valid(t) ==
  CASE t.tag \in {"d", "a"}            -> t.value # Absent
    [] t.tag = "max_event_size"       -> t.value # Absent /\ t.value > 0
    [] t.tag = "min_rules_created_at" -> t.value # Absent /\ t.value >= 0
    [] t.tag = "k"                    -> t.kind # Absent
    [] t.tag = "p"                    -> t.policy \in {"allow", "deny"}
    [] t.tag = "wot"                  -> t.depth # Absent /\ t.depth > 0

Named(tags, name) ==
  LET From[n \in 0..Len(tags)] ==
        IF n = 0 THEN <<>>
        ELSE IF tags[n].tag = name /\ Valid(tags[n]) THEN Append(From[n - 1], tags[n])
        ELSE From[n - 1]
  IN  From[Len(tags)]

LastOf(tags, name) ==
  LET found == Named(tags, name)
  IN  IF found = <<>> THEN Absent ELSE found[Len(found)].value

\* No ratchet and a ratchet of 0 forbid the same documents: none.
RatchetOf(tags) ==
  LET floor == LastOf(tags, "min_rules_created_at")
  IN  IF floor = Absent THEN 0 ELSE floor

ParseRulesEvent(event) ==
  LET tags == event.tags
  IN  IF LastOf(tags, "d") = Absent THEN Absent
      ELSE [pubkey            |-> event.pubkey,
            createdAt         |-> event.createdAt,
            dTag              |-> LastOf(tags, "d"),
            communityAddress  |-> LastOf(tags, "a"),
            maxEventSize      |-> LastOf(tags, "max_event_size"),
            minRulesCreatedAt |-> RatchetOf(tags),
            kindRules         |-> Named(tags, "k"),
            pubkeyRules       |-> Named(tags, "p"),
            wotGates          |-> Named(tags, "wot")]

(***************************************************************************)
(* validate                                                                *)
(***************************************************************************)
\* Mutants of PolicyFor: the last tag for the author counts; allow overrides
\* deny.
PolicyOfLastTag(rules, pubkey) ==
  LET own == SelectSeq(rules.pubkeyRules, LAMBDA t : t.pubkey = pubkey)
  IN  IF own = <<>> THEN Absent ELSE own[Len(own)].policy

PolicyAllowFirst(rules, pubkey) ==
  LET own == {rules.pubkeyRules[n].policy :
                n \in {m \in DOMAIN rules.pubkeyRules :
                         rules.pubkeyRules[m].pubkey = pubkey}}
  IN  CASE "allow" \in own -> "allow"
        [] own = {"deny"} -> "deny"
        [] own = {} -> Absent

\* deny overrides any allow.
PolicyFor(rules, pubkey) ==
  LET own == {rules.pubkeyRules[n].policy :
                n \in {m \in DOMAIN rules.pubkeyRules :
                         rules.pubkeyRules[m].pubkey = pubkey}}
  IN  CASE "deny" \in own -> "deny"
        [] own = {"allow"} -> "allow"
        [] own = {} -> Absent

\* The first rule for the kind counts.
RuleForKind(rules, kind) ==
  LET own   == {n \in DOMAIN rules.kindRules : rules.kindRules[n].kind = kind}
      first == CHOOSE n \in own : \A m \in own : n <= m
  IN  IF own = {} THEN Absent ELSE rules.kindRules[first]

Exceeds(x, limit) == limit # Absent /\ x > limit

\* Of a sequence of checks <<does it fail, reason>>, the reason of the first
\* that fails, or Absent.
FirstFailure(checks) ==
  LET failed == {n \in DOMAIN checks : checks[n][1]}
      first  == CHOOSE n \in failed : \A m \in failed : n <= m
  IN  IF failed = {} THEN Absent ELSE checks[first][2]

\* ctx.postsToday is Absent, and ctx.trusted too, when the caller has no
\* quota counter and no web-of-trust resolver; otherwise ctx.trusted is the
\* set of gates that accept the author.
Violation(rules, ctx) ==
  LET policy == PolicyFor(rules, ctx.author)
      rule   == RuleForKind(rules, ctx.kind)
  IN  FirstFailure(<<
        <<rules.createdAt < rules.minRulesCreatedAt, "stale_rules">>,
        <<policy = "deny", "author_denied">>,
        <<rule = Absent, "kind_not_allowed">>,
        <<rule # Absent /\ Exceeds(ctx.sizeBytes, rule.maxBytes), "kind_size_exceeded">>,
        <<Exceeds(ctx.sizeBytes, rules.maxEventSize), "max_size_exceeded">>,
        <</\ rule # Absent /\ rule.maxPerDay # Absent
          /\ ctx.postsToday # Absent /\ ctx.postsToday >= rule.maxPerDay,
          "quota_exceeded">>,
        <</\ policy # "allow" /\ rules.wotGates # <<>> /\ ctx.trusted # Absent
          /\ \A n \in DOMAIN rules.wotGates : rules.wotGates[n] \notin ctx.trusted,
          "wot_gate_failed">> >>)
=============================================================================
