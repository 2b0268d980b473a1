------------------------------- MODULE Policy -------------------------------
(***************************************************************************)
(* The policy plugin: the handler of src/src/index.js with the resolver of *)
(* src/src/resolver.js, both caches, and the loader of rules documents.    *)
(*                                                                         *)
(* strfry writes one event per line; every line is handled by an async     *)
(* function of its own, so a lookup that waits for a token or for an       *)
(* ElectrumX server lets any number of later lines overtake it.  Reqs are  *)
(* the lines that are being handled.  Time advances in units in which one  *)
(* lookup takes at most LOOKUP_MS (NameShow) from the server's reading of  *)
(* the name to the handling of its answer.                                 *)
(*                                                                         *)
(* The caches are used by their promise (TtlCache): an entry is there until *)
(* its time is up, or is forgotten earlier when the cache is full.  Of the *)
(* file this asks no more than NoRevival of PersistentLRU, which holds also *)
(* where both caches share a log and where writes fail: after a restart a  *)
(* cache has of each key nothing, what it had last, or an older entry whose *)
(* time is not up.  For verified authors the older entries need no variable: *)
(* there is one value, TRUE, and an entry that ends earlier than another   *)
(* behaves like the other one forgotten when the first has ended.          *)
(***************************************************************************)
EXTENDS RulesLoader, RulesDocument, CacheEntries

CONSTANTS Reqs,        \* lines that may be in the plugin at a time
          Configs,     \* the environments the plugin may be started with
          Traffic(_),  \* what a line may hold, per environment
          Ids,         \* Namecoin identifiers: a name and a local part
          Pubkeys,
          NoKey,       \* a record without a key for the local part
          Missing,     \* no record, or none that is JSON with a nostr field
          NoNip05,     \* a kind:0 event without NIP-05 identifier
          NonBit,      \* a NIP-05 identifier that is not Namecoin's
          RulesKind,   \* NIP9A_KIND
          CACHE_TTL, NEG_TTL, LOOKUP_MS

VARIABLES config,              \* loadConfig's result, fixed
          chain,               \* external: what the servers hold for an id
          since,               \* ghost: time since an id last had a record
          resolverCache, verifiedAuthors,
          older,               \* entries of resolverCache the file may bring back
          req,                 \* the handler of each line
          lastWasRateLimited,  \* of the resolver
          said                 \* the reply written in this step, if any

policyVars == <<config, chain, since, resolverCache, verifiedAuthors, older, req,
                lastWasRateLimited, said>>
vars == <<policyVars, loaderVars>>

Events  == UNION {Traffic(c) : c \in Configs}
Records == Pubkeys \cup {NoKey, Missing}
Null    == NoKey                    \* resolve's null

Posters == {e.pubkey : e \in {f \in Traffic(config) : f.shape = "event"}}

\* Ages of a record are told apart up to here; no reply depends on the age of
\* a key that nobody posts with.
OLD(v) == IF v = Missing THEN NEG_TTL + LOOKUP_MS
          ELSE IF v = NoKey THEN CACHE_TTL + LOOKUP_MS
          ELSE IF v \in Posters THEN 2 * CACHE_TTL + LOOKUP_MS ELSE 0

\* The outcomes of checks that fail.
Reasons ==
  {"unverified-author", "nip9a-no-rules", "nip9a:imeta-blocked", "non-bit-blocked",
   "no-resolver", "resolve", "stale_rules", "author_denied", "kind_not_allowed",
   "kind_size_exceeded", "max_size_exceeded", "quota_exceeded", "wot_gate_failed"}

Shapes == {"event", "not-new", "non-object", "missing-event", "missing-pubkey"}

ASSUME PolicyAssumption ==
  /\ CACHE_TTL \in Nat /\ NEG_TTL \in Nat /\ LOOKUP_MS \in Nat
  /\ Pubkeys \cap {NoKey, Missing} = {}
  /\ Forever \notin Nat
  /\ NoEntry \notin [value : Records \cup {TRUE}, left : Nat \cup {Forever}]
  /\ RulesKind # 0 /\ Absent \notin Reasons

\* Whoever made an event, and in whatever shape it comes.
ASSUME TrafficAssumption ==
  \A e \in Events : /\ e.shape \in Shapes
                    /\ e.shape = "event" => e.pubkey \in Pubkeys
                    /\ e.shape = "event" /\ e.kind = RulesKind => e.doc \in Docs

Silent == [event |-> Absent, reply |-> "none", cause |-> "none"]
Idle   == [pc |-> "idle", event |-> Absent, value |-> Null, age |-> 0]

TypeOK ==
  /\ LoaderTypeOK
  /\ config \in Configs
  /\ chain \in [Ids -> Records]
  /\ since \in [Ids -> [Records -> Nat]]
  /\ \A i \in Ids : resolverCache[i] = NoEntry \/
       resolverCache[i].value \in Pubkeys \cup {Null}
  /\ \A p \in Pubkeys : verifiedAuthors[p] = NoEntry \/ verifiedAuthors[p].value = TRUE
  /\ \A i \in Ids : \A e \in older[i] : e.value \in Pubkeys \cup {Null}
  /\ \A r \in Reqs : /\ req[r].pc \in {"idle", "hit", "waiting", "looking", "fetched"}
                     /\ req[r].event \in Events \cup {Absent}
                     /\ req[r].value \in Records
                     /\ req[r].age \in 0..LOOKUP_MS
  /\ lastWasRateLimited \in BOOLEAN
  /\ said.event \in Events \cup {Absent}

Init ==
  /\ LoaderInit
  /\ config \in Configs
  /\ chain \in [Ids -> Records]
  /\ config.client \/ \A i \in Ids : chain[i] = Missing
  /\ since = [i \in Ids |-> [v \in Records |-> IF chain[i] = v THEN 0 ELSE OLD(v)]]
  /\ resolverCache = [i \in Ids |-> NoEntry]
  /\ verifiedAuthors = [p \in Pubkeys |-> NoEntry]
  /\ older = [i \in Ids |-> {}]
  /\ req = [r \in Reqs |-> Idle]
  /\ lastWasRateLimited = FALSE
  /\ said = Silent

(***************************************************************************)
(* What the handler decides without waiting.                               *)
(***************************************************************************)
Verified(p) == verifiedAuthors[p] # NoEntry

\* The .bit author gate: it is there in mode all-kinds-require-bit only.
GatePasses(p) == config.mode = "all-kinds-require-bit" => Verified(p)

\* This layer has neither a quota counter nor a web-of-trust resolver.
Context(e) == [author |-> e.pubkey, kind |-> e.kind, sizeBytes |-> e.size,
               postsToday |-> Absent, trusted |-> Absent]

RulesViolation(e) ==
  IF config.nip9a /\ active # NoDoc THEN Violation(active, Context(e)) ELSE Absent

IsWhitelisted(p) ==
  /\ config.nip9a /\ active # NoDoc
  /\ \E n \in DOMAIN active.pubkeyRules :
       active.pubkeyRules[n].pubkey = p /\ active.pubkeyRules[n].policy = "allow"

Verdict(checks) == IF FirstFailure(checks) = Absent THEN "accept" ELSE FirstFailure(checks)

RulesEventVerdict(e) == Verdict(<< <<~GatePasses(e.pubkey), "unverified-author">> >>)

OrdinaryVerdict(e) ==
  Verdict(<<
    <<~GatePasses(e.pubkey), "unverified-author">>,
    <<config.nip9a /\ active = NoDoc /\ config.requireRules, "nip9a-no-rules">>,
    <<RulesViolation(e) # Absent, RulesViolation(e)>>,
    <<config.rejectImeta /\ e.kind = 1 /\ e.imeta /\ ~IsWhitelisted(e.pubkey),
      "nip9a:imeta-blocked">> >>)

\* A kind:0 event that names no Namecoin identifier, or that nothing can
\* look up; the check named "resolve" is the one that asks the resolver.
MetadataVerdict(e) ==
  Verdict(<<
    <<e.nip05 = NonBit /\ ~config.allowNonBit, "non-bit-blocked">>,
    <<e.nip05 \in Ids /\ ~config.client /\ ~config.softFail, "no-resolver">>,
    <<e.nip05 \in Ids /\ config.client, "resolve">> >>)

IsRulesEvent(e) == e.kind = RulesKind /\ config.nip9a

(***************************************************************************)
(* Replies.                                                                *)
(***************************************************************************)
Say(e, reply, cause) == said' = [event |-> e, reply |-> reply, cause |-> cause]

Becomes(r, state) == req' = [req EXCEPT ![r] = state]

\* Mutant of Conclude: the author stays verified for good.
ConcludeForGood(r, value, cause) ==
  LET e == req[r].event
      verified == value \in Pubkeys /\ value = e.pubkey
  IN  /\ Say(e, CASE value \notin Pubkeys -> IF lastWasRateLimited' THEN "rate-limited"
                                             ELSE "unresolved"
                  [] verified -> "accept"
                  [] OTHER -> "pubkey-mismatch", cause)
      /\ verifiedAuthors' = IF verified
                            THEN [verifiedAuthors EXCEPT ![e.pubkey] = Fresh(TRUE, 0)]
                            ELSE verifiedAuthors
      /\ Becomes(r, Idle)

\* The end of handling a kind:0 event once resolve has returned value.
\* cause is a ghost: how resolve came to return.
Conclude(r, value, cause) ==
  LET e == req[r].event
      verified == value \in Pubkeys /\ value = e.pubkey
  IN  /\ Say(e, CASE value \notin Pubkeys -> IF lastWasRateLimited' THEN "rate-limited"
                                             ELSE "unresolved"
                  [] verified -> "accept"
                  [] OTHER -> "pubkey-mismatch", cause)
      /\ verifiedAuthors' = IF verified
                            THEN [verifiedAuthors EXCEPT ![e.pubkey] = Fresh(TRUE, CACHE_TTL)]
                            ELSE verifiedAuthors
      /\ Becomes(r, Idle)

(***************************************************************************)
(* A line arrives: the handler runs until it replies or first waits.       *)
(***************************************************************************)
\* The beginning of resolve: a cached answer returns at the next turn, a
\* missing one asks the rate limiter for a token.
Resolve(r, e) ==
  LET cached == resolverCache[e.nip05]
  IN  /\ lastWasRateLimited' = FALSE
      /\ Becomes(r, IF cached # NoEntry
                    THEN [pc |-> "hit", event |-> e, value |-> cached.value, age |-> 0]
                    ELSE [pc |-> "waiting", event |-> e, value |-> Null, age |-> 0])
      /\ said' = Silent

\* Not an event of type "new" with an id and an author.
LineUnfit(e) ==
  /\ e.shape # "event"
  /\ Say(e, IF e.shape = "not-new" THEN "accept" ELSE e.shape, "none")
  /\ UNCHANGED <<req, lastWasRateLimited, loaderVars>>

LineRules(e) ==
  /\ e.shape = "event" /\ IsRulesEvent(e)
  /\ Offer(e.doc)
  /\ Say(e, RulesEventVerdict(e), "none")
  /\ UNCHANGED <<req, lastWasRateLimited, file>>

LineMetadata(r, e) ==
  /\ e.shape = "event" /\ e.kind = 0
  /\ IF MetadataVerdict(e) = "resolve" THEN Resolve(r, e)
     ELSE Say(e, MetadataVerdict(e), "none") /\ UNCHANGED <<req, lastWasRateLimited>>
  /\ UNCHANGED loaderVars

LineOrdinary(e) ==
  /\ e.shape = "event" /\ e.kind # 0 /\ ~IsRulesEvent(e)
  /\ Say(e, OrdinaryVerdict(e), "none")
  /\ UNCHANGED <<req, lastWasRateLimited, loaderVars>>

Line(r, e) ==
  /\ req[r].pc = "idle"
  /\ LineUnfit(e) \/ LineRules(e) \/ LineMetadata(r, e) \/ LineOrdinary(e)
  /\ UNCHANGED <<config, chain, since, resolverCache, verifiedAuthors, older>>

(***************************************************************************)
(* resolve goes on.                                                        *)
(***************************************************************************)
\* Mutant of Resume: a cache hit renews the entry.
ResumeRenewing(r) ==
  /\ req[r].pc = "hit"
  /\ resolverCache' = [resolverCache EXCEPT
                         ![req[r].event.nip05] = Fresh(req[r].value, CACHE_TTL)]
  /\ UNCHANGED <<config, chain, since, older, lastWasRateLimited, loaderVars>>
  /\ Conclude(r, req[r].value, "cached")

\* The turn after a cache hit.  Until then only the lines of the same chunk
\* of input are read, and a limiter that does not queue can refuse them.
Resume(r) ==
  /\ req[r].pc = "hit"
  /\ UNCHANGED <<config, chain, since, resolverCache, older, lastWasRateLimited, loaderVars>>
  /\ Conclude(r, req[r].value, "cached")

Turning == \E r \in Reqs : req[r].pc = "hit"

Granted(r) ==
  /\ req[r].pc = "waiting"
  /\ Becomes(r, [req[r] EXCEPT !.pc = "looking"])
  /\ said' = Silent
  /\ UNCHANGED <<config, chain, since, resolverCache, verifiedAuthors, older,
                 lastWasRateLimited, loaderVars>>

Refused(r) ==
  /\ req[r].pc = "waiting"
  /\ lastWasRateLimited' = TRUE
  /\ Conclude(r, Null, "refused")
  /\ UNCHANGED <<config, chain, since, resolverCache, older, loaderVars>>

\* External: the server reads the name.
Fetch(r) ==
  /\ req[r].pc = "looking"
  /\ Becomes(r, [req[r] EXCEPT !.pc = "fetched", !.value = chain[req[r].event.nip05]])
  /\ said' = Silent
  /\ UNCHANGED <<config, chain, since, resolverCache, verifiedAuthors, older,
                 lastWasRateLimited, loaderVars>>

\* Mutant of TtlOf: a hiccup is cached like an answer.
TtlOfAny(record) == CACHE_TTL

\* A cache made with a time to live of 0 never looks at expiry times.
TtlOf(record) == IF CACHE_TTL # 0 /\ record = Missing THEN NEG_TTL ELSE CACHE_TTL

Extracted(record) == IF record \in Pubkeys THEN record ELSE Null

(***************************************************************************)
(* The file of resolverCache.  An entry that is replaced or evicted stays  *)
(* in it for a while, and a later start may find it instead of the newer   *)
(* one: a line or a row that was to be replaced by a write that failed, or *)
(* a copy that the other cache on the log has replayed at its start and    *)
(* dumps in a compaction.                                                  *)
(***************************************************************************)
\* The cache with e behaves like one that had f and forgot it.
Outlives(f, e) ==
  /\ f # e /\ f.value = e.value
  /\ f.left = Forever \/ (e.left # Forever /\ e.left <= f.left)

\* What the file may bring back of i, besides the entry there is now.
Remains(i) ==
  LET present == {resolverCache'[i]} \ {NoEntry}
      past    == (older[i] \cup {resolverCache[i]}) \ ({NoEntry} \cup present)
  IN  {e \in past : \A f \in past \cup present : ~Outlives(f, e)}

FileKeeps == older' = [i \in Ids |-> Remains(i)]

\* What a start may find of i.
Found(i) == {NoEntry, resolverCache[i]} \cup older[i]

Replayed ==
  \E found \in [Ids -> UNION {Found(i) : i \in Ids}] :
    /\ \A i \in Ids : found[i] \in Found(i)
    /\ resolverCache' = found

Answer(r) ==
  LET e == req[r].event
      record == req[r].value
  IN  /\ req[r].pc = "fetched" /\ ~Turning
      /\ resolverCache' = [resolverCache EXCEPT
                             ![e.nip05] = Fresh(Extracted(record), TtlOf(record))]
      /\ FileKeeps
      /\ UNCHANGED <<config, chain, since, lastWasRateLimited, loaderVars>>
      /\ Conclude(r, Extracted(record), "looked-up")

\* nameShow throws: every attempt failed, or the name has expired.
LookupFails(r) ==
  /\ req[r].pc \in {"looking", "fetched"} /\ ~Turning
  /\ UNCHANGED <<config, chain, since, resolverCache, older, lastWasRateLimited, loaderVars>>
  /\ Conclude(r, Null, "failed")

(***************************************************************************)
(* The environment.                                                        *)
(***************************************************************************)
\* A full cache forgets an entry (2000 identifiers, 20000 authors).
Forget ==
  /\ \/ /\ \E i \in Ids : resolverCache[i] # NoEntry
                          /\ resolverCache' = Without(resolverCache, {i})
        /\ UNCHANGED verifiedAuthors
     \/ /\ \E p \in Pubkeys : Verified(p) /\ verifiedAuthors' = Without(verifiedAuthors, {p})
        /\ UNCHANGED resolverCache
  /\ FileKeeps
  /\ said' = Silent
  /\ UNCHANGED <<config, chain, since, req, lastWasRateLimited, loaderVars>>

\* External: the name is updated, expires or is registered again, which
\* matters where names are looked up.
Update(i, record) ==
  /\ config.client
  /\ record # chain[i]
  /\ chain' = [chain EXCEPT ![i] = record]
  /\ since' = [since EXCEPT ![i][record] = 0]
  /\ said' = Silent
  /\ UNCHANGED <<config, resolverCache, verifiedAuthors, older, req, lastWasRateLimited,
                 loaderVars>>

Older(v, age) == IF age < OLD(v) THEN age + 1 ELSE OLD(v)

Tick ==
  /\ ~Turning
  /\ \A r \in Reqs : req[r].pc = "fetched" => req[r].age < LOOKUP_MS
  /\ req' = [r \in Reqs |-> IF req[r].pc = "fetched"
                            THEN [req[r] EXCEPT !.age = @ + 1] ELSE req[r]]
  /\ since' = [i \in Ids |-> [v \in Records |->
                 IF chain[i] = v THEN 0 ELSE Older(v, since[i][v])]]
  /\ resolverCache' = [i \in Ids |-> Aged(resolverCache[i])]
  /\ verifiedAuthors' = [p \in Pubkeys |-> Aged(verifiedAuthors[p])]
  /\ older' = [i \in Ids |-> {Aged(e) : e \in older[i]} \ {NoEntry}]
  /\ said' = Silent
  /\ UNCHANGED <<config, chain, lastWasRateLimited, loaderVars>>

\* The rules file is replaced, or read again.
RulesFile ==
  /\ config.nip9a /\ ~Turning
  /\ WriteFile \/ LoadFile
  /\ said' = Silent
  /\ UNCHANGED <<config, chain, since, resolverCache, verifiedAuthors, older, req,
                 lastWasRateLimited>>

\* The input ends, or the process dies: replies that are due are never
\* written.  strfry starts the plugin again, with what the files bring back.
Exit ==
  /\ Restart
  /\ Replayed /\ FileKeeps
  /\ \E lost \in SUBSET Pubkeys : verifiedAuthors' = Without(verifiedAuthors, lost)
  /\ req' = [r \in Reqs |-> Idle]
  /\ lastWasRateLimited' = FALSE
  /\ said' = Silent
  /\ UNCHANGED <<config, chain, since>>

Next ==
  \/ \E r \in Reqs : \/ \E e \in Traffic(config) : Line(r, e)
                     \/ Resume(r) \/ Granted(r) \/ Refused(r)
                     \/ Fetch(r) \/ Answer(r) \/ LookupFails(r)
  \/ \E i \in Ids, record \in Records : Update(i, record)
  \/ Forget \/ Tick \/ RulesFile \/ Exit

Spec == Init /\ [][Next]_vars

-----------------------------------------------------------------------------
(* Properties.  said is the reply of the step that led to a state. *)

Accepts(e) == said.reply = "accept" /\ said.event = e

\* An accepted kind:0 event has a Namecoin identifier that the chain mapped
\* to its author less long ago than an answer of the server and its cache
\* entry can live, however many lookups of the identifier overlap, whatever
\* order they are answered in, and however the name changes meanwhile.  (The
\* bound is strict: an entry is gone at the instant it expires, src/src/cache.js:27.)
IdentityIsRecent ==
  \A e \in Events :
    Accepts(e) /\ e.shape = "event" /\ e.kind = 0 /\ e.nip05 \in Ids /\ config.client
      => since[e.nip05][e.pubkey] < CACHE_TTL + LOOKUP_MS

\* In mode all-kinds-require-bit nobody posts anything but kind:0 unless some
\* name was his less long ago than that and the life of one more cache entry,
\* the one that remembers verified authors: entries set from cached answers
\* do not add up.
AuthorIsRecent ==
  \A e \in Events :
    (Accepts(e) /\ e.shape = "event" /\ e.kind # 0 /\ config.mode = "all-kinds-require-bit")
      => \E i \in Ids : since[i][e.pubkey] < 2 * CACHE_TTL + LOOKUP_MS

\* A name is called unresolved only if its lookup has just failed, or if it
\* was in this state less long ago than the entry for such an answer lives:
\* a missing or malformed record is forgotten after the short time to live.
\* (A time to live of 0 is the lack of one.  The state has its type throughout.)
NegativeIsRecent ==
  /\ TypeOK
  /\ (CACHE_TTL > 0 /\ NEG_TTL > 0 /\ said.reply = "unresolved" /\ said.cause # "failed")
    => \/ since[said.event.nip05][Missing] < NEG_TTL + LOOKUP_MS
       \/ since[said.event.nip05][NoKey] < CACHE_TTL + LOOKUP_MS

\* The rules that bind an accepted event are those of the newest document
\* that was offered since the start: replaying an older document, or losing
\* the file, does not bring back what it allowed.
NewestRulesHold ==
  \A e \in Events, d \in Docs :
    (/\ Accepts(e) /\ e.shape = "event" /\ e.kind # 0 /\ ~IsRulesEvent(e)
     /\ config.nip9a /\ NoTies /\ Picked(NewestPerKey, d))
      => Violation(d, Context(e)) = Absent

=============================================================================
