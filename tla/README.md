# strfry-namecoin-policy: TLA+ models, checks and proofs

strfry-namecoin-policy is a write policy for the strfry relay. strfry starts
it as a child process, writes one event per line to its standard input and
reads one verdict per line. For events that claim a Namecoin identity
(`kind:0` with a `.bit` NIP-05) it looks the name up at ElectrumX servers; for
all others it may require a verified author and the rules of a NIP-9B document.

This directory models the parts of it that carry state: what happens when
lookups, lines, timers, replies and rules documents overlap, fail and arrive in
an unfortunate order. Source references are relative to `src/` of the package
unless they begin with `README.md`.

## 1. Inventory

One process, one thread, one event loop. Concurrency is between asynchronous
functions: everything between two `await`s is atomic, everything across one is
not. Several lines are handled at once (`index.js` starts a handler per line
and does not wait for it), several lookups share every object below.

| component | state | operations | used by |
|---|---|---|---|
| event handler and loop, `index.js` | verified authors (LRU cache), exit flag | handle a line, reply, exit at the end of the input | strfry |
| resolver, `resolver.js` | identity cache, `lastWasRateLimited` | `resolve` | handler |
| cache, `cache.js` | a `Map` in order of use, expiry per entry | `get has set delete clear` | resolver, handler |
| persistent cache, `persistent-cache.js` | the same, and a SQLite table or a log with its append handle | `get set delete clear`, replay, append, compaction | resolver, handler |
| rate limiter, `ratelimit.js` | tokens, time of the last refill | `tryAcquire`, `acquire` | resolver |
| retry loop, `electrumx.js` (`nameShow`) | attempt number, backoff | pick a host, query, record, back off, throw | resolver |
| circuit breaker, `circuit.js` | state, cooldown and probe slot per host, round-robin cursor | `pickNext recordSuccess recordFailure` | retry loop |
| connection pool, `electrumx.js` (`PooledConnection`) | connection per host, pending calls, idle timer | request, connect, call, kill, close | retry loop |
| history walk, `electrumx.js` (`runResolve`, `selectNameRowFromHistory`) | the cached chain tip, one for all | history, tip, filter, walk, expiry | connection |
| dialling, `connect.js`, `socks5.js` | the sockets of a race, timers, the parser of a proxy's replies | happy eyeballs, TLS, SOCKS5 | connection |
| dedicated connection, `electrumx.js` (`_queryDedicated`) | one socket, a timeout | dial, query, close | retry loop |
| names and records, `resolver.js`, `electrumx.js` | none | parse an identifier, build and read name scripts, find the key in a record | resolver, history walk |
| rules loader, `nip9a-loader.js` | newest document per author and tag, the one in force, file watcher | `offer`, `start`, reload | handler |
| rules parser and validator, `nip9a-parser.js`, `nip9a-validator.js` | none | `parseRulesEvent`, `pickActiveRules`, `validate` | loader, handler |
| pins, configuration, metrics | none that a decision reads later | | |

How they interact. A `kind:0` line asks the resolver; the resolver asks its
cache, then the rate limiter, then `nameShow`; that picks a host from the
breaker, queries it over the pool or a connection of its own, and records the
outcome. The answer is cached by the resolver, and the author it proves is
remembered by the handler. A rules line is offered to the loader, which also
reads a file. Every other line asks the two of them only about what they hold.

What is hard, and the property that makes each component correct:

* **Breaker and retries.** Lookups move one cursor and one state per host, and
  record outcomes for hosts whose state others have changed since. There must
  be one probe per half-open host; a taken probe slot must be given back; a
  lookup must not be led to dead hosts only; no host may be excluded for good.
* **Rate limiter.** Lazy refills by whoever looks, callers that poll. Over any
  stretch of time it must grant at most the burst plus what was earned; it must
  lose nothing that was earned; nobody waits much longer than allowed.
* **Caches.** The order of the `Map` must be the order of use, expired entries
  must never be answered, the entry just set must stay.
* **Persistent cache.** A log whose writes may fail or be torn, rewritten by
  a rename, read again after a kill. Nothing may outlive its time, no older
  value may come back, and what was kept must be there after a restart.
* **Resolver and handler.** Overlapping lookups of one identifier answered out
  of order; caches that feed caches. An accepted identity must be recent.
* **Rules.** Documents come from a stream and a file, repeated and reordered.
  Older rules must never replace newer ones, and what is in force must not
  depend on the order of arrival.
* **History walk.** One cached tip written by overlapping lookups at different
  servers decides confirmations and expiry.
* **Pool.** Replies, timeouts, kills and closes race for each call, on the
  microtask queue. Each lookup must be woken exactly once.
* **Dialling.** Attempts, DNS, TLS and proxy race with each other and with three
  timers. A dial must end, must not fail while an address would have done, and
  must leave no socket open; a proxy's bytes must not get into the tunnel.
* **Names and records.** What an identifier resolves to must be what the
  record of exactly that name grants it.

`PROJECT.json` lists every component with what is modelled of it, and under
`hazards` each place in the code where one of these can go wrong.

## 2. Modules

| module | models | state |
|---|---|---|
| `HostBreaker` | `circuit.js` | `state`, `cursor` |
| `NameShow` (extends it) | the attempt loop of `nameShow`, concurrent callers | `call`, `weather` |
| `TokenBucket` | `ratelimit.js` | `tokens`, `accrued`, `acq` |
| `CacheEntries`, `TtlCache` | what a cache promises: the abstract specification | `entry`, `answer` |
| `LRUCache` | `cache.js`, shown to implement `TtlCache` | `store`, `order` |
| `PersistentLRU` | `persistent-cache.js` in the deployments of `makeCache` | `hot`, `log`, `handle`, `writes`, `rows` |
| `RulesDocument` | parsing of documents and `validate`, operators only | |
| `RulesTags` | builds documents tag by tag and judges events by them | `tags` |
| `NameScript` | pushes, name scripts, transactions, operators only | |
| `Resolution` (extends it) | identifiers and records; writes a transaction output by output and resolves on it | `vout`, `lookup` |
| `Inputs` | both of what strangers write, documents and transactions | |
| `RulesLoader` | `nip9a-loader.js`, `pickActiveRules` | `rulesByKey`, `active`, `file` |
| `Policy` (extends `RulesLoader`, `RulesDocument`, `CacheEntries`) | handler, resolver, both caches and what their files bring back, loader | `req`, caches, `older`, `chain`, `said` |
| `HistoryWalk` | `runResolve`, `selectNameRowFromHistory`, tip cache | `cachedTip`, `lookup`, the chain |
| `ConnectionPool` | `_queryPooled`, `PooledConnection`, microtask queue | `pool`, `conn`, `caller`, `turns` |
| `Socks5` | `socks5.js` and what follows it on the socket | `sent`, `got`, `stage`, `leftover`, `handed` |
| `Dial` (extends it) | `connect.js`, the start and the end of `_queryDedicated` | `sock`, `dial`, `stagger`, `query` |
| `NameShowProofs`, `LRUCacheProofs`, `PersistentLRUProofs`, `HistoryWalkProofs`, `ConnectionPoolProofs`, `DialProofs` (with `Socks5`) | theorems about the module named | |
| `PolicyProofs` | theorems about `RulesLoader`, `RulesTags` and `Policy` | |
| `ResolverProofs` | theorems about what a lookup is made of: `TokenBucket`, `NameScript`, `Resolution`, `Inputs` | |

`MC*` modules hold the small instances for TLC; each `.cfg` is one run.
Operators whose comment begins with "Mutant of" are deliberately wrong forms of
the operator that follows; a run of each, in place of the right one, violates
the property it is listed with in `PROJECT.json`, which shows that the property
can tell the difference.

How the code corresponds to the models:

* **One action per stretch of code between two awaits.** `Attempt` is
  `pickNext` and the start of the query; `Fail` is `recordFailure` and the
  decision to sleep or to throw. `Line` is a whole handler up to its reply or
  its first `await`, with the `offer` of a rules event inside.
* **Time.** Absolute times are replaced by ages: time since a host opened, time
  an entry has left, age of the cached tip. Ages saturate where the code stops
  telling them apart, so that behaviours are unbounded in time over finitely
  many states. `Tick` is one unit; it waits for what cannot be later than a
  known bound (a query's timeout, a request's timeout, `LAG_MS` of a timer).
* **Exact arithmetic.** Tokens are counted in units (a token is `TOKEN` of
  them, one unit of time earns `RPS`), where the code uses floating point.
* **Queries** of `NameShow` end as the environment `weather` allows: hosts that
  never fail, hosts that never answer, definitive errors or none.
* **The chain** of `HistoryWalk` and of `Policy`, and the servers, are external
  and marked so in `PROJECT.json`.
* **Microtasks.** In `ConnectionPool` a settled promise does not run its
  awaiter at once. `turns` is the queue, each entry with the number of hops it
  still needs; sockets and timers act when it is empty, except that one chunk
  of data may hold several replies.
* **The disk.** The log is a sequence of lines; a torn line swallows the next.
  Every call of the file system may fail, where the code catches it. A handle
  is open, of a file that was renamed away (`orphan`), or closed; a line
  written to a closed handle is lost, or goes to whatever file has its number
  by then. `Restart` is an end of the process anywhere between two operations;
  a kill within a compaction leaves the old log, like its first way to fail.
* **Sockets** of a dial are records of their state and of when they were made.
  Addresses that accept do so within `LATENCY_MS`; others fail at any time or
  never. A proxy's bytes are numbered, so that a byte lost, repeated or out of
  place shows.
* **Names** are sequences of character codes and scripts sequences of bytes;
  the two `ascii` conversions of Node, which keep the low byte on the way out
  and drop the high bit on the way in, are modelled as they are. JSON is not:
  a document is a record of the fields that are read, and takes a number of
  bytes.
* **Composition.** `Policy` uses the caches by their promise: an entry is there
  until its time is up or it is forgotten. That `cache.js` keeps this promise
  is the refinement `Implements` of `LRUCache`; that the policy asks no more of
  it, while the process runs, is `CachesAreAsPromised`; there the Map of
  `persistent-cache.js` is written as that of `cache.js` is. Over a restart
  `Policy` relies on `NoRevival` alone, which is proved for every deployment,
  the log that `index.js` shares between two caches and failing writes included:
  what a start finds was stored once, and its time is not up. So each key has
  after an `Exit` nothing, what it had last, or any older entry that still has
  time (`older`, `Found`). An older entry with the value of another that ends
  later need not be kept: it is like that one, forgotten. For the same reason
  the verified authors, of which there is one value, need no older entries.
  The dial is to `ConnectionPool` the action `Connected` or `ConnectFails`
  (`DialEnds`); `Resolution` is to `HistoryWalk` whether a transaction is an
  update of the name, and to `Policy` what a record says. Likewise `NameShow` is to
  `Policy` a lookup that takes at most `LOOKUP_MS` from the server's reading of
  a name, and the pool and the walk are to `NameShow` an attempt that ends
  within `ATTEMPT_MS`.

## 3. Runs

Ten runs pass; two show a disagreement between code and documentation.

| run | instance | what it shows |
|---|---|---|
| `NameShow_live` | 2 hosts, 2 lookups, 2 attempts, cooldown 5 to 10, attempts up to 2; hosts flap, or one is up and the other down and names expire | `SingleProbe`, `ProbeSlotHeld`, `SurvivesDownHosts`; under fairness `EveryHostTried`, `EveryCallEnds` |
| `TokenBucket_race` | 3 callers, burst of two tokens, a token in 3 units of time, queue 4, timers up to 1 late | `RateBound`, `WaitBound`, `RefusedOnlyIfOutbid`; under fairness `EveryAcquireReturns` |
| `LRUCache_promise` | 3 keys, capacity 2, 2 values, lives 0, 1, 2 | `MapOrder`, `EvictsLeastRecent`, `Implements` |
| `PersistentLRU_disk` | the two caches on a table; one cache on a log; 3 keys, capacity 1, compaction after 2 writes, log of up to 3 lines | `NoRevival`, `LatestWins`, `RestartKeeps` |
| `RulesLoader_many` | 7 documents of 3 keys and a malformed one, ratchets, a tie in time | `NoRollback`, `OrderIndependent`, `LiftedOnlyByRatchet` |
| `Inputs` | every document of up to 4 of 15 tags, 5 events; every transaction of up to 2 outputs, records of 20, 75, 76, 255 and 256 bytes, 18 identifiers | `OrderOfTagsIsIrrelevant`, `DenyIsFinal`, `AllowOnlyPassesGates`; `ValueIsTheOwners`, `KeyIsGranted` |
| `Policy_lines` | 2 lines at a time, 1 name, 2 keys, lives 2 and 1, lookups up to 1, restarts that bring back older entries; a second deployment with 4 documents of the community, 3 foreign, rules required or not | `IdentityIsRecent`, `AuthorIsRecent`, `NegativeIsRecent`, `NewestRulesHold` |
| `HistoryWalk_served` | 2 lookups, chain of 3 blocks, 2 confirmations, walk of 2, expiry after 2, tip cached for 2; tips and transactions may be refused | `TipIsNotBehindItsStamp`, `UpdateIsServedInTime`, `ExpiryIsInTime`, `ServedIsConfirmed` |
| `ConnectionPool_wakes` | 2 lookups of up to 3 calls, 2 connection objects, 2 replies in a chunk, close | `OneWake`, `OneLiveConnection`; under fairness `RequestEnds` |
| `Dial_race` | lists of up to 4 addresses of both families that accept or do not, 6 proxies, 12 modes; delay 1, latency 1, timeout 4, tunnel of 2 bytes | `NoSocketLeft`, `EitherFamilyWillDo`, `TunnelIntact`; under fairness `DialEnds` |
| `NameShow_leak` | 2 hosts, 1 lookup, 1 attempt, definitive errors | violates `EveryHostTried` |
| `PersistentLRU_shared` | the two caches on one log, capacity 2 | violates `RestartKeeps` |

Why the bounds are enough. The hazards are races of two: two lookups for one
probe, one cached tip, one connection, one cache entry. Two actors show each,
and a third is there where somebody must profit from a race of two others (the
rate limiter). Durations are chosen so that each comparison of the code comes
out both ways: a cooldown doubles once and reaches its cap; a cooldown outlasts
a lookup (which is what `SurvivesDownHosts` needs, as the 30 s of the code
outlast two attempts of 5 s and their sleeps); a queue time is not a multiple of
the time a token takes; a cached tip is younger and older than its life; a name
expires within the chain; a dead address costs its delay, and the other one
still has its latency before the timeout. Capacity 1 makes every second key
evict, and with a compaction after two writes a log of three lines holds an old
value, a new one and a deletion, or two of them and a torn line. The lengths of
`Inputs` are those at which the encoding of a push changes, and the length of
a rand, one less and one more; 65536 and beyond is in the model but in no
run (a value on the chain has at most 520 bytes). `MAX_HEIGHT`, `MAX_CALLS` and `MAX_CHUNK` bound the
chain, the calls of a lookup and the replies in a chunk, `MAX_TAGS`,
`MAX_VOUT`, `MAX_LOG`, `MAX_ADDRESSES` and `MAX_TUNNEL` what their names say;
nothing else is cut off. `Conns` are connection objects that are reused once nothing refers to
them.

Fairness, and why the code has it:

* `NameShow`, `BusySpec`: timers fire (`Tick`, `Retry`), each query ends by its
  answer or its timeout (`Settle`, weakly fair as a whole: *how* it ends is left
  to the environment), and the relay keeps asking (`Start`). The last is an
  assumption about the load, which `EveryHostTried` needs, since nothing but a
  lookup ever wakes a host.
* `TokenBucket`, `FairSpec`: time passes and the timer of each sleep fires. No
  caller is promised a token.
* `ConnectionPool`, `FairSpec`: microtasks run (weak). Timers, and sockets that
  come up or fail, are strongly fair, because the microtask queue disables them
  again and again; Node serves due timers between any two chunks of data.
  Replies are not fair: a server may never answer.
* `Dial`, `FairSpec`: time passes, timers fire when they are due, a connection
  to an address that accepts is made, `setImmediate` runs. DNS, the proxy, TLS
  and the far end owe nothing; the dial ends by its timers.

## 4. What is proved

Checked by TLAPS for every value of the constants that satisfies the
assumptions below: any number of hosts, lookups, callers, keys, caches, lines,
documents and addresses, any durations. `PROJECT.json` lists the theorems; every
safety property of section 3 has one. Each inductive invariant was checked by
TLC on the instance of its run before it was proved.

What is assumed of the constants:

* The named assumptions of the modules. `BreakerAssumption`,
  `NameShowAssumption`, `TokenBucketAssumption`, `LRUAssumption`,
  `HistoryAssumption`, `PoolAssumption`, `SocksAssumption`, `DialAssumption`,
  `PolicyAssumption` and `PersistentAssumption` say that durations, counts and
  capacities are natural numbers, positive where `config.js` or a constant of
  the code makes them so, and that the values for "nothing" are not among the
  values. `PoolAssumption` adds that there are finitely many lookups, and that
  the handshake has less time than the request (2 s and 5 s in the code). `RulesAssumption`, `AddressAssumption` and `TrafficAssumption` give
  documents, addresses and events the fields the code reads; `TagsAssumption`,
  `NullAssumption` and `AnswersAssumption` say that `null` is no string, number
  or result, and no key one of the other outcomes. `OutputsAssumption` says what
  the abstraction of JSON needs: the bytes of a document tell which document it
  is, and those of a rand are no document; names in the index are ASCII
  (section 5), and pushes have lengths of at most four bytes.
* Hypotheses of single theorems, where the code leaves something to its
  configuration or to its environment:
  `\A w \in Weathers : ~w.definitive` (`ProbeSlotIsHeld`; `NameShow_leak` shows
  what happens otherwise);
  `ATTEMPT_MS < INITIAL_COOLDOWN_MS` (`OneProbeAtATime`: 5 s against 30 s, for a
  dedicated connection; a pooled attempt is bounded call by call, see section 5);
  `CooldownOutlasts` (`LookupsSurviveDownHosts`: all attempts but the last, with
  their sleeps, take less than the first cooldown; for dedicated connections as
  above);
  `TtlsAgree` (`CacheKeepsItsPromise`: a cache without a time to live of its own
  is given no entry with one, since its `get` would not look);
  `EntriesExpire` (the identity and author theorems: `CACHE_TTL > 0`, as nothing
  is recent where an entry lasts for ever);
  `OneAtATime` (`AcceptedObeysNewestRules`: a community is configured, or no two
  documents of different ones have the same time; otherwise either is picked);
  `OneCachePerLog` and `KeysApart` (`LatestAlwaysWins`, `RestartLosesNothing`): a
  log has one cache, and the caches of a table have no key in common. The second
  holds (an author is 64 hex digits, an identity has a `|`). The first does not
  hold of `index.js` without SQLite, which gives one log to two caches: both
  conclusions fail there (section 5), and `NothingIsRevived`, which needs
  neither hypothesis, is what remains.

**Breaker and retries** (`NameShowProofs`).
`ProbeSlotHeld` is inductive with the type invariant: only a pick sets the flag,
and the lookup that set it keeps probing until it records an outcome, which
clears it. `SingleProbe` is not: another lookup's late failure may re-open a
host while it is being probed, and once that cools down the host is half-open
again with its slot free. `ProbeIInv` adds that a host with a probe in flight is
either half-open with its slot taken, or open for no longer than the probe is
old; as the probe is younger than the shortest cooldown such a host cannot be
woken (`HostOfProbeNotCooled`). `SurvivesDownHosts` needs a count: `DownIInv`
gives each lookup a set of hosts that failed it (`OutOfTheWay`), as many as its
failed attempts, all of them open for no longer than the lookup is old. Those
are skipped, so each failure adds a new one, and there is one host fewer than
attempts that can fail.

**Rate limiter** (`ResolverProofs`). `RateIInv`: the largest excess of any
stretch of time that ends now, and what the bucket holds when refilled, share
the capacity; a grant moves a token from one to the other, time moves at most
what it earns. `WaitIInv`: a sleep ends at the deadline or is the shortest there
is, and no timer is later than `LAG_MS`. `OutbidIInv`: who sleeps has found less
than a token; what was earned since its call is still in the bucket or went to
others, and the bucket will not be full before the caller looks again.

**Cache** (`LRUCacheProofs`). `MapOrder` is inductive through `Lists`: the queue
lists each stored key once, in the order of last use. With it the key that a
`set` evicts was used before as many other keys as the cache holds
(`EvictsLeastRecent`). The refinement maps `Init` to `Init`, each operation to
the operation of `TtlCache` of the same name, with the eviction in it as a loss,
and the rest to a stutter; `NoneExpires` is the invariant it needs.

**Persistent cache** (`PersistentLRUProofs`). What is held is in three places, in
memory, in the lines of the log and in the table. `HeldWasGiven` bounds all of
them at once: whatever is held and live was given with at least that much time.
It is inductive because a compaction, a replay and a hydration only move entries
from one place to another (`From`). `LatestWins` and `RestartKeeps` follow from
`DiskIsCurrent`: while no write has failed, what stands in the log (live lines
that no later line replaces, `Kept`) is among what was set last and contains
what is in memory. `ReplayedIs` shows that the replay returns just that, by a
smallest counterexample over the lines. `AtHome` says which cache holds what.

**Rules** (`PolicyProofs`). `NoRollback` is not inductive, since rules may be
lifted by a ratchet and come back; `RollbackIInv` adds that some candidate is as
new as anything that was in force, and that what is in force is the newest.
`OrderIndependent` follows from `NewestAreKept`: per key the candidate is the
newest document offered, and what is in force is the pick of the candidates, a
function of what was offered. `OnlyARatchetLifts` is an action property on the
same invariant.

**Documents** (`PolicyProofs`). The parser is a loop over tags: `NamedIs` and
`NamedMore` say which tags it keeps and what one tag more adds. `JudgedIs` says
that the verdict is that of the first of seven checks that fails, each of them a
statement about the *set* of tags (who is denied, who is listed) or about the
one tag that counts. From there `DenyIsFinal` and `AllowOnlyPassesGates` compare
the checks before and after a tag, and `OrderOfTagsIsIrrelevant` needs that a
permutation has the same set, and that where no tag overrides another the one
that counts is the only one.

**Policy** (`PolicyProofs`). `PluginRunsTheLoader`: every step of the handler is
a step of the loader or leaves it alone, so that what is proved of the loader
holds in the plugin. `PolicyInv` follows an answer through its life: a fetched
value is as old as its lookup (`HandlerOK`), a cached one at most `CACHE_TTL`
less what it has left, and one lookup (`AsOf`), a verified author that again and
another life (`Known`). `NewestRulesHold` joins the invariant of the loader and
the validator: what is in force is the newest document there is, and a `kind:1`
that is accepted has passed its checks.

The policy and its caches: `CachesAreAsPromised` says that what each step does
to `resolverCache` and to `verifiedAuthors` is a step of `TtlCache` (`EntryNext`),
the module that `LRUCache` is shown to implement: a conclusion stores an entry
with its whole time to live, `Forget` loses some, `Tick` ages all. `Exit` stands
beside them: it may bring an older answer back. `OlderOK`, a part of
`PolicyInv`, says that such an answer is as recent as its time requires, like
one in the cache; it is inductive since replacing, forgetting and bringing back
only move entries between the cache and its file.

**Names** (`ResolverProofs`). `ReadBack`: a push that is read where it was written
gives its data and ends where the next one starts, for every length up to four
bytes and wherever the script is cut after it, by the four forms of its header
(`PushHeader`) and the digits of its length (`LengthRead`). `ScriptIsRead` puts
the pushes of a name script together and says what each script an output can
have is read as: its own name and value, nothing, or, if a push is where it
does not belong, a value that is no document. From there the first output that
counts is the first that carries the name (`ValueInIsTheOwners`), and a key taken
from its document is one that the document grants to the local part
(`ExtractedIs`). `LookupInv` carries this through the
steps of a lookup: what it has in hand at each stage is what the transaction
says. `InputsAreApart` shows that the specification of the run implements those
of documents and of transactions, so that the theorems on either apply to it.

**History walk** (`HistoryWalkProofs`). The tip is one for all, and `TipOf` says
how good it is: not behind the chain of `tipAge` ago. It is inductive with the
same said of the answer each lookup has in hand, and with each history read
being part of the chain (`Read`). The three properties of what is served
(`ServedOK`) are then facts about the walk over such a history with such a tip.

**Pool** (`ConnectionPoolProofs`). `PoolInv` says for every place a lookup can be
at what will wake it: a connection that is connecting, one entry in the
microtask queue, or one pending call, and no other anywhere (`CallerOK`); and of
connections that only a live one has calls, and that the pool holds it
(`ConnOK`).

**Dialling** (`DialProofs`). `SocksInv`: the stage of the parser tells how much it
has taken, and what it has taken and kept are the bytes in order. `DialInv`: the
stage of the dial tells who waits and whether the query can have ended, and once
it is over every socket but the winner's is closed. `RaceInv` follows the first two addresses of the list,
between which each family that DNS listed has a place (`InFront`): the first is
tried at once, the second a delay later, and one that accepts is not later than
its latency; a race that is lost was lost by both families. (Behind a proxy
there are no addresses, and the property says nothing.)

Only model-checked:

* Liveness: `EveryHostTried`, `EveryCallEnds`, `EveryAcquireReturns`,
  `RequestEnds`, `DialEnds`. Fairness and `ENABLED` are out of the prover's
  reach.
* Where the model itself ends: the other correspondences of section 2 under
  "Composition".

## 5. Where code and documentation disagree

Two have a run:

* `NameShow_leak`. A definitive error of a probe is rethrown
  (`electrumx.js:236`) without telling the breaker, so `halfOpenInFlight` stays
  set. The host is skipped for as long as any other host is usable, not "until
  cooldown elapses" (`circuit.js:9`). An expired name is enough.
* `PersistentLRU_shared`. Without SQLite both caches of `index.js:105` append to
  one log (`namespace` is for SQLite only). A compaction writes the entries of
  the cache that does it, renames the new file over the log
  (`persistent-cache.js:189`), and leaves the other with a handle of the removed
  file: what the other has written before, and writes after, is gone at the next
  start. `README.md:276` says that both persist. It is not only loss: each
  cache replays the keys of the other too (`persistent-cache.js:134-158`), and its
  compaction (`persistent-cache.js:175-191`) writes these old copies after the
  newer lines or instead of them. So an answer that was replaced may be back at
  the next start: `LatestWins` fails there as well, though the keys are apart.
  `NoRevival` holds: what comes back was stored once and is within its time.
  `Policy_lines` has such entries come back, and the bounds on age hold.

Others were met while modelling. The models show each of them when the property
is added; no run is kept for them.

* `cache.js:43`: `NAMECOIN_POLICY_NEG_CACHE_TTL_MS=0` is accepted, but a time to
  live of 0 means *no expiry* to `set`: a hiccup is remembered until it is
  evicted, against `resolver.js:277`.
* `electrumx.js:562`: `_scheduleIdle` looks at pending calls only. When two
  replies share a chunk, a lookup that ends sets the idle timer while another is
  between two calls; nothing cancels it, and it kills a connection that is in
  use. `README.md:278` calls it the idle timeout.
* `electrumx.js:276`: a dedicated query whose timeout fires during the TLS
  handshake has no socket to close. The dial goes on, the lookup runs on the
  connected socket for nobody, and nothing closes it but the server.
  `NoSocketLeft` leaves out this case and no other: the query is "abandoned",
  while every query that ends otherwise, with TLS or without, leaves no socket.
* `connect.js:45` calls `timeoutMs` the overall budget; the handshake of TLS
  starts a new one (`connect.js:112`), so a dial takes up to twice that.
* `socks5.js:100`: a chunk is taken for one stage. A proxy that sends the reply
  before it was asked would not be read on until its next chunk; proxies do
  not, and neither does the model's.
* `persistent-cache.js:274`: evicted entries stay in the log until a
  compaction, so that they come back at a restart, in the order of the log and
  not of use. They are among what was answered, within its time (`NoRevival`).
* `persistent-cache.js:168`: the count of writes begins anew at each start. A
  log that is never appended to a thousand times in one life is never compacted.
* `persistent-cache.js:188`: the handle is closed before the rename, and stays
  closed if that fails. Its number may be given to another file or socket, to
  which the next line is then written.
* `resolver.js:144`: a record that is one string grants its key to every local
  part, and so does any record of an `id/` name, while the comment at
  `resolver.js:189` calls it wrong to hand `alice@example.bit` the root's key.
  `KeyIsGranted` excepts both forms.
* `electrumx.js:772`: a name is read with the high bits of its bytes dropped, so
  that a script of another, non-ASCII name may read as the one asked for; it
  counts only if both are in one transaction. The names of `Inputs` are ASCII.
  An identifier with other characters never resolves (`electrumx.js:612` keeps
  their low bytes), which `KeyIsGranted` checks.
* `circuit.js:10` promises one probe slot. If an attempt outlasts the shortest
  cooldown (a pooled attempt is bounded per call, not as a whole) a second
  probe is let in; hence the assumption of `OneProbeAtATime`.
* `README.md:114` says that hosts are tried in list order; the walk begins at
  the round-robin cursor (`circuit.js:69`).
* `README.md:347` advises to rotate two rules documents on disk; the older one
  is refused (`nip9a-loader.js:172`), and of several keys the latest is picked.
* `index.js:279` reads `lastWasRateLimited`, a field of the shared resolver,
  after an `await`: a line may be told of the throttling of another.
* `index.js:233` offers rules events to the loader before the author gate is
  asked; `README.md:325` and `nip9a-loader.js:138` say after.
* `index.js:243`: `kind:0` and rules events return before the rules are looked
  at, so that required rules (`README.md:246`) and `p deny` for any kind
  (`README.md:343`) do not bind them.
* `index.js:299`: soft fail (`README.md:243`) is looked at for `kind:0` only.
* `electrumx.js:849`: a transaction that cannot be fetched is skipped, so that
  an older update may be served, against `electrumx.js:796`.
* `electrumx.js:829`: the cached tip decides confirmations too, not only expiry
  (`electrumx.js:60`); without a tip no confirmation is checked at all
  (`README.md:238`). `ServedIsConfirmed` is stated for lookups with a tip.
* `electrumx.js:828`: a minimum of 0 confirmations does not admit the mempool
  (`README.md:238`).
* `electrumx.js:562`: a lookup that gives up on the handshake leaves a pending
  call, hence no idle timer: the connection stays open unused.
* `electrumx.js:482`: a connection closed while it is connecting takes its
  socket all the same (`electrumx.js:387`: "Close all pooled connections").

* `index.js:186`: lines that wait for a lookup at the end of the input get no
  reply; strfry has closed the pipe by then.

## 6. Not modelled

* Certificate pins are a comparison of digests (a mismatch is one of the ways
  an attempt fails, in `Dial` and `ConnectionPool`); configuration parses
  environment variables into what are constants here; metrics are counters
  that no decision reads; JSON, the hash of a script and the wording of messages
  are abstracted.
* The conversation on a dedicated connection: the same calls as on a pooled one,
  without sharing. `Dial` has its end.
* In `Policy`, a write to the cache file that fails (`PersistentLRU` has it, and
  `NoRevival` says that what comes back has not outlived its time).
* The persistent cache with a default time to live of 0, the loss of committed
  rows or of a rename by power loss (`synchronous = NORMAL` allows the first),
  and a log that somebody else writes.
* Reorganisations of the chain, two updates of a name in one block (the first of
  the two, the older, is served: `electrumx.js:838`), a wall clock that is set
  back, documents without an author.

## 7. Plan

Done, in this order: breaker and retries; rate limiter; cache and its promise;
rules documents and loader; the policy that composes them; history walk; pool;
persistent cache; dialling and SOCKS5; names and records; the theorems of
section 4. What could follow:

1. A wall clock that is set back, as an action of the environment of
   `TokenBucket`, and two updates in one block in `HistoryWalk`.
2. Cache files in `Policy` that miss writes, so that an older entry of a name is
   beside a newer one of its author after a restart.
