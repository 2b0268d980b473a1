------------------------------ MODULE NameShow ------------------------------
(***************************************************************************)
(* ElectrumXClient.nameShow (src/src/electrumx.js): several name lookups   *)
(* run concurrently on one event loop; each makes up to RETRIES + 1        *)
(* attempts, every attempt on the host the shared breaker picks, with a    *)
(* growing backoff between attempts.  The query of one attempt             *)
(* (_queryOnHost) is abstracted to how it can end: an answer, a failure    *)
(* that counts against the host, or a definitive error; it ends within     *)
(* ATTEMPT_MS (the per-query timeout).                                     *)
(*                                                                         *)
(* The code between two awaits is one action: pickNext together with the   *)
(* start of the attempt, the recording of its outcome together with the    *)
(* decision to return, throw or sleep.                                     *)
(***************************************************************************)
EXTENDS HostBreaker

CONSTANTS Callers,      \* concurrent lookups
          RETRIES,      \* attempts after the first
          ATTEMPT_MS,   \* longest an attempt lasts
          BACKOFF_MS,   \* unit of the backoff (150 in the code)
          Weathers      \* the environments to consider, see weather

ASSUME NameShowAssumption ==
  /\ RETRIES \in Nat
  /\ ATTEMPT_MS \in Nat \ {0}
  /\ BACKOFF_MS \in Nat
  /\ Weathers \subseteq
       [up         : SUBSET Hosts,   \* hosts that never fail a query
        down       : SUBSET Hosts,   \* hosts that never answer one
        definitive : BOOLEAN]        \* may a query end in a definitive error?

VARIABLES call,      \* per lookup: where it is in the attempt loop
          weather    \* what becomes of queries, fixed

vars == <<state, cursor, call, weather>>

InProgress == {"query", "backoff"}
Outcomes   == {"idle", "returned", "thrown", "definitive"}

Call == [pc      : InProgress \cup Outcomes,
         attempt : 0..RETRIES,
         host    : Hosts,
         age     : Nat,        \* time since the attempt, or the sleep, began
         probe   : BOOLEAN]    \* the attempt took the half-open slot (ghost)

\* A lookup that is over, or not begun: what it no longer reads is reset.
Ended(outcome) ==
  [pc |-> outcome, attempt |-> 0, host |-> 0, age |-> 0, probe |-> FALSE]

CallTypeOK ==
  /\ call \in [Callers -> Call]
  /\ \A c \in Callers : call[c].pc = "backoff" => call[c].attempt < RETRIES

TypeOK == BreakerTypeOK /\ CallTypeOK /\ weather \in Weathers

Init ==
  /\ BreakerInit
  /\ call = [c \in Callers |-> Ended("idle")]
  /\ weather \in Weathers

Querying(c) == call[c].pc = "query"
Probing(c)  == Querying(c) /\ call[c].probe

\* The head of the attempt loop: pick a host and start the query on it.
Attempt(c, attempt) ==
  \E i \in Hosts :
    /\ PickNext(i)
    /\ call' = [call EXCEPT ![c] =
                  [pc |-> "query", attempt |-> attempt, host |-> i,
                   age |-> 0, probe |-> TakesProbe(i)]]
    /\ UNCHANGED weather

\* A lookup begins.
Start(c) ==
  /\ call[c].pc \in Outcomes
  /\ Attempt(c, 0)

\* The query is answered: the host is healthy, the lookup returns.
Answer(c) ==
  /\ Querying(c)
  /\ call[c].host \notin weather.down
  /\ RecordSuccess(call[c].host)
  /\ call' = [call EXCEPT ![c] = Ended("returned")]
  /\ UNCHANGED weather

\* What a failed attempt does next: sleep, or throw after the last one.
AfterFailure(c) ==
  call' = [call EXCEPT ![c] =
             IF @.attempt < RETRIES
             THEN [@ EXCEPT !.pc = "backoff", !.age = 0, !.probe = FALSE]
             ELSE Ended("thrown")]

\* The query fails (network error, timeout): the host is held responsible.
Fail(c) ==
  /\ Querying(c)
  /\ call[c].host \notin weather.up
  /\ RecordFailure(call[c].host)
  /\ AfterFailure(c)
  /\ UNCHANGED weather

\* The query ends in a definitive error (the name expired, has no history,
\* ...): the lookup throws it and records nothing about the host.
Definitive(c) ==
  /\ weather.definitive
  /\ Querying(c)
  /\ call[c].host \notin weather.down
  /\ call' = [call EXCEPT ![c] = Ended("definitive")]
  /\ UNCHANGED <<state, cursor, weather>>

BackoffOf(c) == BACKOFF_MS * (call[c].attempt + 1)

\* Mutant of Retry: the count of attempts is lost over the sleep.
RetryUncounted(c) ==
  /\ call[c].pc = "backoff"
  /\ call[c].age >= BackoffOf(c)
  /\ Attempt(c, 0)

\* The sleep is over: the next attempt.
Retry(c) ==
  /\ call[c].pc = "backoff"
  /\ call[c].age >= BackoffOf(c)
  /\ Attempt(c, call[c].attempt + 1)

\* Time passes, but not past a query's timeout or the end of a sleep.
Tick ==
  /\ \A c \in Callers :
       /\ Querying(c) => call[c].age < ATTEMPT_MS
       /\ call[c].pc = "backoff" => call[c].age < BackoffOf(c)
  /\ BreakerTick
  /\ call' = [c \in Callers |->
                IF call[c].pc \in InProgress THEN [call[c] EXCEPT !.age = @ + 1]
                                             ELSE call[c]]
  /\ UNCHANGED weather

Settle(c) == Answer(c) \/ Fail(c) \/ Definitive(c)

Next == \/ \E c \in Callers : \/ Start(c)
                              \/ Answer(c)
                              \/ Fail(c)
                              \/ Definitive(c)
                              \/ Retry(c)
        \/ Tick

Spec == Init /\ [][Next]_vars

\* Timers fire and every query ends: by its answer or by its timeout.
FairSpec == /\ Spec
            /\ WF_vars(Tick)
            /\ \A c \in Callers : WF_vars(Settle(c)) /\ WF_vars(Retry(c))

\* The relay keeps being asked: a lookup slot that is free is used again.
BusySpec == FairSpec /\ \A c \in Callers : WF_vars(Start(c))

-----------------------------------------------------------------------------
(* Properties *)

\* A host that is half-open has one probe slot (circuit.js, class comment):
\* no two lookups probe the same host at the same time, also not when the
\* host was closed and opened again by other lookups in the meantime.
SingleProbe ==
  \A c, d \in Callers :
    (Probing(c) /\ Probing(d) /\ call[c].host = call[d].host) => c = d

\* SingleProbe made inductive: while a probe is in flight its host is not
\* cooled down, because a host that opens meanwhile opened after the probe
\* began, and a probe is shorter than the shortest cooldown.
ProbeGuarded(c) ==
  LET s == state[call[c].host]
  IN  /\ s.state = "half-open" => s.halfOpenInFlight
      /\ s.state = "open" => s.sinceOpened <= call[c].age

ProbeIInv ==
  /\ SingleProbe
  /\ \A c \in Callers : Querying(c) => call[c].age <= ATTEMPT_MS
  /\ \A c \in Callers : Probing(c) => ProbeGuarded(c)

\* The probe slot is taken only while a lookup is really probing the host:
\* otherwise nothing would ever free it, since pickNext skips the host and
\* only a recorded outcome or a new cooldown resets the flag.
ProbeSlotHeld ==
  \A i \in Hosts :
    state[i].halfOpenInFlight => \E c \in Callers : Probing(c) /\ call[c].host = i

\* A lookup does not exhaust its attempts while some backend is up and the
\* others are down, however the other lookups move the shared cursor, provided
\* there are attempts for every backend: each failing host it meets stays out
\* of its way until the lookup is over.
SurvivesDownHosts ==
  (/\ weather.up # {}
   /\ weather.up \cup weather.down = Hosts
   /\ N <= RETRIES + 1)
    => \A c \in Callers : call[c].pc # "thrown"

\* Every backend is tried again and again while the relay is busy: no
\* sequence of failures excludes a host for good.
EveryHostTried ==
  \A i \in Hosts : []<>(\E c \in Callers : Querying(c) /\ call[c].host = i)

\* Every lookup ends.
EveryCallEnds ==
  \A c \in Callers : (call[c].pc \in InProgress) ~> (call[c].pc \in Outcomes)
=============================================================================
