--------------------------- MODULE NameShowProofs ---------------------------
(***************************************************************************)
(* Theorems about the circuit breaker and the attempt loop, for every      *)
(* number of hosts, of concurrent lookups and of attempts, and for all     *)
(* durations.                                                              *)
(***************************************************************************)
EXTENDS NameShow, FiniteSets, FiniteSetTheorems, TLAPS

USE BreakerAssumption, NameShowAssumption DEF BreakerAssumption, NameShowAssumption

LEMMA SuccessorInHosts ==
  ASSUME NEW i \in Hosts
  PROVE  (i + 1) % N \in Hosts
  BY DEF Hosts

\* What a pick leaves behind: a legal breaker in which only woken hosts and
\* the picked one have changed.
LEMMA PickNextType ==
  ASSUME BreakerTypeOK, NEW i \in Hosts, PickNext(i)
  PROVE  BreakerTypeOK'
<1>1. Woken \in [Hosts -> BreakerState]
  BY DEF Woken, BreakerTypeOK, BreakerState
<1>2. state' \in [Hosts -> BreakerState]
  <2>1. CASE TakesProbe(i)
    BY <1>1, <2>1 DEF PickNext, BreakerState
  <2>2. CASE ~TakesProbe(i)
    BY <1>1, <2>2 DEF PickNext
  <2> QED BY <2>1, <2>2
<1>3. cursor' \in Hosts
  BY SuccessorInHosts DEF PickNext
<1> QED BY <1>2, <1>3 DEF BreakerTypeOK

LEMMA RecordFailureType ==
  ASSUME BreakerTypeOK, NEW i \in Hosts, RecordFailure(i)
  PROVE  BreakerTypeOK'
<1>1. NextCooldown(state[i]) \in INITIAL_COOLDOWN_MS..MAX_COOLDOWN_MS
  BY DEF BreakerTypeOK, BreakerState, NextCooldown
<1> QED BY <1>1 DEF BreakerTypeOK, BreakerState, RecordFailure

LEMMA AttemptType ==
  ASSUME TypeOK, NEW c \in Callers, NEW n \in 0..RETRIES, Attempt(c, n)
  PROVE  TypeOK'
<1>1. PICK i \in Hosts :
        /\ PickNext(i)
        /\ call' = [call EXCEPT ![c] =
                      [pc |-> "query", attempt |-> n, host |-> i,
                       age |-> 0, probe |-> TakesProbe(i)]]
  BY DEF Attempt
<1>2. BreakerTypeOK' /\ weather' = weather
  BY <1>1, PickNextType DEF TypeOK, Attempt
<1>3. TakesProbe(i) \in BOOLEAN
  BY DEF TakesProbe
<1>4. [pc |-> "query", attempt |-> n, host |-> i,
       age |-> 0, probe |-> TakesProbe(i)] \in Call
  BY <1>3 DEF Call, InProgress
<1>5. CallTypeOK'
  BY <1>1, <1>4 DEF TypeOK, CallTypeOK
<1> QED BY <1>2, <1>5 DEF TypeOK

LEMMA EndedType ==
  ASSUME NEW o \in Outcomes
  PROVE  Ended(o) \in Call /\ Ended(o).pc = o
<1>1. o \in InProgress \cup Outcomes /\ 0 \in Hosts
  BY DEF Hosts
<1> QED BY <1>1 DEF Ended, Call

\* Ending a lookup keeps the lookups well-typed.
LEMMA EndType ==
  ASSUME CallTypeOK, NEW c \in Callers, NEW o \in Outcomes,
         call' = [call EXCEPT ![c] = Ended(o)]
  PROVE  CallTypeOK'
<1>1. o # "backoff"
  BY DEF Outcomes
<1> QED BY <1>1, EndedType DEF CallTypeOK

LEMMA FailType ==
  ASSUME TypeOK, NEW c \in Callers, Fail(c)
  PROVE  TypeOK'
<1>1. BreakerTypeOK' /\ weather' = weather
  BY RecordFailureType DEF Fail, TypeOK, CallTypeOK, Call
<1>2. CASE call[c].attempt < RETRIES
  <2>1. [call[c] EXCEPT !.pc = "backoff", !.age = 0, !.probe = FALSE] \in Call
    BY DEF TypeOK, CallTypeOK, Call, InProgress
  <2>2. call' = [call EXCEPT ![c] =
                   [@ EXCEPT !.pc = "backoff", !.age = 0, !.probe = FALSE]]
    BY <1>2 DEF Fail, AfterFailure, TypeOK, CallTypeOK
  <2>3. [call[c] EXCEPT !.pc = "backoff", !.age = 0, !.probe = FALSE].attempt < RETRIES
    BY <1>2 DEF TypeOK, CallTypeOK, Call
  <2>4. CallTypeOK'
    BY <2>1, <2>2, <2>3 DEF TypeOK, CallTypeOK
  <2> QED BY <1>1, <2>4 DEF TypeOK
<1>3. CASE ~(call[c].attempt < RETRIES)
  <2>1. call' = [call EXCEPT ![c] = Ended("thrown")]
    BY <1>3 DEF Fail, AfterFailure, TypeOK, CallTypeOK
  <2>2. CallTypeOK'
    BY <2>1, EndType DEF TypeOK, Outcomes
  <2> QED BY <1>1, <2>2 DEF TypeOK
<1> QED BY <1>2, <1>3

LEMMA TickType ==
  ASSUME TypeOK, Tick
  PROVE  TypeOK'
<1>1. BreakerTypeOK'
  <2>1. ASSUME NEW i \in Hosts PROVE state'[i] \in BreakerState
    BY DEF Tick, BreakerTick, TypeOK, BreakerTypeOK, BreakerState
  <2> QED BY <2>1 DEF Tick, BreakerTick, TypeOK, BreakerTypeOK
<1>2. CallTypeOK'
  <2>1. ASSUME NEW c \in Callers
        PROVE  /\ call'[c] \in Call
               /\ call'[c].pc = call[c].pc
               /\ call'[c].attempt = call[c].attempt
    BY DEF Tick, TypeOK, CallTypeOK, Call
  <2> QED BY <2>1 DEF Tick, TypeOK, CallTypeOK
<1> QED BY <1>1, <1>2 DEF TypeOK, Tick

\* Type correctness of the lookups and of the breaker they share: cooldowns
\* stay within their bounds, the cursor inside the host list and the attempt
\* number inside the budget, after any interleaving of lookups.
THEOREM TypeCorrect == Spec => []TypeOK
<1>1. Init => TypeOK
  <2> SUFFICES ASSUME Init PROVE TypeOK
    OBVIOUS
  <2>1. BreakerTypeOK
    BY DEF Init, BreakerInit, BreakerTypeOK, BreakerState, Closed, Hosts
  <2>2. Ended("idle") \in Call /\ Ended("idle").pc # "backoff"
    BY EndedType DEF Outcomes
  <2> QED BY <2>1, <2>2 DEF Init, TypeOK, CallTypeOK
<1>2. TypeOK /\ [Next]_vars => TypeOK'
  <2> SUFFICES ASSUME TypeOK, [Next]_vars PROVE TypeOK'
    OBVIOUS
  <2>1. ASSUME NEW c \in Callers, Start(c) PROVE TypeOK'
    BY <2>1, AttemptType DEF Start
  <2>2. ASSUME NEW c \in Callers, Answer(c) PROVE TypeOK'
    <3>1. Closed \in BreakerState
      BY DEF Closed, BreakerState
    <3>2. BreakerTypeOK'
      BY <2>2, <3>1 DEF Answer, RecordSuccess, TypeOK, BreakerTypeOK
    <3>3. CallTypeOK'
      BY <2>2, EndType DEF Answer, TypeOK, Outcomes
    <3> QED BY <2>2, <3>2, <3>3 DEF TypeOK, Answer
  <2>3. ASSUME NEW c \in Callers, Fail(c) PROVE TypeOK'
    BY <2>3, FailType
  <2>4. ASSUME NEW c \in Callers, Definitive(c) PROVE TypeOK'
    <3>1. CallTypeOK'
      BY <2>4, EndType DEF Definitive, TypeOK, Outcomes
    <3> QED BY <2>4, <3>1 DEF Definitive, TypeOK, BreakerTypeOK
  <2>5. ASSUME NEW c \in Callers, Retry(c) PROVE TypeOK'
    <3>1. call[c].attempt + 1 \in 0..RETRIES
      BY <2>5 DEF Retry, TypeOK, CallTypeOK, Call
    <3> QED BY <2>5, <3>1, AttemptType DEF Retry
  <2>6. CASE Tick
    BY <2>6, TickType
  <2>7. CASE UNCHANGED vars
    BY <2>7 DEF vars, TypeOK, BreakerTypeOK, CallTypeOK
  <2> QED BY <2>1, <2>2, <2>3, <2>4, <2>5, <2>6, <2>7 DEF Next
<1> QED BY <1>1, <1>2, PTL DEF Spec

-----------------------------------------------------------------------------
(***************************************************************************)
(* The probe slot.  ProbeSlotHeld is inductive with TypeOK: only a pick    *)
(* sets the flag, and the lookup that set it keeps probing until it        *)
(* records an outcome, which clears the flag; a definitive error is the    *)
(* one way out that does not, so it is excluded.                           *)
(***************************************************************************)

\* A pick sets no flag but the picked host's, and that one only for a probe.
LEMMA PickNextFlags ==
  ASSUME BreakerTypeOK, NEW i \in Hosts, PickNext(i), NEW j \in Hosts
  PROVE  state'[j].halfOpenInFlight
           => state[j].halfOpenInFlight \/ (j = i /\ TakesProbe(i))
<1>1. Woken[j].halfOpenInFlight => state[j].halfOpenInFlight
  BY DEF Woken, BreakerTypeOK, BreakerState
<1>2. Woken \in [Hosts -> BreakerState]
  BY DEF Woken, BreakerTypeOK, BreakerState
<1>3. CASE TakesProbe(i) /\ j = i
  BY <1>3
<1>4. CASE ~(TakesProbe(i) /\ j = i)
  BY <1>1, <1>2, <1>4 DEF PickNext, BreakerState
<1> QED BY <1>3, <1>4

\* The new attempt of c leaves every probe in flight and every set flag has
\* its probe.
LEMMA AttemptKeepsSlots ==
  ASSUME TypeOK, ProbeSlotHeld, NEW c \in Callers, ~Querying(c),
         NEW n \in 0..RETRIES, Attempt(c, n)
  PROVE  ProbeSlotHeld'
<1>1. PICK i \in Hosts :
        /\ PickNext(i)
        /\ call' = [call EXCEPT ![c] =
                      [pc |-> "query", attempt |-> n, host |-> i,
                       age |-> 0, probe |-> TakesProbe(i)]]
  BY DEF Attempt
<1>2. /\ \A d \in Callers \ {c} : call'[d] = call[d]
      /\ call'[c].pc = "query" /\ call'[c].host = i
      /\ call'[c].probe = TakesProbe(i)
  BY <1>1 DEF TypeOK, CallTypeOK
<1>3. SUFFICES ASSUME NEW j \in Hosts, state'[j].halfOpenInFlight
               PROVE  \E d \in Callers : (Probing(d) /\ call[d].host = j)'
  BY DEF ProbeSlotHeld
<1>4. CASE j = i /\ TakesProbe(i)
  BY <1>2, <1>4 DEF Probing, Querying
<1>5. CASE state[j].halfOpenInFlight
  <2>1. PICK d \in Callers : Probing(d) /\ call[d].host = j
    BY <1>5 DEF ProbeSlotHeld
  <2>2. d # c
    BY <2>1 DEF Probing
  <2> QED BY <1>2, <2>1, <2>2 DEF Probing, Querying
<1> QED BY <1>1, <1>3, <1>4, <1>5, PickNextFlags DEF TypeOK

\* Clearing the flag of the host whose attempt has ended is all the slot
\* invariant asks of recordSuccess and recordFailure.
LEMMA OutcomeKeepsSlots ==
  ASSUME TypeOK, ProbeSlotHeld, NEW c \in Callers,
         \A d \in Callers \ {c} : call'[d] = call[d],
         ~state'[call[c].host].halfOpenInFlight,
         \A j \in Hosts \ {call[c].host} : state'[j] = state[j]
  PROVE  ProbeSlotHeld'
<1>1. SUFFICES ASSUME NEW j \in Hosts, state'[j].halfOpenInFlight
               PROVE  \E d \in Callers : (Probing(d) /\ call[d].host = j)'
  BY DEF ProbeSlotHeld
<1>2. j # call[c].host /\ state[j].halfOpenInFlight
  BY <1>1
<1>3. PICK d \in Callers : Probing(d) /\ call[d].host = j
  BY <1>2 DEF ProbeSlotHeld
<1>4. d # c
  BY <1>2, <1>3
<1> QED BY <1>3, <1>4 DEF Probing, Querying

\* Unless a lookup may end in a definitive error, the half-open slot of a
\* host is never taken without a probe of that host in flight, so no host is
\* skipped for ever.
THEOREM ProbeSlotIsHeld ==
  ASSUME \A w \in Weathers : ~w.definitive
  PROVE  Spec => []ProbeSlotHeld
<1>1. Init => ProbeSlotHeld
  BY DEF Init, BreakerInit, ProbeSlotHeld, Closed
<1>2. TypeOK /\ ProbeSlotHeld /\ [Next]_vars => ProbeSlotHeld'
  <2> SUFFICES ASSUME TypeOK, ProbeSlotHeld, [Next]_vars PROVE ProbeSlotHeld'
    OBVIOUS
  <2>1. ASSUME NEW c \in Callers, Start(c) PROVE ProbeSlotHeld'
    BY <2>1, AttemptKeepsSlots DEF Start, Querying, Outcomes
  <2>2. ASSUME NEW c \in Callers, Answer(c) PROVE ProbeSlotHeld'
    <3>1. call[c].host \in Hosts
      BY DEF TypeOK, CallTypeOK, Call
    <3>2. /\ ~state'[call[c].host].halfOpenInFlight
          /\ \A j \in Hosts \ {call[c].host} : state'[j] = state[j]
      BY <2>2, <3>1 DEF Answer, RecordSuccess, Closed, TypeOK, BreakerTypeOK
    <3>3. \A d \in Callers \ {c} : call'[d] = call[d]
      BY <2>2 DEF Answer, TypeOK, CallTypeOK
    <3> QED BY <3>2, <3>3, OutcomeKeepsSlots
  <2>3. ASSUME NEW c \in Callers, Fail(c) PROVE ProbeSlotHeld'
    <3>1. call[c].host \in Hosts
      BY DEF TypeOK, CallTypeOK, Call
    <3>2. /\ ~state'[call[c].host].halfOpenInFlight
          /\ \A j \in Hosts \ {call[c].host} : state'[j] = state[j]
      BY <2>3, <3>1 DEF Fail, RecordFailure, TypeOK, BreakerTypeOK
    <3>3. \A d \in Callers \ {c} : call'[d] = call[d]
      BY <2>3 DEF Fail, AfterFailure, TypeOK, CallTypeOK
    <3> QED BY <3>2, <3>3, OutcomeKeepsSlots
  <2>4. ASSUME NEW c \in Callers, Retry(c) PROVE ProbeSlotHeld'
    <3>1. call[c].attempt + 1 \in 0..RETRIES
      BY <2>4 DEF Retry, TypeOK, CallTypeOK, Call
    <3> QED BY <2>4, <3>1, AttemptKeepsSlots DEF Retry, Querying
  <2>5. CASE Tick
    <3>1. \A j \in Hosts : state'[j].halfOpenInFlight => state[j].halfOpenInFlight
      BY <2>5 DEF Tick, BreakerTick, TypeOK, BreakerTypeOK, BreakerState
    <3>2. \A d \in Callers : /\ call'[d].pc = call[d].pc
                             /\ call'[d].probe = call[d].probe
                             /\ call'[d].host = call[d].host
      BY <2>5 DEF Tick, TypeOK, CallTypeOK, Call
    <3> QED BY <3>1, <3>2 DEF ProbeSlotHeld, Probing, Querying
  <2>6. CASE UNCHANGED vars
    BY <2>6 DEF vars, ProbeSlotHeld, Probing, Querying
  <2>7. ASSUME NEW c \in Callers, Definitive(c) PROVE ProbeSlotHeld'
    BY <2>7 DEF Definitive, TypeOK
  <2> QED BY <2>1, <2>2, <2>3, <2>4, <2>5, <2>6, <2>7 DEF Next
<1> QED BY <1>1, <1>2, TypeCorrect, PTL DEF Spec

-----------------------------------------------------------------------------
(***************************************************************************)
(* One probe at a time.  The inductive invariant is ProbeIInv; the proof   *)
(* turns on HostOfProbeNotCooled: a host with a probe in flight cannot be  *)
(* woken by pickNext, so its slot cannot be taken a second time.           *)
(***************************************************************************)

LEMMA HostOfProbeNotCooled ==
  ASSUME TypeOK, ProbeIInv, ATTEMPT_MS < INITIAL_COOLDOWN_MS,
         NEW c \in Callers, Probing(c)
  PROVE  /\ ~Cooled(call[c].host)
         /\ Woken[call[c].host] = state[call[c].host]
         /\ ~TakesProbe(call[c].host)
<1> DEFINE h == call[c].host
<1>1. h \in Hosts /\ state[h] \in BreakerState /\ call[c].age \in Nat
  BY DEF TypeOK, CallTypeOK, Call, BreakerTypeOK
<1>2. ProbeGuarded(c) /\ call[c].age <= ATTEMPT_MS
  BY DEF ProbeIInv, Probing
<1>3. ~Cooled(h)
  BY <1>1, <1>2 DEF Cooled, ProbeGuarded, BreakerState
<1>4. Woken[h] = state[h]
  BY <1>1, <1>3 DEF Woken
<1>5. ~TakesProbe(h)
  BY <1>2, <1>4 DEF TakesProbe, Available, ProbeGuarded
<1> QED BY <1>3, <1>4, <1>5

LEMMA AttemptKeepsProbeIInv ==
  ASSUME TypeOK, ProbeIInv, ATTEMPT_MS < INITIAL_COOLDOWN_MS,
         NEW c \in Callers, ~Querying(c), NEW n \in 0..RETRIES, Attempt(c, n)
  PROVE  ProbeIInv'
<1>1. PICK i \in Hosts :
        /\ PickNext(i)
        /\ call' = [call EXCEPT ![c] =
                      [pc |-> "query", attempt |-> n, host |-> i,
                       age |-> 0, probe |-> TakesProbe(i)]]
  BY DEF Attempt
<1>2. /\ \A d \in Callers \ {c} : call'[d] = call[d]
      /\ call'[c].pc = "query" /\ call'[c].host = i
      /\ call'[c].probe = TakesProbe(i) /\ call'[c].age = 0
  BY <1>1 DEF TypeOK, CallTypeOK
<1>3. Woken \in [Hosts -> BreakerState]
  BY DEF Woken, TypeOK, BreakerTypeOK, BreakerState
<1>4. ASSUME NEW d \in Callers \ {c}, Probing(d)'
      PROVE  /\ Probing(d)
             /\ (call[d].host = i) => ~TakesProbe(i)
             /\ ProbeGuarded(d)'
  <2>1. Probing(d) /\ call'[d] = call[d]
    BY <1>2, <1>4 DEF Probing, Querying
  <2>2. /\ Woken[call[d].host] = state[call[d].host]
        /\ ~TakesProbe(call[d].host)
        /\ call[d].host \in Hosts
    BY <2>1, HostOfProbeNotCooled DEF TypeOK, CallTypeOK, Call
  <2>3. state'[call[d].host] = state[call[d].host]
    BY <1>1, <1>3, <2>2 DEF PickNext
  <2>4. ProbeGuarded(d)
    BY <2>1 DEF ProbeIInv
  <2>5. ProbeGuarded(d)'
    BY <2>1, <2>3, <2>4 DEF ProbeGuarded
  <2> QED BY <2>1, <2>2, <2>5
<1>5. ASSUME Probing(c)' PROVE ProbeGuarded(c)' /\ TakesProbe(i)
  <2>1. TakesProbe(i)
    BY <1>2, <1>5 DEF Probing
  <2>2. Woken[i].state = "half-open"
    BY <2>1 DEF TakesProbe
  <2>3. state'[i].state = "half-open" /\ state'[i].halfOpenInFlight
    BY <1>1, <1>3, <2>1, <2>2 DEF PickNext, BreakerState
  <2> QED BY <1>2, <2>1, <2>3 DEF ProbeGuarded
<1>6. SingleProbe'
  <2> SUFFICES ASSUME NEW d \in Callers, NEW e \in Callers,
                      (Probing(d) /\ Probing(e) /\ call[d].host = call[e].host)',
                      d # e
               PROVE  FALSE
    BY DEF SingleProbe
  <2>1. CASE d # c /\ e # c
    BY <1>2, <1>4, <2>1 DEF ProbeIInv, SingleProbe
  <2>2. CASE d = c
    BY <1>2, <1>4, <1>5, <2>2
  <2>3. CASE e = c
    BY <1>2, <1>4, <1>5, <2>3
  <2> QED BY <2>1, <2>2, <2>3
<1>7. \A d \in Callers : Querying(d)' => call'[d].age <= ATTEMPT_MS
  BY <1>2 DEF ProbeIInv, Querying
<1> QED BY <1>4, <1>5, <1>6, <1>7 DEF ProbeIInv

\* An attempt that ends: it stops probing, nobody starts to, and a host that
\* opens at that moment has been open for no time.
LEMMA OutcomeKeepsProbeIInv ==
  ASSUME TypeOK, ProbeIInv, NEW c \in Callers, ~Querying(c)',
         \A d \in Callers \ {c} : call'[d] = call[d],
         \A j \in Hosts : \/ state'[j] = state[j]
                          \/ state'[j].state = "closed"
                          \/ state'[j].state = "open" /\ state'[j].sinceOpened = 0
  PROVE  ProbeIInv'
<1>1. ASSUME NEW d \in Callers, Querying(d)'
      PROVE  d # c /\ call'[d] = call[d] /\ Querying(d)
  BY <1>1 DEF Querying
<1>2. SingleProbe'
  BY <1>1 DEF ProbeIInv, SingleProbe, Probing
<1>3. ASSUME NEW d \in Callers, Probing(d)' PROVE ProbeGuarded(d)'
  <2>1. call'[d] = call[d] /\ ProbeGuarded(d)
    BY <1>1, <1>3 DEF ProbeIInv, Probing
  <2>2. call[d].host \in Hosts /\ call[d].age \in Nat
    BY DEF TypeOK, CallTypeOK, Call
  <2> QED BY <2>1, <2>2 DEF ProbeGuarded
<1> QED BY <1>1, <1>2, <1>3 DEF ProbeIInv

LEMMA TickKeepsProbeIInv ==
  ASSUME TypeOK, ProbeIInv, Tick
  PROVE  ProbeIInv'
<1>1. ASSUME NEW d \in Callers
      PROVE  /\ call'[d].pc = call[d].pc
             /\ call'[d].probe = call[d].probe
             /\ call'[d].host = call[d].host
             /\ call[d].age \in Nat
             /\ Querying(d) => /\ call'[d].age = call[d].age + 1
                              /\ call[d].age < ATTEMPT_MS
  BY DEF Tick, TypeOK, CallTypeOK, Call, Querying, InProgress
<1>2. ASSUME NEW j \in Hosts
      PROVE  /\ state'[j].state = state[j].state
             /\ state'[j].halfOpenInFlight = state[j].halfOpenInFlight
             /\ state[j].sinceOpened \in Nat
             /\ state'[j].sinceOpened \in Nat
             /\ state'[j].sinceOpened <= state[j].sinceOpened + 1
  BY DEF Tick, BreakerTick, TypeOK, BreakerTypeOK, BreakerState
<1>3. SingleProbe'
  BY <1>1 DEF ProbeIInv, SingleProbe, Probing, Querying
<1>4. \A d \in Callers : Querying(d)' => call'[d].age <= ATTEMPT_MS
  BY <1>1 DEF Querying
<1>5. ASSUME NEW d \in Callers, Probing(d)' PROVE ProbeGuarded(d)'
  <2>1. Querying(d) /\ ProbeGuarded(d) /\ call[d].host \in Hosts
    BY <1>1, <1>5 DEF ProbeIInv, Probing, Querying, TypeOK, CallTypeOK, Call
  <2> QED BY <1>1, <1>2, <2>1 DEF ProbeGuarded
<1> QED BY <1>3, <1>4, <1>5 DEF ProbeIInv

\* As long as an attempt is shorter than the shortest cooldown, a half-open
\* host is probed by one lookup at a time, whatever the other lookups do to
\* the breaker meanwhile (and whether or not lookups end definitively).
THEOREM OneProbeAtATime ==
  ASSUME ATTEMPT_MS < INITIAL_COOLDOWN_MS
  PROVE  Spec => []SingleProbe
<1>1. Init => ProbeIInv
  BY DEF Init, ProbeIInv, SingleProbe, Probing, Querying, Ended
<1>2. TypeOK /\ ProbeIInv /\ [Next]_vars => ProbeIInv'
  <2> SUFFICES ASSUME TypeOK, ProbeIInv, [Next]_vars PROVE ProbeIInv'
    OBVIOUS
  <2>1. ASSUME NEW c \in Callers, Start(c) PROVE ProbeIInv'
    BY <2>1, AttemptKeepsProbeIInv DEF Start, Querying, Outcomes
  <2>2. ASSUME NEW c \in Callers, Answer(c) PROVE ProbeIInv'
    <3>1. ~Querying(c)' /\ \A d \in Callers \ {c} : call'[d] = call[d]
      BY <2>2 DEF Answer, Ended, TypeOK, CallTypeOK, Querying
    <3>2. \A j \in Hosts : state'[j] = state[j] \/ state'[j].state = "closed"
      BY <2>2 DEF Answer, RecordSuccess, Closed, TypeOK, BreakerTypeOK
    <3> QED BY <3>1, <3>2, OutcomeKeepsProbeIInv
  <2>3. ASSUME NEW c \in Callers, Fail(c) PROVE ProbeIInv'
    <3>1. \A d \in Callers \ {c} : call'[d] = call[d]
      BY <2>3 DEF Fail, AfterFailure, TypeOK, CallTypeOK
    <3>2. ~Querying(c)'
      BY <2>3 DEF Fail, AfterFailure, Ended, TypeOK, CallTypeOK, Call, Querying
    <3>3. \A j \in Hosts : \/ state'[j] = state[j]
                           \/ state'[j].state = "open" /\ state'[j].sinceOpened = 0
      BY <2>3 DEF Fail, RecordFailure, TypeOK, BreakerTypeOK
    <3> QED BY <3>1, <3>2, <3>3, OutcomeKeepsProbeIInv
  <2>4. ASSUME NEW c \in Callers, Definitive(c) PROVE ProbeIInv'
    <3>1. ~Querying(c)' /\ \A d \in Callers \ {c} : call'[d] = call[d]
      BY <2>4 DEF Definitive, Ended, TypeOK, CallTypeOK, Querying
    <3>2. \A j \in Hosts : state'[j] = state[j]
      BY <2>4 DEF Definitive
    <3> QED BY <3>1, <3>2, OutcomeKeepsProbeIInv
  <2>5. ASSUME NEW c \in Callers, Retry(c) PROVE ProbeIInv'
    <3>1. call[c].attempt + 1 \in 0..RETRIES
      BY <2>5 DEF Retry, TypeOK, CallTypeOK, Call
    <3> QED BY <2>5, <3>1, AttemptKeepsProbeIInv DEF Retry, Querying
  <2>6. CASE Tick
    BY <2>6, TickKeepsProbeIInv
  <2>7. CASE UNCHANGED vars
    BY <2>7 DEF vars, ProbeIInv, SingleProbe, Probing, Querying, ProbeGuarded
  <2> QED BY <2>1, <2>2, <2>3, <2>4, <2>5, <2>6, <2>7 DEF Next
<1>3. ProbeIInv => SingleProbe
  BY DEF ProbeIInv
<1> QED BY <1>1, <1>2, <1>3, TypeCorrect, PTL DEF Spec

-----------------------------------------------------------------------------
(***************************************************************************)
(* A lookup survives hosts that are down.  The inductive invariant gives   *)
(* each lookup the set of hosts that have failed it, one for each of its   *)
(* failed attempts; as long as the lookup is younger than the shortest     *)
(* cooldown they are all open, so its next attempt fails another one, and  *)
(* there are not as many as it has attempts.                               *)
(***************************************************************************)
\* The longest an attempt and the sleep after it last.
Round == ATTEMPT_MS + RETRIES * BACKOFF_MS

\* The first cooldown lasts until the last attempt begins.
CooldownOutlasts == RETRIES * Round < INITIAL_COOLDOWN_MS

Failed(c) == IF Querying(c) THEN call[c].attempt ELSE call[c].attempt + 1

\* An upper bound of the age of the lookup.
Elapsed(c) ==
  call[c].attempt * Round + (IF Querying(c) THEN 0 ELSE ATTEMPT_MS) + call[c].age

OutOfTheWay(c, F) ==
  /\ Cardinality(F) = Failed(c)
  /\ Querying(c) => call[c].host \notin F
  /\ Elapsed(c) < INITIAL_COOLDOWN_MS =>
       \A i \in F : state[i].state = "open" /\ state[i].sinceOpened <= Elapsed(c)

AgesBounded ==
  \A c \in Callers : /\ Querying(c) => call[c].age <= ATTEMPT_MS
                     /\ call[c].pc = "backoff" => call[c].age <= BackoffOf(c)

SomeUp == /\ weather.up # {}
          /\ weather.up \cup weather.down = Hosts
          /\ N <= RETRIES + 1

UpIsClosed == \A i \in weather.up : state[i] = Closed

FailedOnes(c) ==
  call[c].pc \in InProgress => \E F \in SUBSET (Hosts \ weather.up) : OutOfTheWay(c, F)

DownIInv ==
  /\ AgesBounded
  /\ SomeUp => /\ UpIsClosed
               /\ \A c \in Callers : call[c].pc # "thrown"
               /\ \A c \in Callers : FailedOnes(c)

LEMMA OneMore ==
  ASSUME NEW n \in Nat, NEW m \in Nat
  PROVE  (n + 1) * m = n * m + m /\ n * m \in Nat
OBVIOUS

LEMMA MoreIsMore ==
  ASSUME NEW n \in Nat, NEW k \in Nat, NEW m \in Nat, n <= k
  PROVE  n * m <= k * m /\ m * n <= m * k
OBVIOUS

LEMMA RoundType == Round \in Nat /\ RETRIES * BACKOFF_MS \in Nat
BY DEF Round

LEMMA ElapsedType ==
  ASSUME TypeOK, NEW c \in Callers
  PROVE  Elapsed(c) \in Nat
<1>1. call[c].attempt \in Nat /\ call[c].age \in Nat
  BY DEF TypeOK, CallTypeOK, Call
<1>2. call[c].attempt * Round \in Nat
  BY <1>1, RoundType, OneMore
<1> QED BY <1>1, <1>2 DEF Elapsed

\* The sleep ends before the round is over, and the round before the cooldown.
LEMMA RetryIsInTime ==
  ASSUME TypeOK, AgesBounded, CooldownOutlasts, NEW c \in Callers, call[c].pc = "backoff"
  PROVE  /\ Elapsed(c) <= (call[c].attempt + 1) * Round
         /\ Elapsed(c) < INITIAL_COOLDOWN_MS
<1> DEFINE n == call[c].attempt
<1>1. n \in Nat /\ n + 1 <= RETRIES /\ call[c].age \in Nat
  BY DEF TypeOK, CallTypeOK, Call
<1>2. call[c].age <= BACKOFF_MS * (n + 1)
  BY DEF AgesBounded, BackoffOf
<1> HIDE DEF n
<1>3. BACKOFF_MS * (n + 1) <= RETRIES * BACKOFF_MS
  <2>1. BACKOFF_MS * (n + 1) <= BACKOFF_MS * RETRIES
    BY <1>1, MoreIsMore
  <2>2. BACKOFF_MS * RETRIES = RETRIES * BACKOFF_MS
    OBVIOUS
  <2> QED BY <2>1, <2>2
<1>4. (n + 1) * Round = n * Round + Round /\ n * Round \in Nat
  BY <1>1, RoundType, OneMore
<1>5. (n + 1) * Round <= RETRIES * Round
  BY <1>1, RoundType, MoreIsMore
<1>6. Elapsed(c) = n * Round + ATTEMPT_MS + call[c].age
  BY DEF Elapsed, Querying, n
<1>7. ATTEMPT_MS + call[c].age <= Round
  <2>1. BACKOFF_MS * (n + 1) \in Nat /\ RETRIES * BACKOFF_MS \in Nat
    BY <1>1, RoundType
  <2> QED BY <1>1, <1>2, <1>3, <2>1 DEF Round
<1>8. RETRIES * Round < INITIAL_COOLDOWN_MS /\ RETRIES * Round \in Nat
  BY RoundType DEF CooldownOutlasts
<1>9. Elapsed(c) <= (n + 1) * Round
  BY <1>1, <1>4, <1>6, <1>7, RoundType
<1>10. Elapsed(c) < INITIAL_COOLDOWN_MS
  BY <1>1, <1>4, <1>5, <1>8, <1>9, RoundType, ElapsedType
<1> QED BY <1>9, <1>10 DEF n

(***************************************************************************)
(* What the steps of any lookup do to a host that is open, or closed.      *)
(***************************************************************************)
LEMMA PickKeeps ==
  ASSUME BreakerTypeOK, NEW i \in Hosts, PickNext(i), NEW j \in Hosts
  PROVE  /\ state[j] = Closed => state'[j] = Closed /\ Available(j)
         /\ state[j].state = "open" /\ state[j].sinceOpened < INITIAL_COOLDOWN_MS
              => state'[j] = state[j] /\ ~Available(j)
<1>1. Woken \in [Hosts -> BreakerState] /\ state[j] \in BreakerState
  BY DEF Woken, BreakerTypeOK, BreakerState
<1>2. ASSUME state[j] = Closed PROVE state'[j] = Closed /\ Available(j)
  <2>1. Woken[j] = Closed
    BY <1>2 DEF Woken, Cooled, Closed
  <2>2. ~TakesProbe(j) /\ Available(j)
    BY <2>1 DEF TakesProbe, Available, Closed
  <2> QED BY <1>1, <2>1, <2>2 DEF PickNext
<1>3. ASSUME state[j].state = "open", state[j].sinceOpened < INITIAL_COOLDOWN_MS
      PROVE  state'[j] = state[j] /\ ~Available(j)
  <2>0. ~Cooled(j)
    BY <1>1, <1>3 DEF Cooled, BreakerState
  <2>1. Woken[j] = state[j]
    BY <2>0 DEF Woken
  <2>2. ~Available(j)
    BY <1>3, <2>1 DEF Available
  <2>3. ~TakesProbe(j)
    BY <2>2 DEF TakesProbe
  <2> QED BY <1>1, <2>1, <2>2, <2>3 DEF PickNext
<1> QED BY <1>2, <1>3

\* A lookup that does not move keeps its failed hosts, if they stay open.
LEMMA OthersKeepFailedOnes ==
  ASSUME TypeOK, TypeOK', NEW d \in Callers, FailedOnes(d), call'[d] = call[d], UNCHANGED weather,
         \A j \in Hosts \ weather.up :
           state[j].state = "open" /\ state[j].sinceOpened < INITIAL_COOLDOWN_MS
             => state'[j].state = "open" /\ state'[j].sinceOpened <= state[j].sinceOpened
  PROVE  FailedOnes(d)'
<1> SUFFICES ASSUME call[d].pc \in InProgress
             PROVE  \E F \in SUBSET (Hosts \ weather.up) : OutOfTheWay(d, F)'
  BY DEF FailedOnes
<1>1. PICK F \in SUBSET (Hosts \ weather.up) : OutOfTheWay(d, F)
  BY DEF FailedOnes
<1>2. Elapsed(d)' = Elapsed(d) /\ Failed(d)' = Failed(d) /\ Querying(d)' = Querying(d)
  BY DEF Elapsed, Failed, Querying
<1>3. Elapsed(d) \in Nat
  BY ElapsedType
<1>4. ASSUME Elapsed(d) < INITIAL_COOLDOWN_MS, NEW i \in F
      PROVE  state'[i].state = "open" /\ state'[i].sinceOpened <= Elapsed(d)
  <2>1. state[i].state = "open" /\ state[i].sinceOpened <= Elapsed(d) /\ i \in Hosts
    BY <1>1, <1>4 DEF OutOfTheWay
  <2>2. state[i].sinceOpened \in Nat
    BY <2>1 DEF TypeOK, BreakerTypeOK, BreakerState
  <2>3. state'[i].state = "open" /\ state'[i].sinceOpened <= state[i].sinceOpened
    BY <1>3, <1>4, <2>1, <2>2
  <2>4. state'[i].sinceOpened \in Nat
    BY <2>1 DEF TypeOK, BreakerTypeOK, BreakerState
  <2> QED BY <1>3, <2>1, <2>2, <2>3, <2>4
<1>5. OutOfTheWay(d, F)'
  BY <1>1, <1>2, <1>4 DEF OutOfTheWay
<1> QED BY <1>1, <1>5

\* The ages of the lookups, when one of them moves.
LEMMA AgesAfter ==
  ASSUME AgesBounded, NEW c \in Callers, \A d \in Callers \ {c} : call'[d] = call[d],
         call'[c].age = 0, call'[c].attempt \in Nat
  PROVE  AgesBounded'
<1>1. BACKOFF_MS * (call'[c].attempt + 1) \in Nat
  BY OneMore
<1>2. BackoffOf(c)' \in Nat
  BY <1>1 DEF BackoffOf
<1> QED BY <1>2 DEF AgesBounded, Querying, BackoffOf

LEMMA AttemptKeepsDownIInv ==
  ASSUME TypeOK, TypeOK', DownIInv, CooldownOutlasts, NEW c \in Callers, NEW n \in 0..RETRIES,
         \/ call[c].pc \in Outcomes /\ n = 0
         \/ call[c].pc = "backoff" /\ n = call[c].attempt + 1,
         Attempt(c, n)
  PROVE  DownIInv'
<1>1. PICK i \in Hosts :
        /\ PickNext(i)
        /\ call' = [call EXCEPT ![c] =
                      [pc |-> "query", attempt |-> n, host |-> i,
                       age |-> 0, probe |-> TakesProbe(i)]]
        /\ UNCHANGED weather
  BY DEF Attempt
<1>2. /\ \A d \in Callers \ {c} : call'[d] = call[d]
      /\ call'[c].pc = "query" /\ call'[c].host = i
      /\ call'[c].attempt = n /\ call'[c].age = 0
  BY <1>1 DEF TypeOK, CallTypeOK
<1>3. AgesBounded'
  BY <1>2, AgesAfter DEF DownIInv
<1>4. SUFFICES ASSUME SomeUp
               PROVE  /\ UpIsClosed'
                      /\ \A d \in Callers : call'[d].pc # "thrown"
                      /\ \A d \in Callers : FailedOnes(d)'
  BY <1>1, <1>3 DEF DownIInv, SomeUp
<1>5. weather.up \subseteq Hosts /\ BreakerTypeOK
  BY DEF TypeOK
<1>6. UpIsClosed'
  BY <1>1, <1>4, <1>5, PickKeeps DEF DownIInv, UpIsClosed
<1>7. \A d \in Callers : call'[d].pc # "thrown"
  BY <1>2, <1>4 DEF DownIInv
<1>8. ASSUME NEW d \in Callers \ {c} PROVE FailedOnes(d)'
  <2>1. FailedOnes(d) /\ call'[d] = call[d]
    BY <1>2, <1>4 DEF DownIInv
  <2>2. \A j \in Hosts : state[j].sinceOpened <= state[j].sinceOpened
    BY DEF TypeOK, BreakerTypeOK, BreakerState
  <2> QED BY <1>1, <1>5, <2>1, <2>2, PickKeeps, OthersKeepFailedOnes
<1>9. Elapsed(c)' = n * Round /\ Failed(c)' = n
  <2>1. Elapsed(c)' = n * Round + 0 + 0 /\ Failed(c)' = n
    BY <1>2 DEF Elapsed, Failed, Querying
  <2> QED BY <2>1, RoundType, OneMore
<1>10. CASE call[c].pc \in Outcomes
  <2>1. n = 0
    BY <1>10 DEF Outcomes
  <2>2. Cardinality({}) = 0
    BY FS_EmptySet
  <2>3. OutOfTheWay(c, {})'
    BY <1>9, <2>1, <2>2 DEF OutOfTheWay
  <2>4. FailedOnes(c)'
    BY <2>3 DEF FailedOnes
  <2> QED BY <1>6, <1>7, <1>8, <2>4
<1>11. CASE call[c].pc = "backoff"
  <2>1. n = call[c].attempt + 1
    BY <1>11 DEF Outcomes
  <2>2. PICK F \in SUBSET (Hosts \ weather.up) : OutOfTheWay(c, F)
    BY <1>4, <1>11 DEF DownIInv, FailedOnes, InProgress
  <2>3. Cardinality(F) = n
    BY <1>11, <2>1, <2>2 DEF OutOfTheWay, Failed, Querying
  <2>4. Elapsed(c) <= n * Round /\ Elapsed(c) < INITIAL_COOLDOWN_MS /\ Elapsed(c) \in Nat
    BY <1>11, <2>1, RetryIsInTime, ElapsedType DEF DownIInv
  <2>5. ASSUME NEW j \in F
        PROVE  /\ state'[j] = state[j] /\ state[j].state = "open" /\ ~Available(j)
               /\ state[j].sinceOpened <= n * Round
    <3>1. j \in Hosts /\ state[j].state = "open" /\ state[j].sinceOpened <= Elapsed(c)
      BY <2>2, <2>4 DEF OutOfTheWay
    <3>2. state[j].sinceOpened \in Nat /\ n * Round \in Nat
      BY <3>1, RoundType, OneMore DEF TypeOK, BreakerTypeOK, BreakerState
    <3>3. state[j].sinceOpened < INITIAL_COOLDOWN_MS
      BY <2>4, <3>1, <3>2
    <3> QED BY <1>1, <1>5, <2>4, <3>1, <3>2, <3>3, PickKeeps
  <2>6. i \notin F
    <3>1. PICK u \in weather.up : Available(u)
      BY <1>1, <1>4, <1>5, PickKeeps DEF SomeUp, DownIInv, UpIsClosed
    <3>2. Available(i)
      BY <1>1, <1>5, <3>1 DEF PickNext, NoneAvailable, FirstAvailable
    <3> QED BY <2>5, <3>2
  <2>7. OutOfTheWay(c, F)'
    BY <1>2, <1>9, <2>3, <2>5, <2>6 DEF OutOfTheWay
  <2>8. FailedOnes(c)'
    BY <1>1, <2>2, <2>7 DEF FailedOnes
  <2> QED BY <1>6, <1>7, <1>8, <2>8
<1> QED BY <1>10, <1>11

\* An answer comes from a host that is up, and is closed anyway.
LEMMA AnswerKeepsDownIInv ==
  ASSUME TypeOK, TypeOK', DownIInv, NEW c \in Callers, Answer(c)
  PROVE  DownIInv'
<1> DEFINE h == call[c].host
<1>1. /\ h \in Hosts /\ h \notin weather.down /\ UNCHANGED weather
      /\ state' = [state EXCEPT ![h] = Closed]
      /\ \A d \in Callers \ {c} : call'[d] = call[d]
      /\ call'[c] = Ended("returned")
  BY DEF Answer, RecordSuccess, TypeOK, CallTypeOK, Call
<1>2. call'[c].pc = "returned" /\ call'[c].age = 0 /\ call'[c].attempt = 0
  BY <1>1 DEF Ended
<1>3. AgesBounded'
  BY <1>1, <1>2, AgesAfter DEF DownIInv
<1>4. SUFFICES ASSUME SomeUp
               PROVE  /\ UpIsClosed'
                      /\ \A d \in Callers : call'[d].pc # "thrown"
                      /\ \A d \in Callers : FailedOnes(d)'
  BY <1>1, <1>3 DEF DownIInv, SomeUp
<1>5. UpIsClosed'
  BY <1>1, <1>4 DEF DownIInv, UpIsClosed, TypeOK, BreakerTypeOK
<1>6. \A d \in Callers : call'[d].pc # "thrown"
  BY <1>1, <1>2, <1>4 DEF DownIInv
<1>7. ASSUME NEW d \in Callers \ {c} PROVE FailedOnes(d)'
  <2>1. FailedOnes(d) /\ call'[d] = call[d]
    BY <1>1, <1>4 DEF DownIInv
  <2>2. h \in weather.up
    BY <1>1, <1>4 DEF SomeUp
  <2>3. \A j \in Hosts \ weather.up : state'[j] = state[j] /\ state[j].sinceOpened <= state[j].sinceOpened
    BY <1>1, <2>2 DEF TypeOK, BreakerTypeOK, BreakerState
  <2> QED BY <1>1, <2>1, <2>3, OthersKeepFailedOnes
<1>8. FailedOnes(c)'
  BY <1>2 DEF FailedOnes, InProgress
<1> QED BY <1>5, <1>6, <1>7, <1>8

LEMMA DefinitiveKeepsDownIInv ==
  ASSUME TypeOK, TypeOK', DownIInv, NEW c \in Callers, Definitive(c)
  PROVE  DownIInv'
<1>1. /\ UNCHANGED <<state, weather>>
      /\ \A d \in Callers \ {c} : call'[d] = call[d]
      /\ call'[c] = Ended("definitive")
  BY DEF Definitive, TypeOK, CallTypeOK
<1>2. call'[c].pc = "definitive" /\ call'[c].age = 0 /\ call'[c].attempt = 0
  BY <1>1 DEF Ended
<1>3. AgesBounded'
  BY <1>1, <1>2, AgesAfter DEF DownIInv
<1>4. SUFFICES ASSUME SomeUp
               PROVE  /\ UpIsClosed'
                      /\ \A d \in Callers : call'[d].pc # "thrown"
                      /\ \A d \in Callers : FailedOnes(d)'
  BY <1>1, <1>3 DEF DownIInv, SomeUp
<1>5. UpIsClosed' /\ \A d \in Callers : call'[d].pc # "thrown"
  BY <1>1, <1>2, <1>4 DEF DownIInv, UpIsClosed
<1>6. ASSUME NEW d \in Callers \ {c} PROVE FailedOnes(d)'
  <2>1. FailedOnes(d) /\ call'[d] = call[d]
    BY <1>1, <1>4 DEF DownIInv
  <2>2. \A j \in Hosts : state'[j] = state[j] /\ state[j].sinceOpened <= state[j].sinceOpened
    BY <1>1 DEF TypeOK, BreakerTypeOK, BreakerState
  <2> QED BY <1>1, <2>1, <2>2, OthersKeepFailedOnes
<1>7. FailedOnes(c)'
  BY <1>2 DEF FailedOnes, InProgress
<1> QED BY <1>5, <1>6, <1>7

\* There are fewer hosts that are down than a lookup has attempts.
LEMMA FewAreDown ==
  ASSUME TypeOK, SomeUp, NEW F \in SUBSET (Hosts \ weather.up)
  PROVE  IsFiniteSet(F) /\ Cardinality(F) \in Nat /\ Cardinality(F) <= RETRIES
<1>1. IsFiniteSet(Hosts) /\ Cardinality(Hosts) = N
  BY FS_Interval DEF Hosts
<1>2. F \in SUBSET Hosts /\ F # Hosts
  BY DEF SomeUp, TypeOK
<1>3. IsFiniteSet(F) /\ Cardinality(F) <= N /\ Cardinality(F) # N
  BY <1>1, <1>2, FS_Subset
<1>4. Cardinality(F) \in Nat
  BY <1>3, FS_CardinalityType
<1> QED BY <1>3, <1>4 DEF SomeUp

\* The host that fails an attempt was not among those that failed one before.
LEMMA FailKeepsDownIInv ==
  ASSUME TypeOK, TypeOK', DownIInv, NEW c \in Callers, Fail(c)
  PROVE  DownIInv'
<1>0. PICK h : h = call[c].host
  OBVIOUS
<1>1. /\ Querying(c) /\ h \in Hosts /\ h \notin weather.up /\ UNCHANGED weather
      /\ \A j \in Hosts \ {h} : state'[j] = state[j]
      /\ state'[h].state = "open" /\ state'[h].sinceOpened = 0
      /\ \A d \in Callers \ {c} : call'[d] = call[d]
  BY <1>0 DEF Fail, RecordFailure, AfterFailure, TypeOK, BreakerTypeOK, CallTypeOK, Call
<1>2. /\ call[c].attempt < RETRIES =>
           /\ call'[c].pc = "backoff" /\ call'[c].age = 0
           /\ call'[c].attempt = call[c].attempt
      /\ ~(call[c].attempt < RETRIES) => call'[c] = Ended("thrown")
      /\ call[c].attempt \in 0..RETRIES
  BY DEF Fail, AfterFailure, TypeOK, CallTypeOK, Call
<1>3. AgesBounded'
  <2>1. call'[c].age = 0 /\ call'[c].attempt \in Nat
    BY <1>2 DEF Ended
  <2> QED BY <1>1, <2>1, AgesAfter DEF DownIInv
<1>4. SUFFICES ASSUME SomeUp
               PROVE  /\ UpIsClosed'
                      /\ \A d \in Callers : call'[d].pc # "thrown"
                      /\ \A d \in Callers : FailedOnes(d)'
  BY <1>1, <1>3 DEF DownIInv, SomeUp
<1>5. UpIsClosed'
  BY <1>1, <1>4 DEF DownIInv, UpIsClosed, TypeOK
<1>6. ASSUME NEW d \in Callers \ {c} PROVE FailedOnes(d)'
  <2>1. FailedOnes(d) /\ call'[d] = call[d]
    BY <1>1, <1>4 DEF DownIInv
  <2>2. \A j \in Hosts : /\ state[j].sinceOpened \in Nat
                         /\ state'[j].state = state[j].state \/ state'[j].state = "open"
                         /\ state'[j].sinceOpened = state[j].sinceOpened \/ state'[j].sinceOpened = 0
    BY <1>1 DEF TypeOK, BreakerTypeOK, BreakerState
  <2> QED BY <1>1, <2>1, <2>2, OthersKeepFailedOnes
<1>7. PICK F \in SUBSET (Hosts \ weather.up) : OutOfTheWay(c, F)
  BY <1>1, <1>4 DEF DownIInv, FailedOnes, InProgress, Querying
<1>8. /\ Cardinality(F \cup {h}) = call[c].attempt + 1
      /\ F \cup {h} \in SUBSET (Hosts \ weather.up)
  <2>1. Cardinality(F) = call[c].attempt /\ h \notin F
    BY <1>0, <1>1, <1>7 DEF OutOfTheWay, Failed
  <2>2. IsFiniteSet(F)
    BY <1>4, FewAreDown
  <2>3. Cardinality(F \cup {h}) = Cardinality(F) + 1
    BY <2>1, <2>2, FS_AddElement
  <2>4. F \cup {h} \in SUBSET (Hosts \ weather.up)
    BY <1>1
  <2> QED BY <2>1, <2>3, <2>4
<1>9. call[c].attempt < RETRIES
  <2>1. call[c].attempt + 1 <= RETRIES
    BY <1>4, <1>8, FewAreDown
  <2> QED BY <1>2, <2>1
<1>10. \A d \in Callers : call'[d].pc # "thrown"
  BY <1>1, <1>2, <1>4, <1>9 DEF DownIInv
<1>11. FailedOnes(c)'
  <2> DEFINE G == F \cup {h}
  <2>1. /\ Failed(c)' = call[c].attempt + 1 /\ ~Querying(c)'
    BY <1>2, <1>9 DEF Failed, Querying
  <2>2. Elapsed(c)' \in Nat /\ Elapsed(c) \in Nat /\ Elapsed(c) <= Elapsed(c)'
    <3> DEFINE base == call[c].attempt * Round
    <3>1. base \in Nat /\ call[c].age \in Nat /\ call[c].age <= ATTEMPT_MS
      BY <1>1, <1>2, RoundType, OneMore DEF DownIInv, AgesBounded, TypeOK, CallTypeOK, Call
    <3>2. Elapsed(c) = base + 0 + call[c].age /\ Elapsed(c)' = base + ATTEMPT_MS + 0
      BY <1>1, <1>2, <1>9, <2>1 DEF Elapsed
    <3> HIDE DEF base
    <3> QED BY <3>1, <3>2
  <2>3. ASSUME Elapsed(c)' < INITIAL_COOLDOWN_MS, NEW j \in G
        PROVE  state'[j].state = "open" /\ state'[j].sinceOpened <= Elapsed(c)'
    <3>1. CASE j = h
      BY <1>1, <2>2, <3>1
    <3>2. CASE j \in F /\ j # h
      <4>1. state[j].state = "open" /\ state[j].sinceOpened <= Elapsed(c) /\ j \in Hosts
        BY <1>7, <2>2, <2>3, <3>2 DEF OutOfTheWay
      <4>2. state'[j] = state[j] /\ state[j].sinceOpened \in Nat
        BY <1>1, <3>2, <4>1 DEF TypeOK, BreakerTypeOK, BreakerState
      <4> QED BY <2>2, <4>1, <4>2
    <3> QED BY <3>1, <3>2
  <2>4. Cardinality(G) = Failed(c)' /\ G \in SUBSET (Hosts \ weather.up)'
    BY <1>1, <1>8, <2>1
  <2> HIDE DEF G
  <2>5. OutOfTheWay(c, G)'
    BY <2>1, <2>3, <2>4 DEF OutOfTheWay
  <2> QED BY <2>4, <2>5 DEF FailedOnes
<1> QED BY <1>5, <1>6, <1>10, <1>11

LEMMA TickKeepsDownIInv ==
  ASSUME TypeOK, TypeOK', DownIInv, Tick
  PROVE  DownIInv'
<1>1. ASSUME NEW d \in Callers
      PROVE  /\ call'[d].pc = call[d].pc /\ call'[d].host = call[d].host
             /\ call'[d].attempt = call[d].attempt /\ call[d].attempt \in Nat
             /\ call[d].pc \notin InProgress => call'[d] = call[d]
             /\ call[d].pc \in InProgress => call'[d].age = call[d].age + 1
             /\ call[d].age \in Nat
             /\ Querying(d) => call[d].age < ATTEMPT_MS
             /\ call[d].pc = "backoff" => call[d].age < BackoffOf(d)
  BY DEF Tick, TypeOK, CallTypeOK, Call, Querying, InProgress
<1>2. ASSUME NEW j \in Hosts
      PROVE  /\ state'[j].state = state[j].state
             /\ state[j].sinceOpened \in Nat /\ state'[j].sinceOpened \in Nat
             /\ state'[j].sinceOpened <= state[j].sinceOpened + 1
             /\ state[j] = Closed => state'[j] = Closed
  <2>1. state'[j] = IF state[j].state = "open" /\ state[j].sinceOpened < state[j].cooldownMs
                    THEN [state[j] EXCEPT !.sinceOpened = @ + 1] ELSE state[j]
    BY DEF Tick, BreakerTick
  <2>2. state[j] \in BreakerState
    BY DEF TypeOK, BreakerTypeOK
  <2>3. state[j] = Closed => state'[j] = Closed
    BY <2>1 DEF Closed
  <2> QED BY <2>1, <2>2, <2>3 DEF BreakerState
<1>3. UNCHANGED weather
  BY DEF Tick
<1>4. AgesBounded'
  <2>1. ASSUME NEW d \in Callers, Querying(d)' PROVE call'[d].age <= ATTEMPT_MS
    BY <1>1, <2>1 DEF Querying, InProgress
  <2>2. ASSUME NEW d \in Callers, call'[d].pc = "backoff" PROVE call'[d].age <= BackoffOf(d)'
    <3>1. BackoffOf(d)' = BackoffOf(d) /\ BackoffOf(d) \in Nat
      BY <1>1, OneMore DEF BackoffOf
    <3> QED BY <1>1, <2>2, <3>1 DEF InProgress
  <2> QED BY <2>1, <2>2 DEF AgesBounded
<1>5. SUFFICES ASSUME SomeUp
               PROVE  /\ UpIsClosed'
                      /\ \A d \in Callers : call'[d].pc # "thrown"
                      /\ \A d \in Callers : FailedOnes(d)'
  BY <1>3, <1>4 DEF DownIInv, SomeUp
<1>6. UpIsClosed'
  BY <1>2, <1>3, <1>5 DEF DownIInv, UpIsClosed, TypeOK
<1>7. \A d \in Callers : call'[d].pc # "thrown"
  BY <1>1, <1>5 DEF DownIInv
<1>8. ASSUME NEW d \in Callers, call[d].pc \in InProgress PROVE FailedOnes(d)'
  <2>1. PICK F \in SUBSET (Hosts \ weather.up) : OutOfTheWay(d, F)
    BY <1>5, <1>8 DEF DownIInv, FailedOnes
  <2>2. Failed(d)' = Failed(d) /\ Querying(d)' = Querying(d)
    BY <1>1 DEF Failed, Querying
  <2>3. Elapsed(d)' = Elapsed(d) + 1 /\ Elapsed(d) \in Nat
    <3> DEFINE base == call[d].attempt * Round
    <3>1. base \in Nat /\ call'[d].attempt * Round = base
      BY <1>1, RoundType, OneMore
    <3> HIDE DEF base
    <3>2. /\ Elapsed(d) = base + (IF Querying(d) THEN 0 ELSE ATTEMPT_MS) + call[d].age
          /\ Elapsed(d)' = base + (IF Querying(d) THEN 0 ELSE ATTEMPT_MS) + (call[d].age + 1)
      BY <1>1, <1>8, <2>2, <3>1 DEF Elapsed, base
    <3> QED BY <1>1, <3>1, <3>2
  <2>4. ASSUME Elapsed(d)' < INITIAL_COOLDOWN_MS, NEW j \in F
        PROVE  state'[j].state = "open" /\ state'[j].sinceOpened <= Elapsed(d)'
    <3>1. state[j].state = "open" /\ state[j].sinceOpened <= Elapsed(d) /\ j \in Hosts
      BY <2>1, <2>3, <2>4 DEF OutOfTheWay
    <3> QED BY <1>2, <2>3, <3>1
  <2>5. OutOfTheWay(d, F)'
    BY <1>1, <2>1, <2>2, <2>4 DEF OutOfTheWay
  <2> QED BY <1>3, <2>1, <2>5 DEF FailedOnes
<1>9. ASSUME NEW d \in Callers, call[d].pc \notin InProgress PROVE FailedOnes(d)'
  BY <1>1, <1>9 DEF FailedOnes
<1> QED BY <1>6, <1>7, <1>8, <1>9

\* While one backend is up and the others are down, and there are attempts
\* for all of them, no lookup exhausts its attempts, if the first cooldown
\* lasts until the last attempt begins: with the 2 retries, 8 s for an attempt
\* and 150 ms of the code, 16.6 s, and the cooldown is 30 s.
THEOREM LookupsSurviveDownHosts ==
  ASSUME CooldownOutlasts
  PROVE  Spec => []SurvivesDownHosts
<1>1. Init => DownIInv
  <2> SUFFICES ASSUME Init PROVE DownIInv
    OBVIOUS
  <2>1. \A c \in Callers : call[c].pc = "idle"
    BY DEF Init, Ended
  <2>2. UpIsClosed
    BY DEF Init, BreakerInit, UpIsClosed, NameShowAssumption
  <2> QED BY <2>1, <2>2 DEF DownIInv, AgesBounded, FailedOnes, Querying, InProgress
<1>2. TypeOK /\ TypeOK' /\ DownIInv /\ [Next]_vars => DownIInv'
  <2> SUFFICES ASSUME TypeOK, TypeOK', DownIInv, [Next]_vars PROVE DownIInv'
    OBVIOUS
  <2>1. ASSUME NEW c \in Callers, Start(c) PROVE DownIInv'
    BY <2>1, AttemptKeepsDownIInv DEF Start
  <2>2. ASSUME NEW c \in Callers, Retry(c) PROVE DownIInv'
    <3>1. call[c].attempt + 1 \in 0..RETRIES
      BY <2>2 DEF Retry, TypeOK, CallTypeOK, Call
    <3> QED BY <2>2, <3>1, AttemptKeepsDownIInv DEF Retry
  <2>3. CASE UNCHANGED vars
    <3>1. AgesBounded' /\ SomeUp' = SomeUp /\ UpIsClosed' = UpIsClosed
      BY <2>3 DEF vars, DownIInv, AgesBounded, Querying, BackoffOf, SomeUp, UpIsClosed
    <3>2. ASSUME NEW d \in Callers, FailedOnes(d) PROVE FailedOnes(d)'
      BY <2>3, <3>2 DEF vars, FailedOnes, OutOfTheWay, Failed, Elapsed, Querying
    <3> QED BY <2>3, <3>1, <3>2 DEF vars, DownIInv
  <2> QED BY <2>1, <2>2, <2>3, AnswerKeepsDownIInv, FailKeepsDownIInv,
             DefinitiveKeepsDownIInv, TickKeepsDownIInv DEF Next
<1>3. DownIInv => SurvivesDownHosts
  BY DEF DownIInv, SomeUp, SurvivesDownHosts
<1> QED BY <1>1, <1>2, <1>3, TypeCorrect, PTL DEF Spec
=============================================================================
