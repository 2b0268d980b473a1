---------------------------- MODULE HostBreaker ----------------------------
(***************************************************************************)
(* The circuit breaker over the list of ElectrumX backends                 *)
(* (src/src/circuit.js).  A host is "closed" (usable), "open" (skipped     *)
(* until its cooldown has elapsed) or "half-open" (one probe slot).        *)
(*                                                                         *)
(* The code stores the absolute time openedAt and reads only               *)
(* now - openedAt >= cooldownMs, so the model keeps the elapsed time       *)
(* sinceOpened, saturated at cooldownMs; behaviours are then unbounded in  *)
(* time over finitely many states.  The failures counter is only logged    *)
(* and is left out.                                                        *)
(***************************************************************************)
EXTENDS Integers

CONSTANTS N,                    \* number of backends
          INITIAL_COOLDOWN_MS,  \* cooldown after the first failure
          MAX_COOLDOWN_MS       \* cap of the exponential backoff

ASSUME BreakerAssumption ==
  /\ N \in Nat \ {0}
  /\ INITIAL_COOLDOWN_MS \in Nat \ {0}
  /\ MAX_COOLDOWN_MS \in Nat
  /\ INITIAL_COOLDOWN_MS <= MAX_COOLDOWN_MS

VARIABLES state,    \* per host: breaker record
          cursor    \* where the next round-robin walk starts

Hosts == 0..(N - 1)

BreakerState ==
  [state            : {"closed", "open", "half-open"},
   sinceOpened      : 0..MAX_COOLDOWN_MS,
   cooldownMs       : INITIAL_COOLDOWN_MS..MAX_COOLDOWN_MS,
   halfOpenInFlight : BOOLEAN]

Closed == [state |-> "closed", sinceOpened |-> 0,
           cooldownMs |-> INITIAL_COOLDOWN_MS, halfOpenInFlight |-> FALSE]

BreakerTypeOK ==
  /\ state \in [Hosts -> BreakerState]
  /\ cursor \in Hosts

BreakerInit ==
  /\ state = [i \in Hosts |-> Closed]
  /\ cursor = 0

(***************************************************************************)
(* pickNext                                                                *)
(***************************************************************************)
\* Mutant of Cooled: any time since the failure will do.
CooledAtOnce(i) == state[i].state = "open" /\ state[i].sinceOpened >= 0

Cooled(i) == state[i].state = "open" /\ state[i].sinceOpened >= state[i].cooldownMs

\* The breaker after the wake-up loop at the head of pickNext.
Woken == [i \in Hosts |->
            IF Cooled(i)
            THEN [state[i] EXCEPT !.state = "half-open", !.halfOpenInFlight = FALSE]
            ELSE state[i]]

\* Mutant of Available: the probe slot is not looked at.
AvailableSlotOrNot(i) == Woken[i].state \in {"closed", "half-open"}

Available(i) == \/ Woken[i].state = "closed"
                \/ Woken[i].state = "half-open" /\ ~Woken[i].halfOpenInFlight

\* Mutant of Ahead: the walk begins at the head of the list.
AheadOfFirst(step) == step % N

Ahead(step) == (cursor + step) % N

\* i is the first available host of the walk that starts at the cursor.
FirstAvailable(i) ==
  \E step \in 0..(N - 1) :
    /\ i = Ahead(step)
    /\ Available(i)
    /\ \A earlier \in 0..(step - 1) : ~Available(Ahead(earlier))

NoneAvailable == \A i \in Hosts : ~Available(i)

\* The pick occupies the probe slot of a half-open host.
TakesProbe(i) == Available(i) /\ Woken[i].state = "half-open"

PickNext(i) ==
  /\ FirstAvailable(i) \/ (NoneAvailable /\ i = cursor)
  /\ state' = IF TakesProbe(i)
              THEN [Woken EXCEPT ![i].halfOpenInFlight = TRUE]
              ELSE Woken
  /\ cursor' = (i + 1) % N

(***************************************************************************)
(* recordSuccess, recordFailure                                            *)
(***************************************************************************)
RecordSuccess(i) ==
  /\ state' = [state EXCEPT ![i] = Closed]
  /\ UNCHANGED cursor

\* Mutant of NextCooldown: the backoff has no cap.
NextCooldownUncapped(s) ==
  CASE s.state = "half-open" -> 2 * s.cooldownMs
    [] s.state = "closed"    -> INITIAL_COOLDOWN_MS
    [] s.state = "open"      -> s.cooldownMs

NextCooldown(s) ==
  CASE s.state = "half-open" -> IF 2 * s.cooldownMs > MAX_COOLDOWN_MS
                                THEN MAX_COOLDOWN_MS ELSE 2 * s.cooldownMs
    [] s.state = "closed"    -> INITIAL_COOLDOWN_MS
    [] s.state = "open"      -> s.cooldownMs

\* Mutant of RecordFailure: the probe slot is not given back.
RecordFailureKeepsSlot(i) ==
  /\ state' = [state EXCEPT ![i] = [state            |-> "open",
                                    sinceOpened      |-> 0,
                                    cooldownMs       |-> NextCooldown(state[i]),
                                    halfOpenInFlight |-> state[i].halfOpenInFlight]]
  /\ UNCHANGED cursor

RecordFailure(i) ==
  /\ state' = [state EXCEPT ![i] = [state            |-> "open",
                                    sinceOpened      |-> 0,
                                    cooldownMs       |-> NextCooldown(state[i]),
                                    halfOpenInFlight |-> FALSE]]
  /\ UNCHANGED cursor

\* One unit of time passes.
BreakerTick ==
  /\ state' = [i \in Hosts |->
                 IF state[i].state = "open" /\ state[i].sinceOpened < state[i].cooldownMs
                 THEN [state[i] EXCEPT !.sinceOpened = @ + 1]
                 ELSE state[i]]
  /\ UNCHANGED cursor
=============================================================================
