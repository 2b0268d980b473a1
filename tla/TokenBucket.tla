---------------------------- MODULE TokenBucket ----------------------------
(***************************************************************************)
(* The rate limiter of ElectrumX lookups (src/src/ratelimit.js): a bucket  *)
(* that is refilled lazily, whenever somebody looks at it, and callers     *)
(* that poll it, sleeping between polls, until a token is there or their   *)
(* queueMs have passed.                                                    *)
(*                                                                         *)
(* The code counts tokens in floating point.  Here a token is TOKEN units  *)
(* and one millisecond earns RPS units (1000 units and rps per second in   *)
(* the code), so that the arithmetic is exact.  Instead of the time stamp  *)
(* lastRefill the model keeps what has been earned since, saturated at the *)
(* capacity: more than that the next refill would throw away.              *)
(***************************************************************************)
EXTENDS Integers

CONSTANTS Callers,
          TOKEN,      \* units that make one token
          RPS,        \* units earned per unit of time
          CAPACITY,   \* burst, in units
          QUEUE_MS,   \* longest wait for a token
          POLL_MS,    \* shortest sleep between two polls (5 in the code)
          LAG_MS      \* how late a timer may fire

ASSUME TokenBucketAssumption ==
  /\ TOKEN \in Nat \ {0}
  /\ RPS \in Nat \ {0}
  /\ CAPACITY \in Nat \ {0}
  /\ QUEUE_MS \in Nat
  /\ POLL_MS \in Nat \ {0}
  /\ LAG_MS \in Nat

VARIABLES tokens,   \* units in the bucket, as of the last refill
          accrued,  \* units earned since
          acq,      \* per caller: the state of its acquire()
          worst     \* ghost: see RateBound

vars == <<tokens, accrued, acq, worst>>

AtMost(bound, x)  == IF x < bound THEN x ELSE bound
AtLeast(bound, x) == IF x > bound THEN x ELSE bound

Acquire == [pc     : {"idle", "waiting", "granted", "refused"},
            sleep  : Int,   \* time left of the current sleep
            waited : Nat,   \* time since acquire() was called
            outbid : Nat]   \* ghost: tokens others have got since

TypeOK == /\ tokens \in 0..CAPACITY
          /\ accrued \in 0..CAPACITY
          /\ acq \in [Callers -> Acquire]
          /\ worst \in Nat

Init == /\ tokens = CAPACITY
        /\ accrued = 0
        /\ acq = [c \in Callers |->
                   [pc |-> "idle", sleep |-> 0, waited |-> 0, outbid |-> 0]]
        /\ worst = 0

\* Mutant of Refilled: the burst does not cap the bucket.
RefilledUncapped == tokens + accrued

\* What _refill leaves in the bucket.
Refilled == AtMost(CAPACITY, tokens + accrued)

\* ceil((tokensNeeded / rps) * 1000)
WaitForToken == (TOKEN - Refilled + RPS - 1) \div RPS

\* Mutant of WaitFor: the deadline does not cap the sleep.
WaitForTokenOnly(waited) == AtLeast(POLL_MS, WaitForToken)

WaitFor(waited) == AtLeast(POLL_MS, AtMost(QUEUE_MS - waited, WaitForToken))

\* The token goes to c; everybody who waits has been outbid once more.
Granted(c, since) ==
  [d \in Callers |->
     IF d = c THEN [since EXCEPT !.pc = "granted", !.sleep = 0]
     ELSE IF acq[d].pc = "waiting" THEN [acq[d] EXCEPT !.outbid = @ + 1]
     ELSE acq[d]]

\* Nothing to be had: give up at the deadline, or sleep.
Denied(c, since) ==
  [acq EXCEPT ![c] =
     IF since.waited >= QUEUE_MS
     THEN [since EXCEPT !.pc = "refused", !.sleep = 0]
     ELSE [since EXCEPT !.pc = "waiting", !.sleep = WaitFor(since.waited)]]

Take(c, since) ==
  /\ Refilled >= TOKEN
  /\ tokens' = Refilled - TOKEN
  /\ worst' = worst + TOKEN
  /\ acq' = Granted(c, since)

\* Mutant of Miss: a look that finds no token throws away what was earned.
MissForfeits(c, since) ==
  /\ Refilled < TOKEN
  /\ acq' = Denied(c, since)
  /\ UNCHANGED <<tokens, worst>>

Miss(c, since) ==
  /\ Refilled < TOKEN
  /\ tokens' = Refilled
  /\ acq' = Denied(c, since)
  /\ UNCHANGED worst

\* Mutant of Look: lastRefill stays behind, so that time earns tokens twice.
LookWithoutStamp(c, since) ==
  /\ UNCHANGED accrued
  /\ Take(c, since) \/ Miss(c, since)

\* One look at the bucket by c: take a token, give up, or sleep; `since` is
\* what has become of its acquire() so far.
Look(c, since) ==
  /\ accrued' = 0
  /\ Take(c, since) \/ Miss(c, since)

\* acquire() is called: tryAcquire and, without an await in between, the
\* first turn of the polling loop.
Call(c) ==
  /\ acq[c].pc # "waiting"
  /\ Look(c, [acq[c] EXCEPT !.waited = 0, !.outbid = 0])

\* Mutant of Poll: every turn of the loop computes the deadline anew.
PollAnew(c) ==
  /\ acq[c].pc = "waiting"
  /\ acq[c].sleep <= 0
  /\ Look(c, [acq[c] EXCEPT !.waited = 0, !.outbid = 0])

\* A sleep is over: the next turn of the loop.
Poll(c) ==
  /\ acq[c].pc = "waiting"
  /\ acq[c].sleep <= 0
  /\ Look(c, acq[c])

\* Time passes; no timer is more than LAG_MS late.
Tick ==
  /\ \A c \in Callers : acq[c].pc = "waiting" => acq[c].sleep > -LAG_MS
  /\ accrued' = AtMost(CAPACITY, accrued + RPS)
  /\ worst' = AtLeast(0, worst - RPS)
  /\ acq' = [c \in Callers |->
               IF acq[c].pc = "waiting"
               THEN [acq[c] EXCEPT !.sleep = @ - 1, !.waited = @ + 1]
               ELSE acq[c]]
  /\ UNCHANGED tokens

Next == (\E c \in Callers : Call(c) \/ Poll(c)) \/ Tick

Spec == Init /\ [][Next]_vars

\* Time passes and timers fire.
FairSpec == Spec /\ WF_vars(Tick) /\ \A c \in Callers : WF_vars(Poll(c))

-----------------------------------------------------------------------------
(* Properties *)

\* The limiter limits: over any stretch of time, of any length, the tokens
\* handed out are at most the burst plus what that time has earned, although
\* the bucket is refilled only when somebody looks.  The ghost `worst` is
\* the largest excess of the tokens granted over the units earned, among all
\* stretches that end now (the empty one included).
RateBound == worst <= CAPACITY

\* RateBound made inductive: the excess and what is left for the next caller
\* share the capacity.
RateIInv == worst + Refilled <= CAPACITY

\* A caller is told "rate limited" only after it has waited queueMs, and it
\* is never kept longer than the shortest sleep and a late timer beyond that.
WaitBound ==
  \A c \in Callers :
    /\ acq[c].pc = "refused" => acq[c].waited >= QUEUE_MS
    /\ acq[c].waited > 0 => acq[c].waited < QUEUE_MS + POLL_MS + LAG_MS

\* Nobody is refused for nothing: what the bucket has earned while a refused
\* caller was waiting has gone to others, or is less than a token.  Polling
\* at different moments must lose no fraction of a token.  (The bucket must
\* have room for what is earned in one sleep; a full one earns nothing.)
RefusedOnlyIfOutbid ==
  (CAPACITY >= TOKEN + RPS * (POLL_MS + LAG_MS))
     => \A c \in Callers :
          acq[c].pc = "refused" => TOKEN * (acq[c].outbid + 1) > RPS * acq[c].waited

\* Every acquire() returns.
EveryAcquireReturns ==
  \A c \in Callers : (acq[c].pc = "waiting") ~> (acq[c].pc \in {"granted", "refused"})
=============================================================================
