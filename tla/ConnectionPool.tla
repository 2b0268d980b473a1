--------------------------- MODULE ConnectionPool ---------------------------
(***************************************************************************)
(* The pool of warm connections (PooledConnection and _queryPooled of      *)
(* src/src/electrumx.js), for one host: lookups share a connection, each   *)
(* with one call after the other; the connection is closed when it has     *)
(* been idle for a while.                                                  *)
(*                                                                         *)
(* The event loop matters here.  A reply settles a promise; the lookup     *)
(* that awaits it goes on some turns of the microtask queue later, and one *)
(* chunk of data may hold several replies.  turns is that queue: each of   *)
(* its entries says who goes on, with what, after how many more hops.      *)
(* Sockets and timers act when it is empty.                                *)
(***************************************************************************)
EXTENDS Integers, Sequences, FiniteSets

CONSTANTS Callers,
          Conns,          \* connection objects, reused once nothing is left of them
          NoConn, Nobody,
          KEEPALIVE_MS,   \* poolKeepaliveMs
          REQUEST_MS,     \* timeoutMs of a call
          HANDSHAKE_MS,   \* VERSION_HANDSHAKE_TIMEOUT_MS
          MAX_CALLS,      \* bound on the calls of a lookup: version, history, others
          MAX_CHUNK,      \* bound on the replies in one chunk of data
          CLOSES          \* TRUE: the client may be closed

VARIABLES pool,     \* the connection in the pool, or NoConn
          conn,     \* the connection objects
          caller,
          turns,
          chunk     \* the chunk of data that is being read, if one is

vars == <<pool, conn, caller, turns, chunk>>

ASSUME PoolAssumption ==
  /\ {KEEPALIVE_MS, REQUEST_MS, HANDSHAKE_MS, MAX_CALLS, MAX_CHUNK} \subseteq Nat \ {0}
  /\ HANDSHAKE_MS < REQUEST_MS
  /\ NoConn \notin Conns /\ Nobody \notin Callers /\ IsFiniteSet(Callers)
  /\ CLOSES \in BOOLEAN

Off == 0                  \* no idle timer; otherwise it fires at 1
NoChunk == [from |-> NoConn, left |-> 0]
Made == [socket |-> "none", connecting |-> FALSE, dead |-> FALSE,
         pending |-> {}, idle |-> Off]
Free == [pc |-> "idle", conn |-> NoConn, call |-> 0]

\* A call waits for its reply: whose it is (Nobody's when the lookup has given
\* up on it), which call of the lookup it is, and how long it has waited.
Calls == [by : Callers \cup {Nobody}, call : 1..MAX_CALLS, age : 0..REQUEST_MS]

Turn == [by : Callers, act : {"begin", "next", "end"}, hops : 1..3]

ConnState == [socket : {"none", "open"}, connecting : BOOLEAN, dead : BOOLEAN,
              pending : SUBSET Calls, idle : 0..KEEPALIVE_MS + 1]

CallerState == [pc : {"idle", "connecting", "calling"},
                conn : Conns \cup {NoConn}, call : 0..MAX_CALLS]

TypeOK ==
  /\ pool \in Conns \cup {NoConn}
  /\ conn \in [Conns -> ConnState]
  /\ caller \in [Callers -> CallerState]
  /\ \A i \in DOMAIN turns : turns[i] \in Turn
  /\ chunk \in [from : Conns \cup {NoConn}, left : 0..MAX_CHUNK - 1]

Init ==
  /\ pool = NoConn
  /\ conn = [k \in Conns |-> Made]
  /\ caller = [c \in Callers |-> Free]
  /\ turns = <<>>
  /\ chunk = NoChunk

Quiet == turns = <<>>

TurnOf(c, act, hops) == [by |-> c, act |-> act, hops |-> hops]

\* Hops until a lookup that has been answered (or refused) makes its next
\* call, or until request ends: the handshake has a promise more around it,
\* and what follows the history runs in one async function more.
NextHops(call) == IF call = 1 THEN 2 ELSE 1
EndHops(call)  == IF call = 2 THEN {2, 3} ELSE {3}

\* The queue grows by one turn for each caller in a set, in any order.
QueueAll(set, act, hops) ==
  \E order \in {f \in [1..Cardinality(set) -> set] : {f[i] : i \in DOMAIN f} = set} :
    turns' = turns \o [i \in DOMAIN order |-> TurnOf(order[i], act, hops)]

Users(k)   == {c \in Callers : caller[c].conn = k}
Waiters(k) == {c \in Users(k) : caller[c].pc = "connecting"}

(***************************************************************************)
(* _queryPooled and the beginning of request.                              *)
(***************************************************************************)
Unused(k) == Users(k) = {} /\ pool # k /\ conn[k].socket # "open" /\ ~conn[k].connecting

\* Mutant of Request: a connection that is still connecting is not reused.
RequestUpOnly(c) ==
  /\ Quiet
  /\ caller[c].pc = "idle"
  /\ \E k \in Conns :
       LET usable == pool # NoConn /\ conn[pool].socket = "open"
       IN  /\ IF usable THEN k = pool ELSE Unused(k)
           /\ pool' = k
           /\ caller' = [caller EXCEPT ![c] = [pc |-> "connecting", conn |-> k, call |-> 0]]
           /\ IF usable
              THEN turns' = <<TurnOf(c, "begin", 1)>> /\ UNCHANGED conn
              ELSE conn' = [conn EXCEPT ![k] = [Made EXCEPT !.connecting = TRUE]]
                   /\ UNCHANGED turns
  /\ chunk' = NoChunk

\* The connection is reused unless it is dead, and made if it has none; it
\* connects unless it is connected or connecting already.
Request(c) ==
  /\ Quiet
  /\ caller[c].pc = "idle"
  /\ \E k \in Conns :
       LET usable == pool # NoConn /\ ~conn[pool].dead
           kept   == IF usable THEN conn[k] ELSE Made
       IN  /\ IF usable THEN k = pool ELSE Unused(k)
           /\ pool' = k
           /\ caller' = [caller EXCEPT ![c] = [pc |-> "connecting", conn |-> k, call |-> 0]]
           /\ IF kept.socket = "open"
              THEN conn' = [conn EXCEPT ![k] = kept] /\ turns' = <<TurnOf(c, "begin", 1)>>
              ELSE conn' = [conn EXCEPT ![k] = [kept EXCEPT !.connecting = TRUE]]
                   /\ UNCHANGED turns
  /\ chunk' = NoChunk

\* Nothing stops a connection that comes up when its object is dead already.
Connected(k) ==
  /\ Quiet
  /\ conn[k].connecting
  /\ conn' = [conn EXCEPT ![k].connecting = FALSE, ![k].socket = "open"]
  /\ QueueAll(Waiters(k), "begin", 1)
  /\ chunk' = NoChunk
  /\ UNCHANGED <<pool, caller>>

\* Refused, timed out, or the pins do not match.
ConnectFails(k) ==
  /\ Quiet
  /\ conn[k].connecting
  /\ conn' = [conn EXCEPT ![k].connecting = FALSE]
  /\ caller' = [c \in Callers |-> IF c \in Waiters(k) THEN Free ELSE caller[c]]
  /\ chunk' = NoChunk
  /\ UNCHANGED <<pool, turns>>

(***************************************************************************)
(* Turns of the microtask queue.                                           *)
(***************************************************************************)
\* _call fails on a connection that is gone; the lookup then ends.
MakeCall(c, k, call, state) ==
  IF state.dead \/ state.socket # "open"
  THEN /\ turns' = Append(Tail(turns), TurnOf(c, "end", 2))
       /\ conn' = [conn EXCEPT ![k] = state]
       /\ caller' = [caller EXCEPT ![c].pc = "calling"]
  ELSE /\ turns' = Tail(turns)
       /\ conn' = [conn EXCEPT ![k] =
            [state EXCEPT !.pending = @ \cup {[by |-> c, call |-> call, age |-> 0]}]]
       /\ caller' = [caller EXCEPT ![c].pc = "calling", ![c].call = call]

\* request goes on once connected: it cancels the idle timer.
Begin(c, k) ==
  IF conn[k].dead
  THEN /\ turns' = Tail(turns)
       /\ caller' = [caller EXCEPT ![c] = Free]
       /\ UNCHANGED conn
  ELSE MakeCall(c, k, 1, [conn[k] EXCEPT !.idle = Off])

\* _scheduleIdle
Idling(state) ==
  [state EXCEPT !.idle = IF state.dead \/ state.pending # {} THEN Off ELSE KEEPALIVE_MS + 1]

Finish(c, k) ==
  /\ turns' = Tail(turns)
  /\ caller' = [caller EXCEPT ![c] = Free]
  /\ conn' = [conn EXCEPT ![k] = Idling(conn[k])]

RunTurn ==
  /\ ~Quiet
  /\ chunk' = NoChunk
  /\ UNCHANGED pool
  /\ LET t == Head(turns)
         c == t.by
         k == caller[c].conn
     IN  \/ /\ t.hops > 1
            /\ turns' = Append(Tail(turns), [t EXCEPT !.hops = @ - 1])
            /\ UNCHANGED <<conn, caller>>
         \/ t.hops = 1 /\ t.act = "begin" /\ Begin(c, k)
         \/ t.hops = 1 /\ t.act = "next"  /\ MakeCall(c, k, caller[c].call + 1, conn[k])
         \/ t.hops = 1 /\ t.act = "end"   /\ Finish(c, k)

(***************************************************************************)
(* Sockets and timers.                                                     *)
(***************************************************************************)
\* How a lookup may go on after the reply to a call, or its failure: with its
\* next call, or to its end.  A version or a history that fails is the end.
Onward(call, failed) ==
  (IF call.call < MAX_CALLS /\ (failed => call.call > 2)
   THEN {TurnOf(call.by, "next", NextHops(call.call))} ELSE {})
  \cup
  (IF call.call > 1 \/ failed
   THEN {TurnOf(call.by, "end", h) : h \in EndHops(call.call)} ELSE {})

Settle(call, failed) ==
  IF call.by = Nobody THEN UNCHANGED turns
  ELSE \E t \in Onward(call, failed) : turns' = Append(turns, t)

\* _onData: a reply, the first of a chunk or one more of the same chunk.
Reply(k, call, failed) ==
  /\ Quiet \/ (chunk.from = k /\ chunk.left > 0)
  /\ conn' = [conn EXCEPT ![k].pending = @ \ {call}]
  /\ Settle(call, failed)
  /\ chunk' = [from |-> k, left |-> IF Quiet THEN MAX_CHUNK - 1 ELSE chunk.left - 1]
  /\ UNCHANGED <<pool, caller>>

CallTimesOut(k, call) ==
  /\ Quiet
  /\ call.age = REQUEST_MS
  /\ conn' = [conn EXCEPT ![k].pending = @ \ {call}]
  /\ Settle(call, TRUE)
  /\ chunk' = NoChunk
  /\ UNCHANGED <<pool, caller>>

\* The lookup gives up on the handshake; its call still waits for a reply.
HandshakeTimesOut(k, call) ==
  /\ Quiet
  /\ call.call = 1 /\ call.by # Nobody /\ call.age = HANDSHAKE_MS
  /\ conn' = [conn EXCEPT ![k].pending = (@ \ {call}) \cup {[call EXCEPT !.by = Nobody]}]
  /\ turns' = <<TurnOf(call.by, "end", 2)>>
  /\ chunk' = NoChunk
  /\ UNCHANGED <<pool, caller>>

\* Mutant of Kill: the pending calls are not rejected.
KillQuietly(k) ==
  /\ Quiet
  /\ conn' = [conn EXCEPT ![k] = [@ EXCEPT !.dead = TRUE, !.socket = "none",
                                          !.idle = Off, !.pending = {}]]
  /\ pool' = IF pool = k THEN NoConn ELSE pool
  /\ chunk' = NoChunk
  /\ UNCHANGED <<turns, caller>>

\* _kill, of a connection that is not dead.
Kill(k) ==
  /\ Quiet
  /\ conn' = [conn EXCEPT ![k] = [@ EXCEPT !.dead = TRUE, !.socket = "none",
                                          !.idle = Off, !.pending = {}]]
  /\ pool' = IF pool = k THEN NoConn ELSE pool
  /\ QueueAll({call.by : call \in conn[k].pending} \ {Nobody}, "end", 2)
  /\ chunk' = NoChunk
  /\ UNCHANGED caller

SocketEnds(k) == conn[k].socket = "open" /\ ~conn[k].dead /\ Kill(k)

IdleFires(k)  == conn[k].idle = 1 /\ Kill(k)

\* close of the client; of its pool it destroys what is there now.
Close == CLOSES /\ pool # NoConn /\ Kill(pool)

Tick ==
  /\ Quiet
  /\ \A k \in Conns : /\ conn[k].idle # 1
                       /\ \A call \in conn[k].pending :
                            /\ call.age < REQUEST_MS
                            /\ call.call = 1 /\ call.by # Nobody => call.age < HANDSHAKE_MS
  /\ conn' = [k \in Conns |->
       [conn[k] EXCEPT !.idle = IF @ = Off THEN Off ELSE @ - 1,
                       !.pending = {[call EXCEPT !.age = @ + 1] : call \in @}]]
  /\ chunk' = NoChunk
  /\ UNCHANGED <<pool, caller, turns>>

Sockets(k) == \/ \E call \in conn[k].pending :
                    \/ \E failed \in BOOLEAN : Reply(k, call, failed)
                    \/ CallTimesOut(k, call) \/ HandshakeTimesOut(k, call)
              \/ Connected(k) \/ ConnectFails(k) \/ SocketEnds(k) \/ IdleFires(k)

Next == RunTurn \/ Close \/ Tick
        \/ (\E c \in Callers : Request(c)) \/ (\E k \in Conns : Sockets(k))

Spec == Init /\ [][Next]_vars

\* Turns are run; time passes, and between any two chunks of data the event
\* loop serves the timers that are due and the connections that are up or have
\* failed (rawConnect has a timeout), which is why these are strongly fair:
\* turns disable them again and again.
FairSpec == /\ Spec
            /\ WF_vars(RunTurn) /\ SF_vars(Tick)
            /\ \A k \in Conns :
                 /\ SF_vars(Connected(k) \/ ConnectFails(k))
                 /\ SF_vars(IdleFires(k))
                 /\ SF_vars(\E call \in conn[k].pending :
                              CallTimesOut(k, call) \/ HandshakeTimesOut(k, call))

-----------------------------------------------------------------------------
(* Properties *)

\* A lookup under way has exactly one thing that will wake it: its connection
\* that is coming up, a reply it waits for on a live connection, or a turn.
\* No kill, timeout or late reply loses a lookup or wakes it twice.
AwaitedCalls(c) ==
  {w \in Conns \X Calls : w[2] \in conn[w[1]].pending /\ w[2].by = c}

TurnsOf(c) == {i \in DOMAIN turns : turns[i].by = c}

OneWake ==
  \A c \in Callers :
    LET k == caller[c].conn
        coming == IF caller[c].pc = "connecting" /\ conn[k].connecting THEN 1 ELSE 0
    IN  /\ coming + Cardinality(AwaitedCalls(c)) + Cardinality(TurnsOf(c))
             = (IF caller[c].pc = "idle" THEN 0 ELSE 1)
        /\ \A w \in AwaitedCalls(c) : w[1] = k /\ conn[k].socket = "open" /\ ~conn[k].dead

\* There is never more than one live connection to the host, and the pool
\* holds it; the pool holds no dead one.  (The state has its type throughout.)
OneLiveConnection ==
  /\ TypeOK
  /\ \A k \in Conns : ~conn[k].dead /\ (conn[k].socket = "open" \/ conn[k].connecting)
                        <=> k = pool /\ (conn[k].socket = "open" \/ conn[k].connecting)

\* Every lookup ends, whatever servers and connections do.
RequestEnds == \A c \in Callers : caller[c].pc # "idle" ~> caller[c].pc = "idle"
=============================================================================
