------------------------ MODULE ConnectionPoolProofs ------------------------
(***************************************************************************)
(* No lookup is lost or woken twice, and there is one live connection, for *)
(* any number of lookups, of connection objects, of calls and of replies   *)
(* in a chunk, and for all durations.                                      *)
(***************************************************************************)
EXTENDS ConnectionPool, FiniteSetTheorems, TLAPS

USE PoolAssumption DEF PoolAssumption

(***************************************************************************)
(* The queue of turns, as one lookup sees it.                              *)
(***************************************************************************)
Absent(c, queue) == \A i \in DOMAIN queue : queue[i].by # c

Once(c, queue, acts) ==
  \E i \in DOMAIN queue : /\ queue[i].by = c /\ queue[i].act \in acts
                          /\ \A j \in DOMAIN queue : queue[j].by = c => j = i

Begins == {"begin"}
GoesOn == {"next", "end"}

\* The queue is another one, but not for c.
SameFor(c, old, new) ==
  /\ Absent(c, old) => Absent(c, new)
  /\ Once(c, old, Begins) => Once(c, new, Begins)
  /\ Once(c, old, GoesOn) => Once(c, new, GoesOn)
  /\ \A j \in DOMAIN new : new[j].by = c =>
       \E i \in DOMAIN old : old[i].by = c /\ old[i].act = new[j].act

(***************************************************************************)
(* The invariant.                                                          *)
(***************************************************************************)
StateOK ==
  /\ pool \in Conns \cup {NoConn}
  /\ conn \in [Conns -> ConnState]
  /\ caller \in [Callers -> CallerState]
  /\ turns \in Seq(Turn)
  /\ chunk \in [from : Conns \cup {NoConn}, left : 0..MAX_CHUNK - 1]

\* A connection that is connecting has no socket, only a live one has pending
\* calls, and the pool holds it and no dead one.
ConnOK(k) ==
  /\ conn[k].connecting => conn[k].socket = "none"
  /\ conn[k].pending # {} => conn[k].socket = "open" /\ ~conn[k].dead
  /\ conn[k].dead => k # pool
  /\ ~conn[k].dead /\ (conn[k].socket = "open" \/ conn[k].connecting) => k = pool

NoCall(c) == \A k \in Conns : \A call \in conn[k].pending : call.by # c

\* The one call c waits for is the last it made.
OneCall(c) ==
  \E call \in conn[caller[c].conn].pending :
    /\ call.by = c /\ call.call = caller[c].call
    /\ \A k \in Conns : \A other \in conn[k].pending :
         other.by = c => k = caller[c].conn /\ other = call

\* Each lookup has one thing that will wake it, and which one says its pc.
CallerOK(c) ==
  /\ caller[c].pc = "idle" =>
       caller[c].conn = NoConn /\ NoCall(c) /\ Absent(c, turns)
  /\ caller[c].pc # "idle" => caller[c].conn \in Conns
  /\ caller[c].pc = "connecting" =>
       /\ NoCall(c)
       /\ IF conn[caller[c].conn].connecting THEN Absent(c, turns) ELSE Once(c, turns, Begins)
  /\ caller[c].pc = "calling" =>
       \/ NoCall(c) /\ Once(c, turns, GoesOn)
       \/ OneCall(c) /\ Absent(c, turns)
  /\ \A i \in DOMAIN turns :
       turns[i].by = c /\ turns[i].act = "next" => caller[c].call < MAX_CALLS

ConnsOK   == \A k \in Conns : ConnOK(k)
CallersOK == \A c \in Callers : CallerOK(c)

PoolInv == StateOK /\ ConnsOK /\ CallersOK

-----------------------------------------------------------------------------
(***************************************************************************)
(* Lemmas about the queue.                                                 *)
(***************************************************************************)
LEMMA SameForTwice ==
  ASSUME NEW c, NEW a, NEW b, NEW d, SameFor(c, a, b), SameFor(c, b, d)
  PROVE  SameFor(c, a, d)
<1>1. ASSUME NEW j \in DOMAIN d, d[j].by = c
      PROVE  \E i \in DOMAIN a : a[i].by = c /\ a[i].act = d[j].act
  <2>1. PICK k \in DOMAIN b : b[k].by = c /\ b[k].act = d[j].act
    BY <1>1 DEF SameFor
  <2> QED BY <2>1 DEF SameFor
<1> QED BY <1>1 DEF SameFor

\* One more turn.
LEMMA AppendIs ==
  ASSUME NEW queue \in Seq(Turn), NEW t \in Turn
  PROVE  /\ Append(queue, t) \in Seq(Turn)
         /\ \A c : c # t.by => SameFor(c, queue, Append(queue, t))
         /\ Absent(t.by, queue) =>
              /\ t.act \in Begins => Once(t.by, Append(queue, t), Begins)
              /\ t.act \in GoesOn => Once(t.by, Append(queue, t), GoesOn)
         /\ \A j \in DOMAIN Append(queue, t) :
              Append(queue, t)[j] = t \/ \E i \in DOMAIN queue : queue[i] = Append(queue, t)[j]
<1> DEFINE new == Append(queue, t)
           n   == Len(queue)
<1>1. /\ new \in Seq(Turn) /\ n \in Nat
      /\ DOMAIN queue = 1..n /\ DOMAIN new = 1..(n + 1)
      /\ \A i \in 1..n : new[i] = queue[i]
      /\ new[n + 1] = t
  OBVIOUS
<1> HIDE DEF new, n
<1>2. \A j \in DOMAIN new : new[j] = t \/ (j \in DOMAIN queue /\ queue[j] = new[j])
  BY <1>1
<1>3. ASSUME NEW c, c # t.by PROVE SameFor(c, queue, new)
  <2>1. Absent(c, queue) => Absent(c, new)
    BY <1>2, <1>3 DEF Absent
  <2>2. ASSUME NEW acts, Once(c, queue, acts) PROVE Once(c, new, acts)
    <3>1. PICK i \in DOMAIN queue : /\ queue[i].by = c /\ queue[i].act \in acts
                                   /\ \A j \in DOMAIN queue : queue[j].by = c => j = i
      BY <2>2 DEF Once
    <3>2. i \in DOMAIN new /\ new[i] = queue[i]
      BY <1>1
    <3> QED BY <1>2, <1>3, <3>1, <3>2 DEF Once
  <2> QED BY <1>2, <1>3, <2>1, <2>2 DEF SameFor
<1>4. ASSUME Absent(t.by, queue), NEW acts, t.act \in acts PROVE Once(t.by, new, acts)
  <2>1. n + 1 \in DOMAIN new /\ new[n + 1].by = t.by /\ new[n + 1].act \in acts
    BY <1>1, <1>4
  <2>2. ASSUME NEW j \in DOMAIN new, new[j].by = t.by PROVE j = n + 1
    BY <1>1, <1>4, <2>2 DEF Absent
  <2> QED BY <2>1, <2>2 DEF Once
<1> QED BY <1>1, <1>2, <1>3, <1>4 DEF new

\* The first turn is taken.
LEMMA TailIs ==
  ASSUME NEW queue \in Seq(Turn), queue # <<>>
  PROVE  /\ Tail(queue) \in Seq(Turn) /\ Head(queue) \in Turn
         /\ 1 \in DOMAIN queue /\ queue[1] = Head(queue)
         /\ \A c : c # Head(queue).by => SameFor(c, queue, Tail(queue))
         /\ \A acts : Once(Head(queue).by, queue, acts) =>
              Head(queue).act \in acts /\ Absent(Head(queue).by, Tail(queue))
<1> DEFINE new == Tail(queue)
           n   == Len(queue)
           t   == Head(queue)
<1>1. /\ new \in Seq(Turn) /\ n \in Nat \ {0} /\ t \in Turn /\ queue[1] = t
      /\ DOMAIN queue = 1..n /\ DOMAIN new = 1..(n - 1)
      /\ \A i \in 1..(n - 1) : new[i] = queue[i + 1]
  OBVIOUS
<1> HIDE DEF new, n, t
<1>2. \A j \in DOMAIN new : j + 1 \in DOMAIN queue /\ queue[j + 1] = new[j] /\ j + 1 # 1
  BY <1>1
<1>3. ASSUME NEW c, c # t.by PROVE SameFor(c, queue, new)
  <2>1. Absent(c, queue) => Absent(c, new)
    BY <1>2 DEF Absent
  <2>2. ASSUME NEW acts, Once(c, queue, acts) PROVE Once(c, new, acts)
    <3>1. PICK i \in DOMAIN queue : /\ queue[i].by = c /\ queue[i].act \in acts
                                   /\ \A j \in DOMAIN queue : queue[j].by = c => j = i
      BY <2>2 DEF Once
    <3>2. i # 1
      BY <1>1, <1>3, <3>1
    <3>3. i - 1 \in DOMAIN new /\ new[i - 1] = queue[i]
      BY <1>1, <3>2
    <3>4. ASSUME NEW j \in DOMAIN new, new[j].by = c PROVE j = i - 1
      <4>1. j + 1 = i
        BY <1>2, <3>1, <3>4
      <4> QED BY <1>1, <4>1
    <3> QED BY <3>1, <3>3, <3>4 DEF Once
  <2> QED BY <1>2, <2>1, <2>2 DEF SameFor
<1>4. ASSUME NEW acts, Once(t.by, queue, acts) PROVE t.act \in acts /\ Absent(t.by, new)
  <2>1. PICK i \in DOMAIN queue : /\ queue[i].by = t.by /\ queue[i].act \in acts
                                 /\ \A j \in DOMAIN queue : queue[j].by = t.by => j = i
    BY <1>4 DEF Once
  <2>2. 1 \in DOMAIN queue /\ queue[1].by = t.by
    BY <1>1
  <2>3. i = 1
    BY <2>1, <2>2
  <2> QED BY <1>1, <1>2, <2>1, <2>3 DEF Absent
<1> QED BY <1>1, <1>3, <1>4 DEF new, n, t

\* A turn for each member of a set, in an empty queue.
LEMMA QueueAllIs ==
  ASSUME turns = <<>>, NEW set \in SUBSET Callers, NEW act \in {"begin", "next", "end"},
         NEW hops \in 1..3, QueueAll(set, act, hops)
  PROVE  /\ turns' \in Seq(Turn)
         /\ \A c : c \notin set => Absent(c, turns')
         /\ \A c \in set : \A acts : act \in acts => Once(c, turns', acts)
         /\ \A i \in DOMAIN turns' : turns'[i].act = act
<1> DEFINE n == Cardinality(set)
<1>1. IsFiniteSet(set) /\ n \in Nat
  BY FS_Subset, FS_CardinalityType
<1>2. PICK order \in [1..n -> set] :
        /\ {order[i] : i \in DOMAIN order} = set
        /\ turns' = turns \o [i \in DOMAIN order |-> TurnOf(order[i], act, hops)]
  BY DEF QueueAll
<1>3. IsInjective(order)
  <2>1. order \in Surjection(1..n, set)
    BY <1>2 DEF Surjection
  <2>2. IsFiniteSet(1..n) /\ Cardinality(1..n) = n
    BY <1>1, FS_Interval
  <2> HIDE DEF n
  <2>3. n = Cardinality(set)
    BY DEF n
  <2>4. order \in Injection(1..n, set)
    BY <2>1, <2>2, <2>3, FS_SurjSameCardinalityImpliesInj
  <2> QED BY <2>4 DEF Injection
<1> HIDE DEF n
<1>4. /\ turns' \in Seq(Turn) /\ DOMAIN turns' = 1..n
      /\ \A i \in 1..n : turns'[i] = TurnOf(order[i], act, hops)
  <2> DEFINE q == [i \in 1..n |-> TurnOf(order[i], act, hops)]
  <2>1. \A i \in 1..n : TurnOf(order[i], act, hops) \in Turn
    BY <1>2 DEF TurnOf, Turn
  <2>2. q \in Seq(Turn) /\ DOMAIN q = 1..n
    BY <1>1, <2>1
  <2>3. turns' = q
    BY <1>2, <2>2
  <2> QED BY <2>2, <2>3
<1>5. \A i \in 1..n : turns'[i].by = order[i] /\ turns'[i].act = act
  BY <1>4 DEF TurnOf
<1>6. ASSUME NEW c, c \notin set PROVE Absent(c, turns')
  BY <1>2, <1>4, <1>5, <1>6 DEF Absent
<1>7. ASSUME NEW c \in set, NEW acts, act \in acts PROVE Once(c, turns', acts)
  <2>1. PICK i \in 1..n : order[i] = c
    BY <1>2
  <2>2. \A j \in 1..n : order[j] = c => j = i
    BY <1>2, <1>3, <2>1 DEF IsInjective
  <2> QED BY <1>4, <1>5, <1>7, <2>1, <2>2 DEF Once
<1> QED BY <1>4, <1>5, <1>6, <1>7

-----------------------------------------------------------------------------
(***************************************************************************)
(* A lookup that a step does not touch.                                    *)
(***************************************************************************)
SameCalls(c) ==
  \A k \in Conns : \A call : call.by = c => (call \in conn'[k].pending <=> call \in conn[k].pending)

LEMMA OthersKeepOK ==
  ASSUME StateOK, StateOK', NEW c \in Callers, CallerOK(c), caller'[c] = caller[c],
         SameCalls(c), SameFor(c, turns, turns'),
         caller[c].pc = "connecting" =>
           conn'[caller[c].conn].connecting = conn[caller[c].conn].connecting
  PROVE  CallerOK(c)'
<1>1. caller[c].conn \in Conns \cup {NoConn}
  BY DEF StateOK, CallerState
<1>2. NoCall(c) => NoCall(c)'
  BY DEF NoCall, SameCalls
<1>3. ASSUME OneCall(c), caller[c].conn \in Conns PROVE OneCall(c)'
  <2>1. PICK call \in conn[caller[c].conn].pending :
          /\ call.by = c /\ call.call = caller[c].call
          /\ \A k \in Conns : \A other \in conn[k].pending :
               other.by = c => k = caller[c].conn /\ other = call
    BY <1>3 DEF OneCall
  <2>2. call \in conn'[caller[c].conn].pending
    BY <1>3, <2>1 DEF SameCalls
  <2>3. \A k \in Conns : \A other \in conn'[k].pending :
          other.by = c => k = caller[c].conn /\ other = call
    BY <2>1 DEF SameCalls
  <2> QED BY <2>1, <2>2, <2>3 DEF OneCall
<1>4. ASSUME NEW i \in DOMAIN turns', turns'[i].by = c, turns'[i].act = "next"
      PROVE  caller[c].call < MAX_CALLS
  BY <1>4 DEF SameFor, CallerOK
<1>5. caller[c].pc = "connecting" =>
        NoCall(c)' /\ IF conn'[caller[c].conn].connecting THEN Absent(c, turns')
                                                         ELSE Once(c, turns', Begins)
  BY <1>2 DEF CallerOK, SameFor
<1>6. caller[c].pc = "calling" => \/ NoCall(c)' /\ Once(c, turns', GoesOn)
                                  \/ OneCall(c)' /\ Absent(c, turns')
  BY <1>2, <1>3 DEF CallerOK, SameFor
<1>7. caller[c].pc = "idle" => caller[c].conn = NoConn /\ NoCall(c)' /\ Absent(c, turns')
  BY <1>2 DEF CallerOK, SameFor
<1>8. caller[c].pc # "idle" => caller[c].conn \in Conns
  BY DEF CallerOK
<1> QED BY <1>4, <1>5, <1>6, <1>7, <1>8 DEF CallerOK

\* Where a lookup is when it has a turn, when it has a call, and when the
\* queue is empty.
LEMMA TurnSays ==
  ASSUME StateOK, NEW c \in Callers, CallerOK(c), ~Absent(c, turns)
  PROVE  /\ NoCall(c) /\ caller[c].conn \in Conns
         /\ \/ caller[c].pc = "connecting" /\ Once(c, turns, Begins)
               /\ ~conn[caller[c].conn].connecting
            \/ caller[c].pc = "calling" /\ Once(c, turns, GoesOn)
<1>1. caller[c].pc \in {"idle", "connecting", "calling"}
  BY DEF StateOK, CallerState
<1> QED BY <1>1 DEF CallerOK

LEMMA CallSays ==
  ASSUME StateOK, NEW c \in Callers, CallerOK(c), NEW k \in Conns,
         NEW call \in conn[k].pending, call.by = c
  PROVE  /\ caller[c].pc = "calling" /\ caller[c].conn = k /\ Absent(c, turns)
         /\ call.call = caller[c].call
         /\ \A j \in Conns : \A other \in conn[j].pending : other.by = c => j = k /\ other = call
<1>1. caller[c].pc \in {"idle", "connecting", "calling"}
  BY DEF StateOK, CallerState
<1>2. ~NoCall(c)
  BY DEF NoCall
<1>3. caller[c].pc = "calling" /\ OneCall(c) /\ Absent(c, turns)
  BY <1>1, <1>2 DEF CallerOK
<1> QED BY <1>3 DEF OneCall

LEMMA QuietSays ==
  ASSUME StateOK, NEW c \in Callers, CallerOK(c), Quiet
  PROVE  /\ Absent(c, turns)
         /\ caller[c].pc = "connecting" => conn[caller[c].conn].connecting /\ NoCall(c)
         /\ caller[c].pc = "calling" => OneCall(c)
<1>1. Absent(c, turns) /\ \A acts : ~Once(c, turns, acts)
  BY DEF Quiet, Absent, Once
<1> QED BY <1>1 DEF CallerOK

\* Nothing changes for a lookup when the queue does not.
LEMMA SameQueue ==
  ASSUME NEW c, NEW queue
  PROVE  SameFor(c, queue, queue)
BY DEF SameFor

-----------------------------------------------------------------------------
(***************************************************************************)
(* Every action preserves the invariant.                                   *)
(***************************************************************************)
LEMMA SmallTypes ==
  /\ Made \in ConnState /\ Free \in CallerState
  /\ NoChunk \in [from : Conns \cup {NoConn}, left : 0..MAX_CHUNK - 1]
  /\ \A c \in Callers, act \in {"begin", "next", "end"}, hops \in 1..3 :
       /\ TurnOf(c, act, hops) \in Turn
       /\ TurnOf(c, act, hops).by = c /\ TurnOf(c, act, hops).act = act
BY DEF Made, ConnState, Free, CallerState, NoChunk, TurnOf, Turn, Off

\* One connection changes, the pool does not.
LEMMA OneConnChanges ==
  ASSUME StateOK, ConnsOK, NEW k \in Conns, NEW state, pool' = pool,
         conn' = [conn EXCEPT ![k] = state],
         /\ state.connecting => state.socket = "none"
         /\ state.pending # {} => state.socket = "open" /\ ~state.dead
         /\ state.dead => k # pool
         /\ ~state.dead /\ (state.socket = "open" \/ state.connecting) => k = pool
  PROVE  ConnsOK'
<1>1. \A j \in Conns : conn'[j] = IF j = k THEN state ELSE conn[j]
  BY DEF StateOK
<1> QED BY <1>1 DEF ConnsOK, ConnOK

\* What a change of one connection means for the calls of a lookup.
LEMMA CallsOfOthers ==
  ASSUME StateOK, NEW k \in Conns, NEW state, conn' = [conn EXCEPT ![k] = state], NEW c,
         \A call : call.by = c => (call \in state.pending <=> call \in conn[k].pending)
  PROVE  SameCalls(c)
<1>1. \A j \in Conns : conn'[j] = IF j = k THEN state ELSE conn[j]
  BY DEF StateOK
<1> QED BY <1>1 DEF SameCalls

LEMMA RequestKeepsInv ==
  ASSUME PoolInv, NEW c \in Callers, Request(c)
  PROVE  PoolInv'
<1> DEFINE usable == pool # NoConn /\ ~conn[pool].dead
<1>1. PICK k \in Conns :
        LET kept == IF usable THEN conn[k] ELSE Made
        IN  /\ IF usable THEN k = pool ELSE Unused(k)
            /\ pool' = k
            /\ caller' = [caller EXCEPT ![c] = [pc |-> "connecting", conn |-> k, call |-> 0]]
            /\ IF kept.socket = "open"
               THEN conn' = [conn EXCEPT ![k] = kept] /\ turns' = <<TurnOf(c, "begin", 1)>>
               ELSE conn' = [conn EXCEPT ![k] = [kept EXCEPT !.connecting = TRUE]]
                    /\ UNCHANGED turns
  BY DEF Request
<1>2. /\ Quiet /\ turns = <<>> /\ caller[c].pc = "idle" /\ chunk' = NoChunk
      /\ StateOK /\ ConnsOK /\ CallersOK
  BY DEF Request, Quiet, PoolInv
<1>3. /\ \A d \in Callers \ {c} : caller'[d] = caller[d]
      /\ caller'[c] = [pc |-> "connecting", conn |-> k, call |-> 0]
      /\ caller' \in [Callers -> CallerState]
  BY <1>1, <1>2 DEF StateOK, CallerState
<1>4. usable <=> pool # NoConn
  BY <1>2 DEF StateOK, ConnsOK, ConnOK
<1>5. NoCall(c) /\ Absent(c, turns)
  BY <1>2 DEF CallersOK, CallerOK
<1>6. CASE usable /\ conn[k].socket = "open"
  <2>0. PICK t \in Turn : t = TurnOf(c, "begin", 1) /\ t.by = c /\ t.act = "begin"
    BY SmallTypes
  <2>1. /\ k = pool /\ pool' = pool /\ turns' = Append(turns, t)
        /\ conn' = conn /\ turns \in Seq(Turn)
    BY <1>1, <1>2, <1>6, <2>0 DEF StateOK
  <2>2. StateOK'
    BY <1>2, <1>3, <2>1, SmallTypes, AppendIs DEF StateOK
  <2>3. ConnsOK'
    BY <1>2, <2>1 DEF ConnsOK, ConnOK
  <2>4. ~conn'[k].connecting
    BY <1>2, <1>6, <2>1 DEF ConnsOK, ConnOK
  <2>5. Once(c, turns', Begins)
    BY <1>5, <2>0, <2>1, AppendIs DEF Begins
  <2>6. \A i \in DOMAIN turns' : turns'[i].act # "next"
    BY <1>2, <2>0, <2>1
  <2>7. CallerOK(c)'
    BY <1>3, <1>5, <2>1, <2>4, <2>5, <2>6 DEF CallerOK, NoCall
  <2>8. ASSUME NEW d \in Callers \ {c} PROVE CallerOK(d)'
    <3>1. SameFor(d, turns, turns')
      BY <2>0, <2>1, AppendIs
    <3> QED BY <1>2, <1>3, <2>1, <2>2, <3>1, OthersKeepOK DEF CallersOK, SameCalls
  <2> QED BY <2>2, <2>3, <2>7, <2>8 DEF PoolInv, CallersOK
<1>7. CASE ~(usable /\ conn[k].socket = "open")
  <2>1. PICK kept : /\ kept = IF usable THEN conn[k] ELSE Made
                    /\ kept.socket = "none" /\ kept \in ConnState
    <3>1. conn[k] \in ConnState /\ Made \in ConnState
      BY <1>2, SmallTypes DEF StateOK
    <3>2. Made.socket = "none" /\ (usable => conn[k].socket = "none")
      BY <1>7, <3>1 DEF ConnState, Made
    <3> QED BY <3>1, <3>2
  <2>2. PICK state : state = [kept EXCEPT !.connecting = TRUE]
    OBVIOUS
  <2>3. /\ conn' = [conn EXCEPT ![k] = state] /\ turns' = turns
        /\ state \in ConnState /\ state.connecting /\ state.socket = "none"
        /\ state.pending = kept.pending /\ state.dead = kept.dead
    BY <1>1, <2>1, <2>2 DEF ConnState
  <2>4. /\ ~state.dead /\ state.pending = {} /\ conn[k].pending = {}
        /\ \A d \in Callers : caller[d].pc = "connecting" /\ caller[d].conn = k => conn[k].connecting
    <3>1. CASE usable
      <4>1. k = pool /\ kept = conn[k]
        BY <1>1, <2>1, <3>1
      <4>2. kept.pending = {} /\ ~kept.dead
        BY <1>2, <2>1, <4>1 DEF ConnsOK, ConnOK
      <4> QED BY <1>2, <2>3, <4>1, <4>2, QuietSays DEF CallersOK
    <3>2. CASE ~usable
      <4>1. Unused(k) /\ kept = Made
        BY <1>1, <2>1, <3>2
      <4>2. conn[k].pending = {}
        BY <1>2, <4>1 DEF ConnsOK, ConnOK, Unused
      <4> QED BY <2>3, <4>1, <4>2 DEF Made, Unused, Users
    <3> QED BY <3>1, <3>2
  <2>5. StateOK'
    BY <1>1, <1>2, <1>3, <2>3, SmallTypes DEF StateOK
  <2>6. ConnsOK'
    <3>1. \A j \in Conns : conn'[j] = IF j = k THEN state ELSE conn[j]
      BY <1>2, <2>3 DEF StateOK
    <3>2. pool' = k /\ (pool = k \/ pool = NoConn)
      BY <1>1, <1>4
    <3> QED BY <1>2, <2>3, <2>4, <3>1, <3>2 DEF ConnsOK, ConnOK
  <2>7. conn'[k] = state
    BY <1>2, <2>3 DEF StateOK
  <2>8. \A d : SameCalls(d)
    BY <1>2, <2>3, <2>4, CallsOfOthers
  <2>9. NoCall(c)'
    BY <1>5, <2>8 DEF NoCall, SameCalls
  <2>10. CallerOK(c)'
    BY <1>2, <1>3, <1>5, <2>3, <2>7, <2>9 DEF CallerOK
  <2>11. ASSUME NEW d \in Callers \ {c} PROVE CallerOK(d)'
    <3>1. caller[d].pc = "connecting" =>
            conn'[caller[d].conn].connecting = conn[caller[d].conn].connecting
      <4> SUFFICES ASSUME caller[d].pc = "connecting"
                   PROVE  conn'[caller[d].conn].connecting = conn[caller[d].conn].connecting
        OBVIOUS
      <4>1. caller[d].conn \in Conns
        BY <1>2 DEF CallersOK, CallerOK
      <4>2. CASE caller[d].conn = k
        <5>1. conn[k].connecting = TRUE
          BY <1>2, <2>4, <4>2 DEF StateOK, ConnState
        <5>2. state.connecting = TRUE
          BY <2>3 DEF ConnState
        <5> QED BY <2>7, <4>2, <5>1, <5>2
      <4>3. CASE caller[d].conn # k
        BY <1>2, <2>3, <4>1, <4>3 DEF StateOK
      <4> QED BY <4>2, <4>3
    <3> QED BY <1>2, <1>3, <2>3, <2>5, <2>8, <3>1, SameQueue, OthersKeepOK DEF CallersOK
  <2> QED BY <2>5, <2>6, <2>10, <2>11 DEF PoolInv, CallersOK
<1> QED BY <1>6, <1>7

\* A queue that was empty stays so for a lookup that has no turn in it.
LEMMA StillAbsent ==
  ASSUME Quiet, NEW c, Absent(c, turns')
  PROVE  SameFor(c, turns, turns')
BY DEF Quiet, SameFor, Absent, Once

LEMMA ConnectedKeepsInv ==
  ASSUME PoolInv, NEW k \in Conns, Connected(k)
  PROVE  PoolInv'
<1> DEFINE state == [conn[k] EXCEPT !.connecting = FALSE, !.socket = "open"]
<1>1. /\ StateOK /\ ConnsOK /\ CallersOK /\ Quiet /\ turns = <<>> /\ conn[k].connecting
      /\ QueueAll(Waiters(k), "begin", 1) /\ chunk' = NoChunk
      /\ UNCHANGED <<pool, caller>>
  BY DEF Connected, PoolInv, Quiet
<1>2. conn' = [conn EXCEPT ![k] = state] /\ conn[k] \in ConnState
  BY <1>1 DEF Connected, StateOK
<1>3. /\ state \in ConnState /\ ~state.connecting /\ state.socket = "open"
      /\ state.pending = conn[k].pending /\ state.dead = conn[k].dead
  BY <1>2 DEF ConnState
<1> HIDE DEF state
<1>4. conn'[k] = state /\ \A j \in Conns : j # k => conn'[j] = conn[j]
  BY <1>1, <1>2 DEF StateOK
<1>5. /\ turns' \in Seq(Turn)
      /\ \A c : c \notin Waiters(k) => Absent(c, turns')
      /\ \A c \in Waiters(k) : Once(c, turns', Begins)
      /\ \A i \in DOMAIN turns' : turns'[i].act = "begin"
  <2>1. Waiters(k) \in SUBSET Callers
    BY DEF Waiters, Users
  <2> QED BY <1>1, <2>1, QueueAllIs DEF Begins
<1>6. StateOK'
  BY <1>1, <1>2, <1>3, <1>5, SmallTypes DEF StateOK
<1>7. ConnsOK'
  BY <1>1, <1>2, <1>3, OneConnChanges DEF ConnsOK, ConnOK
<1>8. \A c : SameCalls(c)
  BY <1>1, <1>2, <1>3, CallsOfOthers
<1>9. ASSUME NEW c \in Callers PROVE CallerOK(c)'
  <2>1. CASE c \in Waiters(k)
    <3>1. caller[c].pc = "connecting" /\ caller[c].conn = k /\ NoCall(c)
      BY <1>1, <2>1 DEF Waiters, Users, CallersOK, CallerOK
    <3>2. NoCall(c)'
      BY <1>8, <3>1 DEF NoCall, SameCalls
    <3> QED BY <1>1, <1>3, <1>4, <1>5, <2>1, <3>1, <3>2 DEF CallerOK
  <2>2. CASE c \notin Waiters(k)
    <3>1. caller[c].pc = "connecting" =>
            conn'[caller[c].conn].connecting = conn[caller[c].conn].connecting
      BY <1>1, <1>4, <2>2 DEF Waiters, Users, CallersOK, CallerOK
    <3> QED BY <1>1, <1>5, <1>6, <1>8, <2>2, <3>1, StillAbsent, OthersKeepOK DEF CallersOK
  <2> QED BY <2>1, <2>2
<1> QED BY <1>6, <1>7, <1>9 DEF PoolInv, CallersOK

LEMMA ConnectFailsKeepsInv ==
  ASSUME PoolInv, NEW k \in Conns, ConnectFails(k)
  PROVE  PoolInv'
<1> DEFINE state == [conn[k] EXCEPT !.connecting = FALSE]
<1>1. /\ StateOK /\ ConnsOK /\ CallersOK /\ Quiet /\ turns = <<>> /\ conn[k].connecting
      /\ caller' = [c \in Callers |-> IF c \in Waiters(k) THEN Free ELSE caller[c]]
      /\ chunk' = NoChunk /\ UNCHANGED <<pool, turns>>
  BY DEF ConnectFails, PoolInv, Quiet
<1>2. conn' = [conn EXCEPT ![k] = state] /\ conn[k] \in ConnState
  BY <1>1 DEF ConnectFails, StateOK
<1>3. /\ state \in ConnState /\ ~state.connecting /\ state.socket = conn[k].socket
      /\ state.pending = conn[k].pending /\ state.dead = conn[k].dead
  BY <1>2 DEF ConnState
<1> HIDE DEF state
<1>4. conn'[k] = state /\ \A j \in Conns : j # k => conn'[j] = conn[j]
  BY <1>1, <1>2 DEF StateOK
<1>5. StateOK'
  BY <1>1, <1>2, <1>3, SmallTypes DEF StateOK
<1>6. ConnsOK'
  BY <1>1, <1>2, <1>3, OneConnChanges DEF ConnsOK, ConnOK
<1>7. \A c : SameCalls(c)
  BY <1>1, <1>2, <1>3, CallsOfOthers
<1>8. ASSUME NEW c \in Callers PROVE CallerOK(c)'
  <2>1. CASE c \in Waiters(k)
    <3>1. NoCall(c) /\ Absent(c, turns)
      BY <1>1, <2>1, QuietSays DEF Waiters, Users, CallersOK
    <3>2. NoCall(c)' /\ caller'[c] = Free /\ Absent(c, turns')
      BY <1>1, <1>7, <2>1, <3>1 DEF NoCall, SameCalls
    <3> QED BY <1>1, <3>2 DEF CallerOK, Free, Absent
  <2>2. CASE c \notin Waiters(k)
    <3>1. caller[c].pc = "connecting" =>
            conn'[caller[c].conn].connecting = conn[caller[c].conn].connecting
      BY <1>1, <1>4, <2>2 DEF Waiters, Users, CallersOK, CallerOK
    <3> QED BY <1>1, <1>5, <1>7, <2>2, <3>1, SameQueue, OthersKeepOK DEF CallersOK
  <2> QED BY <2>1, <2>2
<1> QED BY <1>5, <1>6, <1>8 DEF PoolInv, CallersOK

\* A kill wakes the lookups whose calls it rejects.
LEMMA KillKeepsInv ==
  ASSUME PoolInv, NEW k \in Conns, Kill(k)
  PROVE  PoolInv'
<1> DEFINE state == [conn[k] EXCEPT !.dead = TRUE, !.socket = "none", !.idle = Off, !.pending = {}]
           set   == {call.by : call \in conn[k].pending} \ {Nobody}
<1>1. /\ StateOK /\ ConnsOK /\ CallersOK /\ Quiet /\ turns = <<>>
      /\ pool' = IF pool = k THEN NoConn ELSE pool
      /\ chunk' = NoChunk /\ UNCHANGED caller
      /\ QueueAll(set, "end", 2)
  BY DEF Kill, PoolInv, Quiet
<1>2. conn' = [conn EXCEPT ![k] = state] /\ conn[k] \in ConnState
  BY <1>1 DEF Kill, StateOK
<1>3. /\ state \in ConnState /\ state.connecting = conn[k].connecting /\ state.socket = "none"
      /\ state.pending = {} /\ state.dead
  <2>1. 0 \in 0..KEEPALIVE_MS + 1 /\ {} \in SUBSET Calls
    OBVIOUS
  <2>2. 0 = Off
    BY DEF Off
  <2>3. state \in ConnState
    BY <1>2, <2>1, <2>2 DEF ConnState
  <2>4. state.connecting = conn[k].connecting /\ state.socket = "none" /\ state.pending = {}
    BY <1>2 DEF ConnState
  <2>5. state.dead
    BY <1>2 DEF ConnState
  <2> QED BY <2>3, <2>4, <2>5
<1> HIDE DEF state
<1>4. conn'[k] = state /\ \A j \in Conns : j # k => conn'[j] = conn[j]
  BY <1>1, <1>2 DEF StateOK
<1>5. set \in SUBSET Callers /\ \A c \in set : \E call \in conn[k].pending : call.by = c
  BY <1>2 DEF ConnState, Calls
<1>6. \A c \in Callers : c \notin set => \A call \in conn[k].pending : call.by # c
  OBVIOUS
<1> HIDE DEF set
<1>7. /\ turns' \in Seq(Turn)
      /\ \A c : c \notin set => Absent(c, turns')
      /\ \A c \in set : Once(c, turns', GoesOn)
      /\ \A i \in DOMAIN turns' : turns'[i].act = "end"
  BY <1>1, <1>5, QueueAllIs DEF GoesOn
<1>8. StateOK'
  BY <1>1, <1>2, <1>3, <1>7, SmallTypes DEF StateOK
<1>9. ConnsOK'
  <2>1. ASSUME NEW j \in Conns PROVE ConnOK(j)'
    <3>1. ConnOK(j) /\ k # NoConn
      BY <1>1 DEF ConnsOK
    <3>2. CASE j = k
      BY <1>1, <1>3, <1>4, <3>1, <3>2 DEF ConnOK
    <3>3. CASE j # k
      BY <1>1, <1>4, <3>1, <3>3 DEF ConnOK
    <3> QED BY <3>2, <3>3
  <2> QED BY <2>1 DEF ConnsOK
<1>10. ASSUME NEW c \in Callers PROVE CallerOK(c)'
  <2>1. CASE c \in set
    <3>1. PICK call \in conn[k].pending : call.by = c
      BY <1>5, <2>1
    <3>2. /\ caller[c].pc = "calling" /\ caller[c].conn = k
          /\ \A j \in Conns : \A other \in conn[j].pending : other.by = c => j = k
      BY <1>1, <3>1, CallSays DEF CallersOK
    <3>3. NoCall(c)'
      BY <1>3, <1>4, <3>2 DEF NoCall
    <3> QED BY <1>1, <1>7, <2>1, <3>2, <3>3 DEF CallerOK
  <2>2. CASE c \notin set
    <3>1. SameCalls(c)
      BY <1>1, <1>2, <1>3, <1>6, <2>2, CallsOfOthers
    <3>2. caller[c].pc = "connecting" =>
            conn'[caller[c].conn].connecting = conn[caller[c].conn].connecting
      BY <1>1, <1>3, <1>4 DEF CallersOK, CallerOK
    <3> QED BY <1>1, <1>7, <1>8, <2>2, <3>1, <3>2, StillAbsent, OthersKeepOK DEF CallersOK
  <2> QED BY <2>1, <2>2
<1> QED BY <1>8, <1>9, <1>10 DEF PoolInv, CallersOK

\* A call that is settled: its lookup, if it still waits, has one turn for it.
LEMMA SettleKeepsInv ==
  ASSUME PoolInv, NEW k \in Conns, NEW call \in conn[k].pending, NEW failed \in BOOLEAN,
         conn' = [conn EXCEPT ![k].pending = @ \ {call}], Settle(call, failed),
         chunk' \in [from : Conns \cup {NoConn}, left : 0..MAX_CHUNK - 1],
         UNCHANGED <<pool, caller>>
  PROVE  PoolInv'
<1> DEFINE state == [conn[k] EXCEPT !.pending = @ \ {call}]
<1>1. StateOK /\ ConnsOK /\ CallersOK
  BY DEF PoolInv
<1>2. conn' = [conn EXCEPT ![k] = state] /\ conn[k] \in ConnState /\ call \in Calls
  BY <1>1 DEF StateOK, ConnState
<1>3. /\ state \in ConnState /\ state.connecting = conn[k].connecting
      /\ state.socket = conn[k].socket /\ state.dead = conn[k].dead
      /\ state.pending = conn[k].pending \ {call}
  BY <1>2 DEF ConnState
<1> HIDE DEF state
<1>4. conn'[k] = state /\ \A j \in Conns : j # k => conn'[j] = conn[j]
  BY <1>1, <1>2 DEF StateOK
<1>5. ConnsOK'
  BY <1>1, <1>2, <1>3, OneConnChanges DEF ConnsOK, ConnOK
<1>6. \A c : c # call.by => SameCalls(c)
  BY <1>1, <1>2, <1>3, CallsOfOthers
<1>7. \A j \in Conns : conn'[j].connecting = conn[j].connecting
  BY <1>3, <1>4
<1>8. CASE call.by = Nobody
  <2>1. turns' = turns
    BY <1>8 DEF Settle
  <2>2. StateOK'
    BY <1>1, <1>2, <1>3, <2>1 DEF StateOK
  <2>3. ASSUME NEW c \in Callers PROVE CallerOK(c)'
    <3>1. SameCalls(c)
      BY <1>6, <1>8
    <3> QED BY <1>1, <1>7, <2>1, <2>2, <3>1, SameQueue, OthersKeepOK DEF CallersOK, CallerOK
  <2> QED BY <1>5, <2>2, <2>3 DEF PoolInv, CallersOK
<1>9. CASE call.by # Nobody
  <2>1. PICK t \in Onward(call, failed) : turns' = Append(turns, t)
    BY <1>9 DEF Settle
  <2>2. call.by \in Callers /\ call.call \in 1..MAX_CALLS
    BY <1>2, <1>9 DEF Calls
  <2>3. /\ t \in Turn /\ t.by = call.by /\ t.act \in GoesOn
        /\ t.act = "next" => call.call < MAX_CALLS
    <3>1. NextHops(call.call) \in 1..3 /\ EndHops(call.call) \subseteq 1..3
      BY DEF NextHops, EndHops
    <3>2. \/ t = TurnOf(call.by, "next", NextHops(call.call)) /\ call.call < MAX_CALLS
          \/ \E h \in EndHops(call.call) : t = TurnOf(call.by, "end", h)
      BY DEF Onward
    <3> QED BY <2>2, <3>1, <3>2 DEF TurnOf, Turn, GoesOn
  <2>4. turns' \in Seq(Turn)
    BY <1>1, <2>1, <2>3, AppendIs DEF StateOK
  <2>5. StateOK'
    BY <1>1, <1>2, <1>3, <2>4 DEF StateOK
  <2>6. CallerOK(call.by)'
    <3> DEFINE c == call.by
    <3>1. /\ caller[c].pc = "calling" /\ caller[c].conn = k /\ Absent(c, turns)
          /\ call.call = caller[c].call
          /\ \A j \in Conns : \A other \in conn[j].pending : other.by = c => j = k /\ other = call
      BY <1>1, <2>2, CallSays DEF CallersOK
    <3>2. NoCall(c)'
      BY <1>3, <1>4, <3>1 DEF NoCall
    <3>3. Once(c, turns', GoesOn)
      BY <1>1, <2>1, <2>3, <3>1, AppendIs DEF StateOK
    <3>4. ASSUME NEW i \in DOMAIN turns', turns'[i].by = c, turns'[i].act = "next"
          PROVE  caller[c].call < MAX_CALLS
      <4>1. turns'[i] = t \/ \E j \in DOMAIN turns : turns[j] = turns'[i]
        BY <1>1, <2>1, <2>3, AppendIs DEF StateOK
      <4>2. turns'[i] = t
        BY <3>1, <3>4, <4>1 DEF Absent
      <4> QED BY <2>3, <3>1, <3>4, <4>2
    <3> QED BY <3>1, <3>2, <3>3, <3>4 DEF CallerOK
  <2>7. ASSUME NEW c \in Callers \ {call.by} PROVE CallerOK(c)'
    <3>1. SameFor(c, turns, turns')
      BY <1>1, <2>1, <2>3, AppendIs DEF StateOK
    <3> QED BY <1>1, <1>6, <1>7, <2>5, <3>1, OthersKeepOK DEF CallersOK, CallerOK
  <2> QED BY <1>5, <2>2, <2>5, <2>6, <2>7 DEF PoolInv, CallersOK
<1> QED BY <1>8, <1>9

LEMMA ReplyKeepsInv ==
  ASSUME PoolInv, NEW k \in Conns, NEW call \in conn[k].pending, NEW failed \in BOOLEAN,
         Reply(k, call, failed)
  PROVE  PoolInv'
<1>1. chunk' \in [from : Conns \cup {NoConn}, left : 0..MAX_CHUNK - 1]
  <2>1. chunk \in [from : Conns \cup {NoConn}, left : 0..MAX_CHUNK - 1]
    BY DEF PoolInv, StateOK
  <2>2. /\ Quiet \/ (chunk.from = k /\ chunk.left > 0)
        /\ chunk' = [from |-> k, left |-> IF Quiet THEN MAX_CHUNK - 1 ELSE chunk.left - 1]
    BY DEF Reply
  <2> QED BY <2>1, <2>2
<1> QED BY <1>1, SettleKeepsInv DEF Reply

LEMMA CallTimesOutKeepsInv ==
  ASSUME PoolInv, NEW k \in Conns, NEW call \in conn[k].pending, CallTimesOut(k, call)
  PROVE  PoolInv'
BY SmallTypes, SettleKeepsInv DEF CallTimesOut

\* The lookup gives up, its call stays: it is nobody's from now on.
LEMMA HandshakeTimesOutKeepsInv ==
  ASSUME PoolInv, NEW k \in Conns, NEW call \in conn[k].pending, HandshakeTimesOut(k, call)
  PROVE  PoolInv'
<1> DEFINE c     == call.by
           gone  == [call EXCEPT !.by = Nobody]
           state == [conn[k] EXCEPT !.pending = (@ \ {call}) \cup {gone}]
           t     == TurnOf(c, "end", 2)
<1>1. /\ StateOK /\ ConnsOK /\ CallersOK /\ Quiet /\ turns = <<>> /\ c # Nobody
      /\ turns' = <<t>> /\ chunk' = NoChunk /\ UNCHANGED <<pool, caller>>
  BY DEF PoolInv, HandshakeTimesOut, Quiet
<1>2. conn' = [conn EXCEPT ![k] = state] /\ conn[k] \in ConnState /\ call \in Calls
  BY <1>1 DEF HandshakeTimesOut, StateOK, ConnState
<1>3. c \in Callers /\ gone \in Calls /\ gone.by = Nobody
  BY <1>1, <1>2 DEF Calls
<1> HIDE DEF gone
<1>4. /\ state \in ConnState /\ state.connecting = conn[k].connecting
      /\ state.socket = conn[k].socket /\ state.dead = conn[k].dead
      /\ state.pending = (conn[k].pending \ {call}) \cup {gone}
  BY <1>2, <1>3 DEF ConnState
<1> HIDE DEF state
<1>5. conn'[k] = state /\ \A j \in Conns : j # k => conn'[j] = conn[j]
  BY <1>1, <1>2 DEF StateOK
<1>6. t \in Turn /\ t.by = c /\ t.act = "end"
  BY <1>3, SmallTypes
<1> HIDE DEF t, c
<1>7. turns' = Append(turns, t) /\ turns \in Seq(Turn) /\ turns' \in Seq(Turn)
  BY <1>1, <1>6
<1>8. StateOK'
  BY <1>1, <1>2, <1>4, <1>7, SmallTypes DEF StateOK
<1>9. ConnsOK'
  BY <1>1, <1>2, <1>4, OneConnChanges DEF ConnsOK, ConnOK
<1>10. \A j \in Conns : conn'[j].connecting = conn[j].connecting
  BY <1>4, <1>5
<1>11. CallerOK(c)'
  <2>1. /\ caller[c].pc = "calling" /\ caller[c].conn = k /\ Absent(c, turns)
        /\ \A j \in Conns : \A other \in conn[j].pending : other.by = c => j = k /\ other = call
    BY <1>1, <1>3, CallSays DEF CallersOK, c
  <2>2. NoCall(c)'
    BY <1>1, <1>3, <1>4, <1>5, <2>1 DEF NoCall
  <2>3. Once(c, turns', GoesOn)
    BY <1>6, <1>7, <2>1, AppendIs DEF GoesOn
  <2>4. \A i \in DOMAIN turns' : turns'[i].act # "next"
    BY <1>1, <1>6
  <2> QED BY <1>1, <2>1, <2>2, <2>3, <2>4 DEF CallerOK
<1>12. ASSUME NEW d \in Callers \ {c} PROVE CallerOK(d)'
  <2>1. SameFor(d, turns, turns')
    BY <1>6, <1>7, AppendIs
  <2>2. \A other : other.by = d => (other \in state.pending <=> other \in conn[k].pending)
    BY <1>3, <1>4 DEF c
  <2>3. SameCalls(d)
    BY <1>1, <1>2, <2>2, CallsOfOthers
  <2> QED BY <1>1, <1>8, <1>10, <2>1, <2>3, OthersKeepOK DEF CallersOK, CallerOK
<1> QED BY <1>3, <1>8, <1>9, <1>11, <1>12 DEF PoolInv, CallersOK

(***************************************************************************)
(* A turn.  Its lookup waits for nothing else.                             *)
(***************************************************************************)
LEMMA HeadSays ==
  ASSUME PoolInv, ~Quiet
  PROVE  LET t == Head(turns)
             c == t.by
         IN  /\ turns \in Seq(Turn) /\ turns # <<>> /\ t \in Turn /\ c \in Callers
             /\ Tail(turns) \in Seq(Turn)
             /\ NoCall(c) /\ caller[c].conn \in Conns /\ Absent(c, Tail(turns))
             /\ \/ /\ t.act = "begin" /\ caller[c].pc = "connecting"
                   /\ ~conn[caller[c].conn].connecting
                \/ t.act \in GoesOn /\ caller[c].pc = "calling"
             /\ t.act = "next" => caller[c].call < MAX_CALLS
             /\ \A d : d # c => SameFor(d, turns, Tail(turns))
<1> DEFINE t == Head(turns)
           c == t.by
<1>1. StateOK /\ CallersOK /\ turns \in Seq(Turn) /\ turns # <<>>
  BY DEF PoolInv, StateOK, Quiet
<1>2. /\ t \in Turn /\ Tail(turns) \in Seq(Turn) /\ 1 \in DOMAIN turns /\ turns[1] = t
      /\ \A d : d # c => SameFor(d, turns, Tail(turns))
      /\ \A acts : Once(c, turns, acts) => t.act \in acts /\ Absent(c, Tail(turns))
  BY <1>1, TailIs
<1>3. c \in Callers
  BY <1>2 DEF Turn
<1> HIDE DEF t
<1>4. ~Absent(c, turns)
  BY <1>2 DEF Absent
<1>5. /\ NoCall(c) /\ caller[c].conn \in Conns
      /\ \/ caller[c].pc = "connecting" /\ Once(c, turns, Begins) /\ ~conn[caller[c].conn].connecting
         \/ caller[c].pc = "calling" /\ Once(c, turns, GoesOn)
  BY <1>1, <1>3, <1>4, TurnSays DEF CallersOK
<1>6. t.act = "next" => caller[c].call < MAX_CALLS
  BY <1>1, <1>2, <1>3 DEF CallersOK, CallerOK
<1>7. /\ Absent(c, Tail(turns))
      /\ \/ t.act = "begin" /\ caller[c].pc = "connecting" /\ ~conn[caller[c].conn].connecting
         \/ t.act \in GoesOn /\ caller[c].pc = "calling"
  BY <1>2, <1>5 DEF Begins
<1> QED BY <1>1, <1>2, <1>3, <1>5, <1>6, <1>7 DEF t

\* A turn that takes one hop more goes to the end of the queue.
LEMMA HopKeepsInv ==
  ASSUME PoolInv, ~Quiet, NEW t, t = Head(turns), NEW u \in Turn, u.by = t.by, u.act = t.act,
         turns' = Append(Tail(turns), u), chunk' = NoChunk, UNCHANGED <<pool, conn, caller>>
  PROVE  PoolInv'
<1>1. PICK c : c = t.by
  OBVIOUS
<1>3. /\ StateOK /\ ConnsOK /\ CallersOK
      /\ t \in Turn /\ c \in Callers /\ Tail(turns) \in Seq(Turn)
      /\ NoCall(c) /\ caller[c].conn \in Conns /\ Absent(c, Tail(turns))
      /\ \/ /\ t.act = "begin" /\ caller[c].pc = "connecting"
            /\ ~conn[caller[c].conn].connecting
         \/ t.act \in GoesOn /\ caller[c].pc = "calling"
      /\ t.act = "next" => caller[c].call < MAX_CALLS
      /\ \A d : d # c => SameFor(d, turns, Tail(turns))
  BY <1>1, HeadSays DEF PoolInv
<1>4. u.by = c
  BY <1>1
<1>5. PICK queue \in Seq(Turn) : queue = Tail(turns)
  BY <1>3
<1>6. /\ turns' = Append(queue, u) /\ turns' \in Seq(Turn)
      /\ \A d : d # c => SameFor(d, queue, turns')
      /\ u.act \in Begins => Once(c, turns', Begins)
      /\ u.act \in GoesOn => Once(c, turns', GoesOn)
      /\ \A j \in DOMAIN turns' : turns'[j] = u \/ \E i \in DOMAIN queue : queue[i] = turns'[j]
  <2>1. turns' = Append(queue, u) /\ Absent(u.by, queue)
    BY <1>3, <1>4, <1>5
  <2>2. turns' \in Seq(Turn)
    <3>1. Append(queue, u) \in Seq(Turn)
      BY AppendIs, Zenon
    <3> QED BY <2>1, <3>1, Zenon
  <2>5. ASSUME NEW j \in DOMAIN turns'
        PROVE  turns'[j] = u \/ \E i \in DOMAIN queue : queue[i] = turns'[j]
    <3>1. PICK new : new = Append(queue, u)
      OBVIOUS
    <3>2. \A i \in DOMAIN new : new[i] = u \/ \E h \in DOMAIN queue : queue[h] = new[i]
      BY <3>1, AppendIs
    <3> QED BY <2>1, <3>1, <3>2
  <2>4. ASSUME NEW d, d # u.by PROVE SameFor(d, queue, turns')
    BY <2>1, <2>4, AppendIs
  <2>3. /\ u.act \in Begins => Once(u.by, turns', Begins)
        /\ u.act \in GoesOn => Once(u.by, turns', GoesOn)
    BY <2>1, AppendIs
  <2> QED BY <1>4, <2>1, <2>2, <2>3, <2>4, <2>5
<1>7. StateOK'
  BY <1>3, <1>6, SmallTypes DEF StateOK
<1>8. ConnsOK'
  BY <1>3 DEF ConnsOK, ConnOK
<1>9. CallerOK(c)'
  <2>1. \A i \in DOMAIN turns' : turns'[i].by = c /\ turns'[i].act = "next" => caller[c].call < MAX_CALLS
    BY <1>3, <1>4, <1>5, <1>6 DEF Absent
  <2>2. NoCall(c)'
    BY <1>3 DEF NoCall
  <2>3. CASE t.act = "begin" /\ caller[c].pc = "connecting" /\ ~conn[caller[c].conn].connecting
    BY <1>3, <1>4, <1>6, <2>1, <2>2, <2>3 DEF CallerOK, Begins
  <2>4. CASE t.act \in GoesOn /\ caller[c].pc = "calling"
    BY <1>3, <1>4, <1>6, <2>1, <2>2, <2>4 DEF CallerOK
  <2> QED BY <1>3, <2>3, <2>4
<1>10. ASSUME NEW d \in Callers \ {c} PROVE CallerOK(d)'
  <2>1. SameFor(d, turns, turns')
    BY <1>3, <1>5, <1>6, SameForTwice
  <2> QED BY <1>3, <1>7, <2>1, OthersKeepOK DEF CallersOK, SameCalls
<1> QED BY <1>7, <1>8, <1>9, <1>10 DEF PoolInv, CallersOK

\* The lookup makes its next call, or fails to.
LEMMA MakeCallKeepsInv ==
  ASSUME PoolInv, ~Quiet, NEW c, c = Head(turns).by, NEW k, k = caller[c].conn,
         NEW n \in 1..MAX_CALLS, NEW state \in ConnState,
         /\ state.connecting = conn[k].connecting /\ state.socket = conn[k].socket
         /\ state.dead = conn[k].dead /\ state.pending = conn[k].pending,
         MakeCall(c, k, n, state), chunk' = NoChunk, UNCHANGED pool
  PROVE  PoolInv'
<1>1. /\ StateOK /\ ConnsOK /\ CallersOK
      /\ c \in Callers /\ k \in Conns /\ Tail(turns) \in Seq(Turn)
      /\ NoCall(c) /\ Absent(c, Tail(turns))
      /\ \A d : d # c => SameFor(d, turns, Tail(turns))
  BY HeadSays DEF PoolInv
<1>2. PICK queue \in Seq(Turn) : queue = Tail(turns)
  BY <1>1
<1>3. PICK t \in Turn : t = TurnOf(c, "end", 2) /\ t.by = c /\ t.act = "end"
  BY <1>1, SmallTypes
<1>4. CASE state.dead \/ state.socket # "open"
  <2>1. /\ turns' = Append(queue, t)
        /\ conn' = [conn EXCEPT ![k] = state]
        /\ caller' = [caller EXCEPT ![c].pc = "calling"]
    BY <1>2, <1>3, <1>4 DEF MakeCall
  <2>2. /\ caller' \in [Callers -> CallerState] /\ \A d \in Callers \ {c} : caller'[d] = caller[d]
        /\ caller'[c].pc = "calling" /\ caller'[c].conn = k
    <3>1. caller \in [Callers -> CallerState] /\ caller[c] \in CallerState
      BY <1>1 DEF StateOK
    <3>2. [caller[c] EXCEPT !.pc = "calling"] \in CallerState
      BY <3>1 DEF CallerState
    <3>3. caller' = [caller EXCEPT ![c] = [caller[c] EXCEPT !.pc = "calling"]]
      BY <2>1, <3>1
    <3>4. caller'[c] = [caller[c] EXCEPT !.pc = "calling"]
      BY <1>1, <3>1, <3>3
    <3> QED BY <1>1, <3>1, <3>2, <3>3, <3>4 DEF CallerState
  <2>3. /\ turns' \in Seq(Turn) /\ Once(c, turns', GoesOn)
        /\ \A d : d # c => SameFor(d, queue, turns')
        /\ \A j \in DOMAIN turns' : turns'[j] = t \/ \E i \in DOMAIN queue : queue[i] = turns'[j]
    <3>1. Absent(t.by, queue) /\ t.act \in GoesOn
      BY <1>1, <1>2, <1>3 DEF GoesOn
    <3>2. /\ turns' \in Seq(Turn) /\ Once(t.by, turns', GoesOn)
          /\ \A d : d # t.by => SameFor(d, queue, turns')
          /\ \A j \in DOMAIN turns' : turns'[j] = t \/ \E i \in DOMAIN queue : queue[i] = turns'[j]
      BY <2>1, <3>1, AppendIs
    <3> QED BY <1>3, <3>2
  <2>4. StateOK'
    BY <1>1, <2>1, <2>2, <2>3, SmallTypes DEF StateOK
  <2>5. ConnsOK'
    <3>1. ConnOK(k)
      BY <1>1 DEF ConnsOK
    <3> QED BY <1>1, <2>1, <3>1, OneConnChanges DEF ConnOK
  <2>6. /\ \A d : SameCalls(d)
        /\ \A j \in Conns : conn'[j].connecting = conn[j].connecting
    <3>1. \A d : SameCalls(d)
      BY <1>1, <2>1, CallsOfOthers
    <3>2. \A j \in Conns : conn'[j] = IF j = k THEN state ELSE conn[j]
      BY <1>1, <2>1 DEF StateOK
    <3> QED BY <3>1, <3>2
  <2>7. CallerOK(c)'
    <3>1. NoCall(c)'
      BY <1>1, <2>6 DEF NoCall, SameCalls
    <3>2. \A i \in DOMAIN turns' : ~(turns'[i].by = c /\ turns'[i].act = "next")
      BY <1>1, <1>2, <1>3, <2>3 DEF Absent
    <3> QED BY <1>1, <2>2, <2>3, <3>1, <3>2 DEF CallerOK
  <2>8. ASSUME NEW d \in Callers \ {c} PROVE CallerOK(d)'
    <3>1. SameFor(d, turns, turns')
      BY <1>1, <1>2, <2>3, SameForTwice
    <3> QED BY <1>1, <2>2, <2>4, <2>6, <3>1, OthersKeepOK DEF CallersOK, CallerOK
  <2> QED BY <2>4, <2>5, <2>7, <2>8 DEF PoolInv, CallersOK
<1>5. CASE ~(state.dead \/ state.socket # "open")
  <2> DEFINE call == [by |-> c, call |-> n, age |-> 0]
             new  == [state EXCEPT !.pending = @ \cup {call}]
  <2>1. /\ turns' = queue
        /\ conn' = [conn EXCEPT ![k] = new]
        /\ caller' = [caller EXCEPT ![c].pc = "calling", ![c].call = n]
    BY <1>2, <1>5 DEF MakeCall
  <2>2. /\ caller' \in [Callers -> CallerState] /\ \A d \in Callers \ {c} : caller'[d] = caller[d]
        /\ caller'[c].pc = "calling" /\ caller'[c].conn = k /\ caller'[c].call = n
    <3>1. caller \in [Callers -> CallerState] /\ caller[c] \in CallerState
      BY <1>1 DEF StateOK
    <3>2. [caller[c] EXCEPT !.pc = "calling", !.call = n] \in CallerState
      <4>1. n \in 0..MAX_CALLS
        OBVIOUS
      <4> QED BY <3>1, <4>1 DEF CallerState
    <3>3. caller' = [caller EXCEPT ![c] = [caller[c] EXCEPT !.pc = "calling", !.call = n]]
      BY <1>1, <2>1, <3>1
    <3>4. caller'[c] = [caller[c] EXCEPT !.pc = "calling", !.call = n]
      BY <1>1, <3>1, <3>3
    <3> QED BY <1>1, <3>1, <3>2, <3>3, <3>4 DEF CallerState
  <2>3. call \in Calls /\ call.by = c /\ call.call = n
    BY <1>1 DEF Calls
  <2> HIDE DEF call
  <2>4. /\ new \in ConnState /\ new.connecting = conn[k].connecting /\ new.socket = "open"
        /\ ~new.dead /\ new.pending = conn[k].pending \cup {call}
        /\ ~conn[k].dead /\ conn[k].socket = "open"
    BY <1>5, <2>3 DEF ConnState
  <2> HIDE DEF new
  <2>5. \A j \in Conns : conn'[j] = IF j = k THEN new ELSE conn[j]
    BY <1>1, <2>1 DEF StateOK
  <2>6. StateOK'
    BY <1>1, <1>2, <2>1, <2>2, <2>4, SmallTypes DEF StateOK
  <2>7. ConnsOK'
    BY <1>1, <2>1, <2>4, OneConnChanges DEF ConnsOK, ConnOK
  <2>8. CallerOK(c)'
    <3>1. OneCall(c)'
      <4>1. call \in conn'[k].pending
        BY <1>1, <2>4, <2>5
      <4>2. ASSUME NEW j \in Conns, NEW other \in conn'[j].pending, other.by = c
            PROVE  j = k /\ other = call
        BY <1>1, <2>4, <2>5, <4>2 DEF NoCall
      <4>3. caller'[c].conn = k /\ caller'[c].call = n
        BY <2>2
      <4>4. /\ call \in conn'[caller'[c].conn].pending
            /\ call.by = c /\ call.call = caller'[c].call
            /\ \A j \in Conns : \A other \in conn'[j].pending :
                 other.by = c => j = caller'[c].conn /\ other = call
        BY <2>3, <4>1, <4>2, <4>3
      <4> QED BY <4>4 DEF OneCall
    <3>2. Absent(c, turns')
      BY <1>1, <1>2, <2>1
    <3> QED BY <1>1, <2>2, <3>1, <3>2 DEF CallerOK, Absent
  <2>9. ASSUME NEW d \in Callers \ {c} PROVE CallerOK(d)'
    <3>1. \A other : other.by = d => (other \in new.pending <=> other \in conn[k].pending)
      BY <2>3, <2>4
    <3>2. SameCalls(d)
      BY <1>1, <2>1, <3>1, CallsOfOthers
    <3>3. \A j \in Conns : conn'[j].connecting = conn[j].connecting
      BY <2>4, <2>5
    <3>4. SameFor(d, turns, turns')
      BY <1>1, <1>2, <2>1
    <3> QED BY <1>1, <2>2, <2>6, <3>2, <3>3, <3>4, OthersKeepOK DEF CallersOK, CallerOK
  <2> QED BY <1>1, <2>6, <2>7, <2>8, <2>9 DEF PoolInv, CallersOK
<1> QED BY <1>4, <1>5
\* request ends.
LEMMA EndKeepsInv ==
  ASSUME PoolInv, ~Quiet, NEW c, c = Head(turns).by, NEW k, k = caller[c].conn,
         NEW state \in ConnState,
         /\ state.connecting = conn[k].connecting /\ state.socket = conn[k].socket
         /\ state.dead = conn[k].dead /\ state.pending = conn[k].pending,
         turns' = Tail(turns), caller' = [caller EXCEPT ![c] = Free],
         conn' = [conn EXCEPT ![k] = state], chunk' = NoChunk, UNCHANGED pool
  PROVE  PoolInv'
<1>1. /\ StateOK /\ ConnsOK /\ CallersOK
      /\ c \in Callers /\ k \in Conns /\ Tail(turns) \in Seq(Turn)
      /\ NoCall(c) /\ Absent(c, Tail(turns))
      /\ \A d : d # c => SameFor(d, turns, Tail(turns))
  BY HeadSays DEF PoolInv
<1>2. /\ caller' \in [Callers -> CallerState] /\ \A d \in Callers \ {c} : caller'[d] = caller[d]
      /\ caller'[c] = Free
  BY <1>1, SmallTypes DEF StateOK
<1>3. StateOK'
  BY <1>1, <1>2, SmallTypes DEF StateOK
<1>4. ConnsOK'
  <2>1. ConnOK(k)
    BY <1>1 DEF ConnsOK
  <2> QED BY <1>1, <2>1, OneConnChanges DEF ConnOK
<1>5. \A d : SameCalls(d)
  BY <1>1, CallsOfOthers
<1>6. \A j \in Conns : conn'[j].connecting = conn[j].connecting
  <2>1. \A j \in Conns : conn'[j] = IF j = k THEN state ELSE conn[j]
    BY <1>1 DEF StateOK
  <2> QED BY <2>1
<1>7. CallerOK(c)'
  <2>1. NoCall(c)'
    BY <1>1, <1>5 DEF NoCall, SameCalls
  <2> QED BY <1>1, <1>2, <2>1 DEF CallerOK, Free, Absent
<1>8. ASSUME NEW d \in Callers \ {c} PROVE CallerOK(d)'
  BY <1>1, <1>2, <1>3, <1>5, <1>6, OthersKeepOK DEF CallersOK, CallerOK
<1> QED BY <1>3, <1>4, <1>7, <1>8 DEF PoolInv, CallersOK

LEMMA TurnKeepsInv ==
  ASSUME PoolInv, RunTurn
  PROVE  PoolInv'
<1>1. PICK t : t = Head(turns)
  OBVIOUS
<1>2. PICK c : c = t.by
  OBVIOUS
<1>3. PICK k : k = caller[c].conn
  OBVIOUS
<1>4. /\ ~Quiet /\ chunk' = NoChunk /\ UNCHANGED pool
      /\ \/ /\ t.hops > 1
            /\ turns' = Append(Tail(turns), [t EXCEPT !.hops = @ - 1])
            /\ UNCHANGED <<conn, caller>>
         \/ t.hops = 1 /\ t.act = "begin" /\ Begin(c, k)
         \/ t.hops = 1 /\ t.act = "next"  /\ MakeCall(c, k, caller[c].call + 1, conn[k])
         \/ t.hops = 1 /\ t.act = "end"   /\ Finish(c, k)
  BY <1>1, <1>2, <1>3 DEF RunTurn
<1>5. t \in Turn /\ c \in Callers /\ k \in Conns /\ (t.act = "next" => caller[c].call < MAX_CALLS)
  BY <1>1, <1>2, <1>3, <1>4, HeadSays
<1>6. conn[k] \in ConnState /\ caller[c] \in CallerState /\ conn = [conn EXCEPT ![k] = conn[k]]
  BY <1>5 DEF PoolInv, StateOK
<1>7. c = Head(turns).by
  BY <1>1, <1>2
<1>8. CASE /\ t.hops > 1
           /\ turns' = Append(Tail(turns), [t EXCEPT !.hops = @ - 1])
           /\ UNCHANGED <<conn, caller>>
  <2>1. PICK u : u = [t EXCEPT !.hops = @ - 1]
    OBVIOUS
  <2>2. u \in Turn /\ u.by = t.by /\ u.act = t.act
    BY <1>5, <1>8, <2>1 DEF Turn
  <2>3. turns' = Append(Tail(turns), u)
    BY <1>8, <2>1
  <2> QED BY <1>1, <1>4, <1>8, <2>2, <2>3, HopKeepsInv
<1>9. CASE Begin(c, k)
  <2>1. CASE conn[k].dead
    <3>1. turns' = Tail(turns) /\ caller' = [caller EXCEPT ![c] = Free] /\ conn' = conn
      BY <1>9, <2>1 DEF Begin
    <3> QED BY <1>3, <1>4, <1>6, <1>7, <3>1, EndKeepsInv
  <2>2. CASE ~conn[k].dead
    <3>1. PICK state : state = [conn[k] EXCEPT !.idle = Off]
      OBVIOUS
    <3>2. /\ state \in ConnState
          /\ state.connecting = conn[k].connecting /\ state.socket = conn[k].socket
          /\ state.dead = conn[k].dead /\ state.pending = conn[k].pending
      BY <1>6, <3>1 DEF ConnState, Off
    <3>3. MakeCall(c, k, 1, state)
      BY <1>9, <2>2, <3>1 DEF Begin
    <3>4. 1 \in 1..MAX_CALLS
      OBVIOUS
    <3> QED BY <1>3, <1>4, <1>7, <3>2, <3>3, <3>4, MakeCallKeepsInv
  <2> QED BY <2>1, <2>2
<1>10. CASE t.act = "next" /\ MakeCall(c, k, caller[c].call + 1, conn[k])
  <2>1. caller[c].call + 1 \in 1..MAX_CALLS
    BY <1>5, <1>6, <1>10 DEF CallerState
  <2> QED BY <1>3, <1>4, <1>6, <1>7, <1>10, <2>1, MakeCallKeepsInv
<1>11. CASE Finish(c, k)
  <2>1. PICK state : state = Idling(conn[k])
    OBVIOUS
  <2>2. PICK due \in 0..KEEPALIVE_MS + 1 : state = [conn[k] EXCEPT !.idle = due]
    <3>1. Off \in 0..KEEPALIVE_MS + 1 /\ KEEPALIVE_MS + 1 \in 0..KEEPALIVE_MS + 1
      BY DEF Off
    <3> QED BY <2>1, <3>1 DEF Idling
  <2>3. /\ state \in ConnState
        /\ state.connecting = conn[k].connecting /\ state.socket = conn[k].socket
        /\ state.dead = conn[k].dead /\ state.pending = conn[k].pending
    BY <1>6, <2>2 DEF ConnState
  <2>4. /\ turns' = Tail(turns) /\ caller' = [caller EXCEPT ![c] = Free]
        /\ conn' = [conn EXCEPT ![k] = state]
    BY <1>11, <2>1 DEF Finish
  <2> QED BY <1>3, <1>4, <1>7, <2>3, <2>4, EndKeepsInv
<1> QED BY <1>4, <1>8, <1>9, <1>10, <1>11

\* Time passes: nothing but ages and timers changes.
LEMMA TickKeepsInv ==
  ASSUME PoolInv, Tick
  PROVE  PoolInv'
<1> DEFINE older(call) == [call EXCEPT !.age = @ + 1]
<1>1. /\ StateOK /\ ConnsOK /\ CallersOK /\ Quiet
      /\ chunk' = NoChunk /\ UNCHANGED <<pool, caller, turns>>
  BY DEF Tick, PoolInv
<1>2. ASSUME NEW k \in Conns, NEW call \in conn[k].pending
      PROVE  older(call) \in Calls /\ older(call).by = call.by /\ older(call).call = call.call
  <2>1. call \in Calls /\ call.age < REQUEST_MS
    BY <1>1 DEF Tick, StateOK, ConnState
  <2> QED BY <2>1 DEF Calls
<1>3. ASSUME NEW k \in Conns
      PROVE  /\ conn'[k] \in ConnState
             /\ conn'[k].socket = conn[k].socket /\ conn'[k].connecting = conn[k].connecting
             /\ conn'[k].dead = conn[k].dead
             /\ conn'[k].pending = {older(call) : call \in conn[k].pending}
  <2>1. conn[k] \in ConnState
    BY <1>1 DEF StateOK
  <2>2. PICK due, late : /\ due = (IF conn[k].idle = Off THEN Off ELSE conn[k].idle - 1)
                         /\ late = {older(call) : call \in conn[k].pending}
    OBVIOUS
  <2>3. conn'[k] = [conn[k] EXCEPT !.idle = due, !.pending = late]
    BY <2>1, <2>2 DEF Tick, ConnState
  <2>4. due \in 0..KEEPALIVE_MS + 1
    BY <2>1, <2>2 DEF ConnState, Off
  <2>5. late \subseteq Calls
    BY <1>2, <2>2
  <2> HIDE DEF older
  <2> QED BY <2>1, <2>2, <2>3, <2>4, <2>5 DEF ConnState
<1> HIDE DEF older
<1>4. StateOK'
  <2>1. conn' \in [Conns -> ConnState]
    BY <1>3 DEF Tick
  <2> QED BY <1>1, <2>1, SmallTypes DEF StateOK
<1>5. ConnsOK'
  BY <1>1, <1>3 DEF ConnsOK, ConnOK
<1>6. ASSUME NEW c \in Callers PROVE CallerOK(c)'
  <2>1. CallerOK(c) /\ caller[c].conn \in Conns \cup {NoConn} /\ Absent(c, turns)
        /\ caller[c].pc \in {"idle", "connecting", "calling"}
    BY <1>1, QuietSays DEF StateOK, CallerState, CallersOK
  <2>2. NoCall(c) => NoCall(c)'
    <3> SUFFICES ASSUME NoCall(c), NEW k \in Conns, NEW other \in conn'[k].pending
                 PROVE  other.by # c
      BY DEF NoCall
    <3>1. PICK call \in conn[k].pending : other = older(call)
      BY <1>3
    <3> QED BY <1>2, <3>1 DEF NoCall
  <2>3. CASE caller[c].pc = "calling"
    <3>1. OneCall(c) /\ caller[c].conn \in Conns
      BY <1>1, <2>1, <2>3, QuietSays DEF CallerOK
    <3>2. PICK call \in conn[caller[c].conn].pending :
            /\ call.by = c /\ call.call = caller[c].call
            /\ \A k \in Conns : \A other \in conn[k].pending :
                 other.by = c => k = caller[c].conn /\ other = call
      BY <3>1 DEF OneCall
    <3>3. /\ older(call) \in conn'[caller[c].conn].pending
          /\ older(call).by = c /\ older(call).call = caller[c].call
      BY <1>2, <1>3, <3>1, <3>2
    <3>4. ASSUME NEW k \in Conns, NEW other \in conn'[k].pending, other.by = c
          PROVE  k = caller[c].conn /\ other = older(call)
      <4>1. PICK one \in conn[k].pending : other = older(one)
        BY <1>3
      <4> QED BY <1>2, <3>2, <3>4, <4>1
    <3>5. OneCall(c)'
      BY <1>1, <3>3, <3>4 DEF OneCall
    <3> QED BY <1>1, <2>1, <2>3, <3>1, <3>5 DEF CallerOK
  <2>4. CASE caller[c].pc # "calling"
    <3>1. NoCall(c)
      BY <2>1, <2>4 DEF CallerOK
    <3> QED BY <1>1, <1>3, <2>1, <2>2, <2>4, <3>1 DEF CallerOK
  <2> QED BY <2>3, <2>4
<1> QED BY <1>4, <1>5, <1>6 DEF PoolInv, CallersOK

-----------------------------------------------------------------------------
(***************************************************************************)
(* The theorems.                                                           *)
(***************************************************************************)
LEMMA InitHasInv == Init => PoolInv
<1> SUFFICES ASSUME Init PROVE PoolInv
  OBVIOUS
<1>1. /\ pool = NoConn /\ turns = <<>> /\ chunk = NoChunk
      /\ conn = [k \in Conns |-> Made] /\ caller = [c \in Callers |-> Free]
  BY DEF Init
<1>2. StateOK
  BY <1>1, SmallTypes DEF StateOK
<1>3. ConnsOK
  BY <1>1 DEF ConnsOK, ConnOK, Made
<1>4. ASSUME NEW c \in Callers PROVE CallerOK(c)
  <2>1. NoCall(c)
    BY <1>1 DEF NoCall, Made
  <2>2. Absent(c, turns)
    BY <1>1 DEF Absent
  <2> QED BY <1>1, <2>1, <2>2 DEF CallerOK, Free, Absent
<1> QED BY <1>2, <1>3, <1>4 DEF PoolInv, CallersOK

LEMMA StepKeepsInv == PoolInv /\ [Next]_vars => PoolInv'
<1> SUFFICES ASSUME PoolInv, [Next]_vars PROVE PoolInv'
  OBVIOUS
<1>1. CASE RunTurn
  BY <1>1, TurnKeepsInv
<1>2. CASE Close
  <2>1. pool \in Conns /\ Kill(pool)
    BY <1>2 DEF Close, PoolInv, StateOK
  <2> QED BY <2>1, KillKeepsInv
<1>3. CASE Tick
  BY <1>3, TickKeepsInv
<1>4. ASSUME NEW c \in Callers, Request(c) PROVE PoolInv'
  BY <1>4, RequestKeepsInv
<1>5. ASSUME NEW k \in Conns, Sockets(k) PROVE PoolInv'
  <2>1. ASSUME NEW call \in conn[k].pending, NEW failed \in BOOLEAN, Reply(k, call, failed)
        PROVE  PoolInv'
    BY <2>1, ReplyKeepsInv
  <2>2. ASSUME NEW call \in conn[k].pending, CallTimesOut(k, call) PROVE PoolInv'
    BY <2>2, CallTimesOutKeepsInv
  <2>3. ASSUME NEW call \in conn[k].pending, HandshakeTimesOut(k, call) PROVE PoolInv'
    BY <2>3, HandshakeTimesOutKeepsInv
  <2>4. CASE Connected(k)
    BY <2>4, ConnectedKeepsInv
  <2>5. CASE ConnectFails(k)
    BY <2>5, ConnectFailsKeepsInv
  <2>6. CASE SocketEnds(k) \/ IdleFires(k)
    BY <2>6, KillKeepsInv DEF SocketEnds, IdleFires
  <2> QED BY <1>5, <2>1, <2>2, <2>3, <2>4, <2>5, <2>6 DEF Sockets
<1>6. CASE UNCHANGED vars
  BY <1>6 DEF vars, PoolInv, StateOK, ConnsOK, ConnOK, CallersOK, CallerOK, NoCall, OneCall
<1> QED BY <1>1, <1>2, <1>3, <1>4, <1>5, <1>6 DEF Next

\* The invariant from which the two properties of the pool follow: of every
\* lookup, what it waits for; of every connection, whether it may be used.
THEOREM PoolInvariant == Spec => []PoolInv
BY InitHasInv, StepKeepsInv, PTL DEF Spec

LEMMA NothingCounts == ASSUME NEW S, S = {} PROVE Cardinality(S) = 0
BY FS_EmptySet

LEMMA OneCounts == ASSUME NEW S, NEW x, S = {x} PROVE Cardinality(S) = 1
BY FS_Singleton

\* Every lookup under way has exactly one thing that will wake it, and waits
\* only for replies on a connection that is up: no kill (_kill), no timeout of
\* a call or of the handshake, and no reply that comes late loses a lookup or
\* wakes it twice.
THEOREM EveryLookupHasOneWake == Spec => []OneWake
<1>1. ASSUME PoolInv, NEW c \in Callers
      PROVE  LET k == caller[c].conn
                 coming == IF caller[c].pc = "connecting" /\ conn[k].connecting THEN 1 ELSE 0
             IN  /\ coming + Cardinality(AwaitedCalls(c)) + Cardinality(TurnsOf(c))
                      = (IF caller[c].pc = "idle" THEN 0 ELSE 1)
                 /\ \A w \in AwaitedCalls(c) : w[1] = k /\ conn[k].socket = "open" /\ ~conn[k].dead
  <2>1. /\ StateOK /\ ConnsOK /\ CallersOK /\ CallerOK(c)
        /\ caller[c].pc \in {"idle", "connecting", "calling"}
    BY <1>1 DEF PoolInv, CallersOK, StateOK, CallerState
  <2>2. \A k \in Conns : conn[k].pending \subseteq Calls
    BY <2>1 DEF StateOK, ConnState
  <2>3. NoCall(c) => AwaitedCalls(c) = {}
    BY DEF NoCall, AwaitedCalls
  <2>4. Absent(c, turns) => TurnsOf(c) = {}
    BY DEF Absent, TurnsOf
  <2>5. ASSUME NEW acts, Once(c, turns, acts) PROVE Cardinality(TurnsOf(c)) = 1
    <3>1. PICK i \in DOMAIN turns : /\ turns[i].by = c
                                   /\ \A j \in DOMAIN turns : turns[j].by = c => j = i
      BY <2>5 DEF Once
    <3>2. TurnsOf(c) = {i}
      BY <3>1 DEF TurnsOf
    <3> QED BY <3>2, OneCounts
  <2>6. ASSUME NoCall(c) PROVE Cardinality(AwaitedCalls(c)) = 0 /\ AwaitedCalls(c) = {}
    BY <2>3, <2>6, NothingCounts
  <2>7. ASSUME Absent(c, turns) PROVE Cardinality(TurnsOf(c)) = 0
    BY <2>4, <2>7, NothingCounts
  <2>8. CASE caller[c].pc = "idle"
    BY <2>1, <2>6, <2>7, <2>8 DEF CallerOK
  <2>9. CASE caller[c].pc = "connecting"
    BY <2>1, <2>5, <2>6, <2>7, <2>9 DEF CallerOK
  <2>10. CASE caller[c].pc = "calling" /\ NoCall(c) /\ Once(c, turns, GoesOn)
    BY <2>5, <2>6, <2>10
  <2>11. CASE caller[c].pc = "calling" /\ OneCall(c) /\ Absent(c, turns)
    <3>1. PICK k : k = caller[c].conn
      OBVIOUS
    <3>2. k \in Conns
      BY <2>1, <2>11, <3>1 DEF CallerOK
    <3>3. PICK call \in conn[k].pending :
            /\ call.by = c
            /\ \A j \in Conns : \A other \in conn[j].pending : other.by = c => j = k /\ other = call
      BY <2>11, <3>1 DEF OneCall
    <3>4. AwaitedCalls(c) = {<<k, call>>}
      BY <2>2, <3>2, <3>3 DEF AwaitedCalls
    <3>5. conn[k].socket = "open" /\ ~conn[k].dead
      BY <2>1, <3>2, <3>3 DEF ConnsOK, ConnOK
    <3>6. Cardinality(AwaitedCalls(c)) = 1 /\ Cardinality(TurnsOf(c)) = 0
      BY <2>7, <2>11, <3>4, OneCounts
    <3> QED BY <2>11, <3>1, <3>4, <3>5, <3>6
  <2> QED BY <2>1, <2>8, <2>9, <2>10, <2>11 DEF CallerOK
<1>2. PoolInv => OneWake
  BY <1>1 DEF OneWake
<1> QED BY <1>2, PoolInvariant, PTL

\* The client never holds two live connections to the host: what is up or is
\* coming up, and is not dead, is what the pool holds (_queryPooled reuses it
\* and _kill takes it out), for any number of lookups that share it.
THEOREM ThePoolHoldsTheOne == Spec => []OneLiveConnection
<1>1. PoolInv => TypeOK
  BY DEF PoolInv, StateOK, TypeOK
<1>2. PoolInv => OneLiveConnection
  BY <1>1 DEF PoolInv, ConnsOK, ConnOK, OneLiveConnection
<1> QED BY <1>2, PoolInvariant, PTL
=============================================================================
