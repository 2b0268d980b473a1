----------------------------- MODULE DialProofs -----------------------------
(***************************************************************************)
(* A dial leaves no socket behind, is not held up by a dead family of      *)
(* addresses, and a tunnel loses no byte, for every number of addresses,   *)
(* length of reply and of chunks, order of events and timing.              *)
(***************************************************************************)
EXTENDS Dial, WellFoundedInduction, TLAPS

USE SocksAssumption, DialAssumption DEF SocksAssumption, DialAssumption

(***************************************************************************)
(* The parser of the SOCKS5 client.                                        *)
(***************************************************************************)
SocksTypeOK ==
  /\ proxy \in Proxies
  /\ sent \in Nat /\ got \in Nat /\ taken \in Nat
  /\ stage \in {"greeting", "reply", "tunnel", "refused"}
  /\ leftover \in Seq(Nat) /\ handed \in Seq(Nat)

\* Where the parser is tells how much it has taken.
ParserPlace ==
  /\ stage = "reply" => taken = GREETING
  /\ stage = "tunnel" => got >= GREETING + Need
  /\ stage # "tunnel" => leftover = <<>>

SocksInv == SocksTypeOK /\ ParserPlace /\ TunnelIntact

LEMMA NeedIsNat == ASSUME proxy \in Proxies PROVE Need \in Nat
  BY DEF Need, HEADER

LEMMA BytesSeq ==
  ASSUME NEW a \in Nat, NEW b \in Nat, a <= b
  PROVE  /\ Bytes(a, b) \in Seq(Nat)
         /\ Len(Bytes(a, b)) = b - a
  BY DEF Bytes

LEMMA ConcatSeq ==
  ASSUME NEW s \in Seq(Nat), NEW t \in Seq(Nat)
  PROVE  /\ s \o t \in Seq(Nat)
         /\ Len(s \o t) = Len(s) + Len(t)
         /\ \A n \in 1..Len(s) + Len(t) :
              (s \o t)[n] = IF n <= Len(s) THEN s[n] ELSE t[n - Len(s)]
  OBVIOUS

\* Adjacent stretches of bytes make one.
LEMMA BytesConcat ==
  ASSUME NEW a \in Nat, NEW b \in Nat, NEW c \in Nat, a <= b, b <= c
  PROVE  Bytes(a, b) \o Bytes(b, c) = Bytes(a, c)
<1> DEFINE l == Bytes(a, b) \o Bytes(b, c)
<1>1. /\ l \in Seq(Nat) /\ Len(l) = c - a
      /\ \A n \in 1..(c - a) : l[n] = IF n <= b - a THEN Bytes(a, b)[n] ELSE Bytes(b, c)[n - (b - a)]
  <2> HIDE DEF l
  <2>1. /\ Bytes(a, b) \in Seq(Nat) /\ Len(Bytes(a, b)) = b - a
        /\ Bytes(b, c) \in Seq(Nat) /\ Len(Bytes(b, c)) = c - b
    BY BytesSeq, Zenon
  <2>2. (b - a) + (c - b) = c - a
    OBVIOUS
  <2>3. ASSUME NEW s \in Seq(Nat), NEW t \in Seq(Nat),
               Len(s) = b - a, Len(t) = c - b
        PROVE  /\ s \o t \in Seq(Nat) /\ Len(s \o t) = c - a
               /\ \A n \in 1..(c - a) : (s \o t)[n] = IF n <= b - a THEN s[n] ELSE t[n - (b - a)]
    BY <2>2, <2>3, ConcatSeq
  <2> QED BY <2>1, <2>3, Zenon DEF l
<1>2. \A n \in 1..(c - a) : l[n] = a + n
  <2> HIDE DEF l
  <2> SUFFICES ASSUME NEW n \in 1..(c - a) PROVE l[n] = a + n
    OBVIOUS
  <2>1. CASE n <= b - a
    <3>1. n \in 1..(b - a) /\ l[n] = Bytes(a, b)[n]
      BY <1>1, <2>1
    <3> QED BY <3>1 DEF Bytes
  <2>2. CASE ~(n <= b - a)
    <3>1. n - (b - a) \in 1..(c - b) /\ l[n] = Bytes(b, c)[n - (b - a)]
      BY <1>1, <2>2
    <3>2. Bytes(b, c)[n - (b - a)] = b + (n - (b - a))
      BY <3>1 DEF Bytes
    <3> QED BY <3>1, <3>2
  <2> QED BY <2>1, <2>2
<1>3. l = [n \in 1..(c - a) |-> a + n]
  <2> HIDE DEF l
  <2> QED BY <1>1, <1>2
<1> QED BY <1>3 DEF Bytes

LEMMA SocksStutter ==
  ASSUME SocksInv, UNCHANGED socksVars
  PROVE  SocksInv'
  BY DEF SocksInv, SocksTypeOK, ParserPlace, TunnelIntact, socksVars, Need, Bytes

LEMMA ProxySendsInv ==
  ASSUME SocksInv, ProxySends
  PROVE  SocksInv'
<1>1. Need \in Nat
  BY NeedIsNat DEF SocksInv, SocksTypeOK
<1>2. sent' \in Nat
  BY <1>1 DEF SocksInv, SocksTypeOK, ProxySends, GREETING
<1>3. UNCHANGED <<proxy, got, taken, stage, leftover, handed>>
  BY DEF ProxySends
<1>4. Need' = Need
  BY <1>3 DEF Need
<1>5. SocksTypeOK' /\ ParserPlace'
  BY <1>2, <1>3, <1>4 DEF SocksInv, SocksTypeOK, ParserPlace
<1>6. TunnelIntact'
  BY <1>3, <1>4 DEF SocksInv, TunnelIntact, Bytes
<1> QED BY <1>5, <1>6 DEF SocksInv

LEMMA DataInv ==
  ASSUME SocksInv, Data
  PROVE  SocksInv'
<1>1. Need \in Nat /\ GREETING \in Nat
  BY NeedIsNat DEF SocksInv, SocksTypeOK, GREETING
<1>2. got' \in Nat /\ got < got' /\ got' <= sent /\ UNCHANGED <<proxy, sent>>
  BY DEF Data, SocksInv, SocksTypeOK
<1>3. Need' = Need /\ Bytes(GREETING + Need, got)' = Bytes(GREETING + Need, got')
  BY <1>2 DEF Need, Bytes
<1>4. CASE GreetingData
  <2>1. /\ stage = "greeting" /\ stage' \in {"greeting", "refused", "reply"}
        /\ taken' \in Nat
        /\ stage' = "reply" => taken' = GREETING
        /\ UNCHANGED <<leftover, handed>>
    BY <1>1, <1>4 DEF GreetingData, SocksInv, SocksTypeOK
  <2>2. SocksTypeOK' /\ ParserPlace'
    BY <1>2, <2>1 DEF SocksInv, SocksTypeOK, ParserPlace
  <2>3. TunnelIntact'
    BY <2>1 DEF SocksInv, TunnelIntact
  <2> QED BY <2>2, <2>3 DEF SocksInv
<1>5. CASE ReplyData
  <2>1. stage = "reply" /\ taken = GREETING /\ leftover = <<>> /\ handed = <<>> /\ handed' = <<>>
    BY <1>5 DEF ReplyData, SocksInv, ParserPlace, TunnelIntact
  <2>2. CASE stage' # "tunnel"
    <3>1. stage' \in {"reply", "refused"} /\ UNCHANGED <<taken, leftover>>
      BY <1>5, <2>1, <2>2 DEF ReplyData
    <3>2. SocksTypeOK' /\ ParserPlace'
      BY <1>2, <2>1, <3>1 DEF SocksInv, SocksTypeOK, ParserPlace
    <3> QED BY <2>1, <2>2, <3>2 DEF SocksInv, TunnelIntact
  <2>3. CASE stage' = "tunnel"
    <3>1. /\ taken' = got'
          /\ leftover' = Bytes(GREETING + Need, got')
      BY <1>5, <2>1, <2>3 DEF ReplyData
    <3>2. GREETING + Need \in Nat /\ GREETING + Need <= got'
      <4>1. got' - GREETING >= Need
        BY <1>5, <2>1, <2>3 DEF ReplyData
      <4>2. ASSUME NEW n \in Nat, NEW g \in Nat, NEW h \in Nat, h - g >= n
            PROVE  g + n \in Nat /\ g + n <= h
        BY <4>2
      <4> QED BY <1>1, <1>2, <4>1, <4>2, Zenon
    <3>3. leftover' \in Seq(Nat)
      BY <1>2, <3>1, <3>2, BytesSeq, Zenon
    <3>4. SocksTypeOK' /\ ParserPlace'
      BY <1>1, <1>2, <1>3, <2>1, <2>3, <3>1, <3>2, <3>3 DEF SocksInv, SocksTypeOK, ParserPlace
    <3>5. <<>> \o leftover' = leftover'
      BY <3>3
    <3>6. TunnelIntact'
      BY <1>3, <2>1, <2>3, <3>1, <3>5 DEF TunnelIntact
    <3> QED BY <3>4, <3>6 DEF SocksInv
  <2> QED BY <2>2, <2>3
<1>6. CASE TunnelData
  <2>1. /\ stage = "tunnel" /\ leftover = <<>> /\ UNCHANGED <<stage, leftover>>
        /\ taken' = got' /\ handed' = handed \o Bytes(got, got')
    BY <1>6 DEF TunnelData
  <2>2. got \in Nat /\ GREETING + Need <= got
    BY <1>1, <2>1 DEF SocksInv, SocksTypeOK, ParserPlace
  <2>3. handed \in Seq(Nat) /\ handed = Bytes(GREETING + Need, got)
    BY <2>1 DEF SocksInv, SocksTypeOK, TunnelIntact
  <2>4. GREETING + Need \in Nat /\ got <= got' /\ GREETING + Need <= got'
    BY <1>1, <1>2, <2>2
  <2>5. /\ handed' = Bytes(GREETING + Need, got')
        /\ handed' \in Seq(Nat)
    <3>1. Bytes(GREETING + Need, got) \o Bytes(got, got') = Bytes(GREETING + Need, got')
      BY <1>2, <2>2, <2>4, BytesConcat, Zenon
    <3>2. Bytes(GREETING + Need, got') \in Seq(Nat)
      BY <1>2, <2>4, BytesSeq, Zenon
    <3>3. handed \o Bytes(got, got') = Bytes(GREETING + Need, got')
      BY <2>3, <3>1, Zenon
    <3> QED BY <2>1, <3>2, <3>3, Zenon
  <2>6. SocksTypeOK' /\ ParserPlace'
    BY <1>1, <1>2, <1>3, <2>1, <2>2, <2>5 DEF SocksInv, SocksTypeOK, ParserPlace
  <2>7. TunnelIntact'
    BY <1>3, <2>1, <2>5 DEF TunnelIntact
  <2> QED BY <2>6, <2>7 DEF SocksInv
<1> QED BY <1>4, <1>5, <1>6 DEF Data

LEMMA ReemitInv ==
  ASSUME SocksInv, Reemit
  PROVE  SocksInv'
<1>1. /\ UNCHANGED <<proxy, sent, got, taken, stage>>
      /\ leftover' = <<>> /\ handed' = handed \o leftover
      /\ stage = "tunnel"
  BY DEF Reemit, SocksInv, ParserPlace
<1>2. Need' = Need /\ Bytes(GREETING + Need, got)' = Bytes(GREETING + Need, got)
  BY <1>1 DEF Need, Bytes
<1>3. SocksTypeOK' /\ ParserPlace'
  BY <1>1, <1>2 DEF SocksInv, SocksTypeOK, ParserPlace
<1>4. handed' \o leftover' = handed \o leftover
  BY <1>1 DEF SocksInv, SocksTypeOK
<1>5. TunnelIntact'
  BY <1>1, <1>2, <1>4 DEF SocksInv, TunnelIntact
<1> QED BY <1>3, <1>5 DEF SocksInv

LEMMA SocksInitInv == SocksInit => SocksInv
  BY DEF SocksInit, SocksInv, SocksTypeOK, ParserPlace, TunnelIntact

\* Whatever Dial does with the socket, the parser stays as it is or takes a
\* step of its own.
LEMMA SocksSteps ==
  ASSUME [Next]_vars
  PROVE  UNCHANGED socksVars \/ ProxySends \/ Data \/ Reemit
  BY DEF Next, vars, DnsAnswers, Stagger, TimesOut, Tick, Connects, ConnectErrors,
         ProxyConnects, Speaks, Reads, Immediate, ProxyCloses, TlsUp, TlsFails, Concludes

\* The inductive invariant of the parser: at every stage what was taken, what
\* is left over and what was handed on are, in this order, what was sent.
THEOREM ParserInvariant == Spec => []SocksInv
<1>1. Init => SocksInv
  BY SocksInitInv DEF Init
<1>2. SocksInv /\ [Next]_vars => SocksInv'
  BY SocksSteps, SocksStutter, ProxySendsInv, DataInv, ReemitInv
<1> QED BY <1>1, <1>2, PTL DEF Spec

\* However the proxy cuts what it sends into chunks and however long its
\* reply is, the user of the tunnel is given every byte that follows the
\* reply once, in order, and no byte of the dialogue (the buffer that
\* createSocksClient re-emits with setImmediate).
THEOREM TunnelIsIntact == Spec => []TunnelIntact
<1>1. SocksInv => TunnelIntact
  BY DEF SocksInv
<1> QED BY <1>1, ParserInvariant, PTL

-----------------------------------------------------------------------------
(***************************************************************************)
(* The sockets of a dial.                                                  *)
(***************************************************************************)
Socket == [state : {"connecting", "up", "failed", "destroyed"}, since : Nat]

DialTypeOK ==
  /\ mode \in Modes
  /\ sock \in Seq(Socket)
  /\ dial \in {"resolving", "racing", "proxy", "tls", "connected", "failed"}
  /\ winner \in 0..Len(sock)
  /\ stagger \in Nat \cup {NoTimer}
  /\ query \in {"waiting", "ended", "abandoned", "none"}
  /\ age \in Nat

\* Where the dial is tells who waits for what: the winner is known from the
\* TCP connection on, a query has not ended during the dial, nor abandoned it
\* before TLS, addresses are only tried in a race, and the winner of a proxied
\* dial is behind the parser.
DialPlace ==
  /\ dial \in {"resolving", "racing", "proxy"} => winner = 0 /\ query \notin {"ended", "abandoned"}
  /\ dial \in {"tls", "connected"} => winner # 0
  /\ stagger # NoTimer => dial = "racing"
  /\ dial = "tls" => mode.tls /\ query # "ended"
  /\ dial = "proxy" => mode.proxied
  /\ mode.proxied => /\ dial \notin {"resolving", "racing"}
                     /\ Len(sock) = 1
                     /\ dial \in {"tls", "connected"} => stage = "tunnel"

DialInv == DialTypeOK /\ DialPlace /\ NoSocketLeft

LEMMA SocketChange ==
  ASSUME NEW s \in Socket, NEW st \in {"connecting", "up", "failed", "destroyed"}
  PROVE  [s EXCEPT !.state = st] \in Socket /\ [s EXCEPT !.state = st].state = st
  BY DEF Socket

LEMMA SocketOf ==
  ASSUME NEW sockets \in Seq(Socket), NEW i \in 1..Len(sockets)
  PROVE  sockets[i] \in Socket
  OBVIOUS

\* What destroying every socket but one leaves.
LEMMA SpareLeaves ==
  ASSUME sock \in Seq(Socket), NEW i
  PROVE  /\ Spare(i) \in Seq(Socket)
         /\ Len(Spare(i)) = Len(sock)
         /\ \A j \in 1..Len(sock) : Open(Spare(i)[j]) => j = i
         /\ i \in 1..Len(sock) => Spare(i)[i] = sock[i]
<1>1. DOMAIN sock = 1..Len(sock) /\ Len(sock) \in Nat
  OBVIOUS
<1>2. \A j \in 1..Len(sock) : Spare(i)[j] \in Socket /\ (Open(Spare(i)[j]) => j = i)
  <2> SUFFICES ASSUME NEW j \in 1..Len(sock)
               PROVE  Spare(i)[j] \in Socket /\ (Open(Spare(i)[j]) => j = i)
    OBVIOUS
  <2>1. sock[j] \in Socket
    BY SocketOf
  <2>2. Spare(i)[j] = IF j # i /\ Open(sock[j])
                      THEN [sock[j] EXCEPT !.state = "destroyed"] ELSE sock[j]
    BY <1>1 DEF Spare
  <2> QED BY <2>1, <2>2, SocketChange DEF Open
<1>3. Spare(i) = [j \in 1..Len(sock) |-> Spare(i)[j]]
  BY <1>1 DEF Spare
<1> QED
  <2>1. Spare(i) \in Seq(Socket) /\ Len(Spare(i)) = Len(sock)
    BY <1>1, <1>2, <1>3
  <2> QED BY <2>1, <1>1, <1>2 DEF Spare

LEMMA DropLeaves ==
  ASSUME sock \in Seq(Socket), NEW i \in 1..Len(sock)
  PROVE  /\ Drop(i) \in Seq(Socket)
         /\ Len(Drop(i)) = Len(sock)
         /\ \A j \in 1..Len(sock) : Open(Drop(i)[j]) => j # i /\ Open(sock[j])
<1>1. /\ [sock[i] EXCEPT !.state = "destroyed"] \in Socket
      /\ [sock[i] EXCEPT !.state = "destroyed"].state = "destroyed"
  BY SocketOf, SocketChange
<1> QED BY <1>1 DEF Drop, Open

\* A dial that is over, by its socket being handed over or refused.
LEMMA DeliveredLeaves ==
  ASSUME DialTypeOK,
         NEW i \in 1..Len(sock), NEW sockets \in Seq(Socket), Len(sockets) = Len(sock),
         \A j \in 1..Len(sock) : Open(sockets[j]) => j = i,
         Delivered(i, sockets)
  PROVE  /\ sock' \in Seq(Socket) /\ Len(sock') = Len(sock)
         /\ dial' \in {"connected", "failed"}
         /\ query' \in {"waiting", "ended", "abandoned", "none"}
         /\ \A j \in 1..Len(sock) : Open(sock'[j]) => j = i
         /\ dial' = "failed" => \A j \in 1..Len(sock) : ~Open(sock'[j])
         /\ query' = "ended" => query = "ended" \/ \A j \in 1..Len(sock) : ~Open(sock'[j])
<1>1. CASE sock' = sockets /\ dial' = "connected" /\ UNCHANGED query
  BY <1>1 DEF DialTypeOK
<1>2. CASE sock' = [sockets EXCEPT ![i].state = "destroyed"] /\ Rejected
  <2>1. /\ [sockets[i] EXCEPT !.state = "destroyed"] \in Socket
        /\ [sockets[i] EXCEPT !.state = "destroyed"].state = "destroyed"
    BY SocketOf, SocketChange
  <2>2. /\ sock' \in Seq(Socket) /\ Len(sock') = Len(sock)
        /\ \A j \in 1..Len(sock) : ~Open(sock'[j])
    BY <1>2, <2>1 DEF Open
  <2> QED BY <1>2, <2>2 DEF Rejected, DialTypeOK
<1> QED BY <1>1, <1>2 DEF Delivered

\* A TCP connection: the winner is known, and the losers are destroyed.
LEMMA TcpUpInv ==
  ASSUME DialInv, NEW i \in 1..Len(sock), TcpUp(i),
         dial \in {"racing", "proxy"}, mode.proxied => stage' = "tunnel",
         UNCHANGED <<mode, age>>
  PROVE  DialInv'
<1> DEFINE sockets == [Spare(i) EXCEPT ![i].state = "up"]
<1>1. sock \in Seq(Socket) /\ Len(sock) \in Nat
  BY DEF DialInv, DialTypeOK
<1>2. /\ sockets \in Seq(Socket) /\ Len(sockets) = Len(sock)
      /\ \A j \in 1..Len(sock) : Open(sockets[j]) => j = i
  <2>1. [Spare(i)[i] EXCEPT !.state = "up"] \in Socket
    BY <1>1, SpareLeaves, SocketOf, SocketChange
  <2> QED BY <1>1, <2>1, SpareLeaves
<1>3. /\ sock' \in Seq(Socket) /\ Len(sock') = Len(sock)
      /\ dial' \in {"tls", "connected", "failed"}
      /\ dial' = "tls" => mode.tls /\ query' # "ended"
      /\ query' \in {"waiting", "ended", "abandoned", "none"}
      /\ \A j \in 1..Len(sock) : Open(sock'[j]) => j = i
      /\ dial' = "failed" => \A j \in 1..Len(sock) : ~Open(sock'[j])
      /\ query' = "ended" => \A j \in 1..Len(sock) : ~Open(sock'[j])
  <2>1. query \in {"waiting", "none"}
    BY DEF DialInv, DialTypeOK, DialPlace
  <2>2. CASE mode.tls
    BY <1>2, <2>1, <2>2 DEF TcpUp
  <2>3. CASE ~mode.tls
    <3>1. Delivered(i, sockets)
      BY <2>3 DEF TcpUp
    <3> HIDE DEF sockets
    <3> QED BY <1>2, <2>1, <3>1, DeliveredLeaves DEF DialInv
  <2> QED BY <2>2, <2>3
<1>4. winner' = i /\ stagger' = NoTimer /\ UNCHANGED <<mode, age>>
  BY DEF TcpUp
<1>5. DialTypeOK'
  BY <1>1, <1>3, <1>4 DEF DialInv, DialTypeOK
<1>6. DialPlace'
  BY <1>1, <1>3, <1>4 DEF DialInv, DialPlace
<1>7. NoSocketLeft'
  BY <1>1, <1>3, <1>4 DEF NoSocketLeft
<1> QED BY <1>5, <1>6, <1>7 DEF DialInv

\* No TCP connection: nothing is left open, whenever it happens.
LEMMA TcpFailsInv ==
  ASSUME DialInv, TcpFails, UNCHANGED <<mode, age>>
  PROVE  DialInv'
<1>1. /\ sock' \in Seq(Socket) /\ Len(sock') = Len(sock) /\ Len(sock) \in Nat
      /\ \A j \in 1..Len(sock) : ~Open(sock'[j])
  <2>1. sock \in Seq(Socket) /\ Len(sock) \in Nat /\ sock' = Spare(0)
    BY DEF DialInv, DialTypeOK, TcpFails
  <2>2. \A j \in 1..Len(sock) : j # 0
    BY <2>1
  <2> QED BY <2>1, <2>2, SpareLeaves
<1>2. /\ dial' = "failed" /\ stagger' = NoTimer /\ winner' = winner
      /\ query' \in {"waiting", "ended", "abandoned", "none"}
  BY DEF TcpFails, Rejected, DialInv, DialTypeOK
<1>3. DialTypeOK' /\ DialPlace' /\ NoSocketLeft'
  BY <1>1, <1>2 DEF DialInv, DialTypeOK, DialPlace, NoSocketLeft
<1> QED BY <1>3 DEF DialInv

\* One more address is tried: only while nobody has won.
LEMMA TryInv ==
  ASSUME DialInv, NEW list, Try(list), dial \in {"resolving", "racing"}, dial' = "racing",
         UNCHANGED <<mode, winner, query, age>>
  PROVE  DialInv'
<1>1. Opening(age) \in Socket
  BY DEF DialInv, DialTypeOK, Opening, Socket
<1>2. sock' \in Seq(Socket) /\ Len(sock') = Len(sock) + 1 /\ Len(sock) \in Nat
  BY <1>1 DEF Try, DialInv, DialTypeOK
<1>3. stagger' \in Nat \cup {NoTimer}
  BY DEF Try, DialInv, DialTypeOK
<1>4. winner = 0 /\ query \notin {"ended", "abandoned"} /\ ~mode.proxied
  BY DEF DialInv, DialPlace, DialTypeOK
<1>5. DialTypeOK'
  BY <1>2, <1>3 DEF DialInv, DialTypeOK
<1>6. DialPlace' /\ NoSocketLeft'
  BY <1>4 DEF DialPlace, NoSocketLeft
<1> QED BY <1>5, <1>6 DEF DialInv

\* A step that leaves the sockets, the dial and the timers alone.
LEMMA DialStutter ==
  ASSUME DialInv, UNCHANGED <<mode, sock, dial, winner, stagger, query, age>>,
         mode.proxied /\ stage = "tunnel" => stage' = "tunnel"
  PROVE  DialInv'
  BY DEF DialInv, DialTypeOK, DialPlace, NoSocketLeft

\* The socket of a dial that was won is closed by whoever it was for.
LEMMA DropInv ==
  ASSUME DialInv, dial \in {"tls", "connected"}, sock' = Drop(winner),
         dial' \in {"connected", "failed"}, query' \in {query, "ended"},
         UNCHANGED <<mode, winner, stagger, age, stage>>
  PROVE  DialInv'
<1>1. sock \in Seq(Socket) /\ winner \in 1..Len(sock) /\ Len(sock) \in Nat
  BY DEF DialInv, DialTypeOK, DialPlace
<1>2. \A j \in 1..Len(sock) : Open(sock[j]) => j = winner
  BY <1>1 DEF DialInv, NoSocketLeft
<1>3. /\ sock' \in Seq(Socket) /\ Len(sock') = Len(sock)
      /\ \A j \in 1..Len(sock) : ~Open(sock'[j])
  BY <1>1, <1>2, DropLeaves
<1>4. DialTypeOK' /\ DialPlace' /\ NoSocketLeft'
  BY <1>1, <1>3 DEF DialInv, DialTypeOK, DialPlace, NoSocketLeft
<1> QED BY <1>4 DEF DialInv

\* What the proxy sends never takes a tunnel back to the dialogue.
LEMMA TunnelStays ==
  ASSUME [Next]_vars, stage = "tunnel"
  PROVE  stage' = "tunnel"
<1>1. CASE UNCHANGED socksVars
  BY <1>1 DEF socksVars
<1>2. CASE ProxySends \/ Data \/ Reemit
  BY <1>2 DEF ProxySends, Data, GreetingData, ReplyData, TunnelData, Reemit
<1> QED BY <1>1, <1>2, SocksSteps

\* One socket has failed or has connected.
LEMMA ChangeInv ==
  ASSUME DialInv, NEW i \in 1..Len(sock), NEW st \in {"up", "failed"},
         sock[i].state = "connecting", sock' = [sock EXCEPT ![i].state = st],
         UNCHANGED <<mode, dial, winner, stagger, query, age, stage>>
  PROVE  DialInv'
<1>1. sock \in Seq(Socket) /\ Len(sock) \in Nat /\ Open(sock[i])
  BY DEF DialInv, DialTypeOK, Open
<1>2. [sock[i] EXCEPT !.state = st] \in Socket
  BY <1>1, SocketOf, SocketChange
<1>3. /\ sock' \in Seq(Socket) /\ Len(sock') = Len(sock)
      /\ \A j \in 1..Len(sock) : Open(sock'[j]) => Open(sock[j])
  BY <1>1, <1>2
<1>4. DialTypeOK' /\ DialPlace' /\ NoSocketLeft'
  BY <1>1, <1>3 DEF DialInv, DialTypeOK, DialPlace, NoSocketLeft
<1> QED BY <1>4 DEF DialInv

\* The last address has failed, and with it the dial.
LEMMA AllFailedInv ==
  ASSUME DialInv, NEW i \in 1..Len(sock), dial = "racing",
         sock' = [sock EXCEPT ![i].state = "failed"], AllFailed(sock'),
         Rejected, stagger' = NoTimer, UNCHANGED <<mode, winner, age>>
  PROVE  DialInv'
<1>1. sock \in Seq(Socket) /\ Len(sock) \in Nat
  BY DEF DialInv, DialTypeOK
<1>2. [sock[i] EXCEPT !.state = "failed"] \in Socket
  BY <1>1, SocketOf, SocketChange
<1>3. sock' \in Seq(Socket) /\ Len(sock') = Len(sock)
  BY <1>1, <1>2
<1>4. \A j \in 1..Len(sock) : ~Open(sock'[j])
  <2>1. \A s \in ToSet(sock') : s.state = "failed"
    BY DEF AllFailed
  <2>2. \A j \in 1..Len(sock) : sock'[j] \in ToSet(sock')
    BY <1>3 DEF ToSet
  <2> QED BY <2>1, <2>2 DEF Open
<1>5. dial' = "failed" /\ query' \in {"waiting", "ended", "abandoned", "none"} /\ ~mode.proxied
  BY DEF Rejected, DialInv, DialTypeOK, DialPlace
<1>6. DialTypeOK'
  BY <1>1, <1>3, <1>5 DEF DialInv, DialTypeOK
<1>7. DialPlace'
  BY <1>5 DEF DialInv, DialPlace
<1>8. NoSocketLeft'
  BY <1>1, <1>3, <1>4 DEF NoSocketLeft
<1> QED BY <1>6, <1>7, <1>8 DEF DialInv

LEMMA ReadsInv ==
  ASSUME DialInv, Reads
  PROVE  DialInv'
<1>1. mode.proxied /\ sock[1].state = "up" /\ Len(sock) = 1 /\ UNCHANGED <<mode, age>>
  BY DEF Reads, DialInv, DialPlace, DialTypeOK
<1>2. dial # "failed"
  <2>1. 1 \in DOMAIN sock /\ Open(sock[1])
    BY <1>1 DEF Open, DialInv, DialTypeOK
  <2> QED BY <2>1 DEF DialInv, NoSocketLeft
<1>3. CASE stage' = "tunnel" /\ stage # "tunnel" /\ TcpUp(1)
  <2>1. dial = "proxy"
    BY <1>1, <1>2, <1>3 DEF DialInv, DialPlace, DialTypeOK
  <2> QED BY <1>1, <1>3, <2>1, TcpUpInv
<1>4. CASE stage' = "refused" /\ TcpFails
  BY <1>1, <1>4, TcpFailsInv
<1>5. CASE /\ stage' \in {"greeting", "reply"} \/ stage = "tunnel"
           /\ UNCHANGED <<sock, dial, winner, stagger, tlsDue, query>>
  <2>1. stage = "tunnel" => stage' = "tunnel"
    BY DEF Reads, Data, GreetingData, ReplyData, TunnelData
  <2> QED BY <1>1, <1>5, <2>1, DialStutter
<1> QED BY <1>3, <1>4, <1>5 DEF Reads

LEMMA TlsUpInv ==
  ASSUME DialInv, TlsUp
  PROVE  DialInv'
<1>1. sock \in Seq(Socket) /\ winner \in 1..Len(sock) /\ Len(sock) \in Nat /\ mode.tls
  BY DEF TlsUp, DialInv, DialTypeOK, DialPlace
<1>2. \A j \in 1..Len(sock) : Open(sock[j]) => j = winner
  BY <1>1 DEF DialInv, NoSocketLeft
<1>3. /\ sock' \in Seq(Socket) /\ Len(sock') = Len(sock)
      /\ dial' \in {"connected", "failed"}
      /\ query' \in {"waiting", "ended", "abandoned", "none"}
      /\ \A j \in 1..Len(sock) : Open(sock'[j]) => j = winner
      /\ dial' = "failed" => \A j \in 1..Len(sock) : ~Open(sock'[j])
      /\ query' = "ended" => \A j \in 1..Len(sock) : ~Open(sock'[j])
  <2>1. query # "ended"
    BY DEF TlsUp, DialInv, DialPlace
  <2> QED BY <1>1, <1>2, <2>1, DeliveredLeaves DEF TlsUp, DialInv
<1>4. dial = "tls" /\ UNCHANGED <<mode, winner, stagger, age, stage>>
  BY DEF TlsUp, socksVars
<1>5. DialTypeOK' /\ DialPlace' /\ NoSocketLeft'
  BY <1>1, <1>3, <1>4 DEF DialInv, DialTypeOK, DialPlace, NoSocketLeft
<1> QED BY <1>5 DEF DialInv

LEMMA TimesOutInv ==
  ASSUME DialInv, TimesOut
  PROVE  DialInv'
<1>1. UNCHANGED <<mode, age, stage>>
  BY DEF TimesOut, socksVars
<1>2. CASE dial \in {"resolving", "racing", "proxy"}
  BY <1>1, <1>2, TcpFailsInv DEF TimesOut
<1>3. CASE dial \notin {"resolving", "racing", "proxy"}
  <2>1. /\ query = "waiting" /\ query' = IF dial = "tls" THEN "abandoned" ELSE "ended"
        /\ sock' = IF dial = "connected" THEN Drop(winner) ELSE sock
        /\ UNCHANGED <<dial, winner, stagger>>
    BY <1>3 DEF TimesOut
  <2>2. CASE dial = "connected"
    BY <1>1, <2>1, <2>2, DropInv
  <2>3. CASE dial # "connected"
    <3>1. dial \in {"tls", "failed"} /\ sock' = sock
      BY <1>3, <2>1, <2>3 DEF DialInv, DialTypeOK
    <3> QED BY <1>1, <2>1, <3>1 DEF DialInv, DialTypeOK, DialPlace, NoSocketLeft
  <2> QED BY <2>2, <2>3
<1> QED BY <1>2, <1>3

\* The inductive invariant of the sockets: which of them may be open at each
\* stage of the dial, and which one it is that has won.
THEOREM SocketInvariant == Spec => []DialInv
<1>1. Init => DialInv
  <2> SUFFICES ASSUME Init PROVE DialInv
    OBVIOUS
  <2>1. Opening(0) \in Socket
    BY DEF Opening, Socket
  <2>2. mode.proxied \in BOOLEAN /\ mode.dedicated \in BOOLEAN
    BY DEF Init
  <2> QED BY <2>1, <2>2 DEF Init, DialInv, DialTypeOK, DialPlace, NoSocketLeft
<1>2. DialInv /\ [Next]_vars => DialInv'
  <2> SUFFICES ASSUME DialInv, [Next]_vars PROVE DialInv'
    OBVIOUS
  <2>1. CASE DnsAnswers
    <3>1. PICK list \in SeqOf(Addresses, MAX_ADDRESSES) :
            IF list = <<>> THEN TcpFails
            ELSE /\ dial' = "racing" /\ Try(addrs')
                 /\ UNCHANGED <<winner, tlsDue, query>>
      BY <2>1 DEF DnsAnswers
    <3>2. dial = "resolving" /\ UNCHANGED <<mode, age>>
      BY <2>1 DEF DnsAnswers
    <3> QED BY <3>1, <3>2, TcpFailsInv, TryInv
  <2>2. CASE Stagger
    <3>1. dial = "racing"
      BY <2>2 DEF Stagger, DialInv, DialTypeOK, DialPlace, NoTimer
    <3> QED BY <2>2, <3>1, TryInv DEF Stagger
  <2>3. CASE TimesOut
    BY <2>3, TimesOutInv
  <2>4. CASE Tick
    <3>1. age' \in Nat /\ UNCHANGED <<mode, sock, dial, winner, stagger, query, stage>>
      BY <2>4 DEF Tick, socksVars, DialInv, DialTypeOK
    <3> QED BY <3>1 DEF DialInv, DialTypeOK, DialPlace, NoSocketLeft
  <2>5. ASSUME NEW i \in DOMAIN sock, Connects(i) PROVE DialInv'
    <3>1. i \in 1..Len(sock) /\ dial = "racing" /\ ~mode.proxied
      BY <2>5 DEF Connects, DialInv, DialTypeOK, DialPlace
    <3> QED BY <2>5, <3>1, TcpUpInv DEF Connects
  <2>6. ASSUME NEW i \in DOMAIN sock, ConnectErrors(i) PROVE DialInv'
    <3>1. /\ i \in 1..Len(sock) /\ dial = "racing" /\ sock[i].state = "connecting"
          /\ sock' = [sock EXCEPT ![i].state = "failed"]
          /\ UNCHANGED <<mode, winner, age, stage>>
      BY <2>6 DEF ConnectErrors, DialInv, DialTypeOK, socksVars
    <3>2. CASE AllFailed(sock')
      BY <2>6, <3>1, <3>2, AllFailedInv DEF ConnectErrors
    <3>3. CASE ~AllFailed(sock')
      BY <2>6, <3>1, <3>3, ChangeInv DEF ConnectErrors
    <3> QED BY <3>2, <3>3
  <2>7. CASE ProxyConnects
    <3>1. Len(sock) = 1
      BY <2>7 DEF ProxyConnects, DialInv, DialTypeOK, DialPlace
    <3>2. 1 \in 1..Len(sock)
      BY <3>1
    <3> QED BY <2>7, <3>2, ChangeInv DEF ProxyConnects, socksVars
  <2>8. CASE Speaks \/ Immediate
    BY <2>8, TunnelStays, DialStutter DEF Speaks, Immediate
  <2>9. CASE Reads
    BY <2>9, ReadsInv
  <2>10. CASE ProxyCloses
    BY <2>10, TcpFailsInv DEF ProxyCloses
  <2>11. CASE TlsUp
    BY <2>11, TlsUpInv
  <2>12. CASE TlsFails
    BY <2>12, DropInv DEF TlsFails, Rejected, socksVars
  <2>13. CASE Concludes
    BY <2>13, DropInv DEF Concludes, socksVars
  <2>14. CASE UNCHANGED vars
    BY <2>14, DialStutter DEF vars, socksVars
  <2> QED BY <2>1, <2>2, <2>3, <2>4, <2>5, <2>6, <2>7, <2>8, <2>9, <2>10,
             <2>11, <2>12, <2>13, <2>14 DEF Next
<1> QED BY <1>1, <1>2, PTL DEF Spec

\* A dial leaves no socket behind: none once it has failed, only the winner
\* once one address has answered, and none once a query has ended (but for a
\* handshake of TLS that its timeout abandons), for any number of addresses that answer, fail or are overtaken by
\* a timeout in any order (tcpConnectDualStack and _queryDedicated).
THEOREM NoSocketIsLeft == Spec => []NoSocketLeft
<1>1. DialInv => NoSocketLeft
  BY DEF DialInv
<1> QED BY <1>1, SocketInvariant, PTL


-----------------------------------------------------------------------------
(***************************************************************************)
(* The race of the addresses.                                              *)
(***************************************************************************)
HIDE DialAssumption DEF DialAssumption
HIDE SocksAssumption DEF SocksAssumption

\* All addresses of the family accept a connection, and there is time for it.
Mine(f) == {a \in ToSet(addrs) : a.family = f}
By      == resolved + DELAY_MS + LATENCY_MS
Will(f) == Mine(f) # {} /\ (\A a \in Mine(f) : a.up) /\ By < TIMEOUT_MS

\* Each family that DNS lists has one of the first two places.
InFront(list) ==
  \A n \in 1..Len(list) :
    \E m \in 1..Len(list) : m <= 2 /\ list[m].family = list[n].family

\* While the race is on, the first address is tried at once and the second a
\* delay later, and one that accepts a connection is not late.
RaceOn ==
  /\ addrs # <<>> /\ 1 <= Len(sock) /\ Len(sock) <= Len(addrs)
  /\ sock[1].since = resolved
  /\ Len(sock) >= 2 => sock[2].since = resolved + DELAY_MS
  /\ Len(sock) = 1 /\ Len(addrs) >= 2 => stagger = resolved + DELAY_MS /\ age <= stagger
  /\ stagger # NoTimer => Len(sock) < Len(addrs)
  /\ \A n \in 1..Len(sock) :
       addrs[n].up => sock[n].state = "connecting" /\ age <= sock[n].since + LATENCY_MS

\* A race that nobody has won is on, or was lost by every family.
RaceInv ==
  /\ resolved \in Nat /\ addrs \in Seq(Addresses) /\ InFront(addrs)
  /\ dial = "resolving" \/ mode.proxied => addrs = <<>>
  /\ dial = "resolving" => sock = <<>>
  /\ winner = 0 /\ addrs # <<>> => dial \in {"racing", "failed"}
  /\ dial = "racing" => RaceOn
  /\ dial = "failed" /\ winner = 0 => \A f \in {4, 6} : ~Will(f)

LEMMA Smallest ==
  ASSUME NEW S \in SUBSET Nat, S # {}
  PROVE  \E m \in S : \A n \in S : m <= n
<1>1. PICK m \in S : \A n \in S : <<n, m>> \notin OpToRel(<, Nat)
  BY NatLessThanWellFounded, WFMin
<1>2. \A n \in S : ~(n < m)
  BY <1>1 DEF OpToRel
<1> QED BY <1>2

\* The filter returns addresses of the family, and some if there are any.
LEMMA FamilyIs ==
  ASSUME NEW list \in Seq(Addresses), NEW fam
  PROVE  /\ Family(list, fam) \in Seq({a \in Addresses : a.family = fam})
         /\ Family(list, fam) = <<>> <=> \A n \in 1..Len(list) : list[n].family # fam
<1> DEFINE N == Len(list)
           Of == {a \in Addresses : a.family = fam}
           Step(s, n) == IF list[n].family = fam THEN Append(s, list[n]) ELSE s
           Filters(f, k) == f = [n \in 0..k |-> IF n = 0 THEN <<>>
                                                ELSE IF list[n].family = fam
                                                     THEN Append(f[n - 1], list[n])
                                                     ELSE f[n - 1]]
<1>0. N \in Nat
  OBVIOUS
<1>1. \A k \in 0..N : \E f : Filters(f, k)
  <2> DEFINE bad == {k \in 0..N : ~\E f : Filters(f, k)}
  <2> SUFFICES ASSUME bad # {} PROVE FALSE
    OBVIOUS
  <2>1. bad \in SUBSET Nat
    BY <1>0
  <2>2. PICK k \in bad : \A n \in bad : k <= n
    <3> HIDE DEF bad
    <3> QED BY <2>1, Smallest
  <2>3. k \in 0..N /\ ~\E f : Filters(f, k)
    OBVIOUS
  <2>4. CASE k = 0
    <3>1. Filters([n \in 0..0 |-> <<>>], 0)
      OBVIOUS
    <3> QED BY <2>3, <2>4, <3>1
  <2>5. CASE k # 0
    <3>1. k - 1 \in 0..N /\ k - 1 \notin bad
      <4> HIDE DEF bad, Filters
      <4> QED BY <1>0, <2>1, <2>2, <2>3, <2>5
    <3>2. PICK g : Filters(g, k - 1)
      BY <3>1
    <3> DEFINE f == [n \in 0..k |-> IF n = k THEN Step(g[k - 1], k) ELSE g[n]]
    <3>3. \A n \in 0..k : f[n] = IF n = 0 THEN <<>> ELSE Step(f[n - 1], n)
      <4> SUFFICES ASSUME NEW n \in 0..k
                   PROVE  f[n] = IF n = 0 THEN <<>> ELSE Step(f[n - 1], n)
        OBVIOUS
      <4>1. CASE n = k
        <5>1. f[n] = Step(g[k - 1], k) /\ f[k - 1] = g[k - 1]
          BY <1>0, <2>3, <2>5, <4>1
        <5> QED BY <2>5, <4>1, <5>1
      <4>2. CASE n # k
        <5>1. n \in 0..k - 1 /\ f[n] = g[n] /\ (n # 0 => f[n - 1] = g[n - 1])
          BY <1>0, <2>3, <4>2
        <5>2. g[n] = IF n = 0 THEN <<>> ELSE Step(g[n - 1], n)
          BY <3>2, <5>1
        <5> QED BY <5>1, <5>2
      <4> QED BY <4>1, <4>2
    <3>4. Filters(f, k)
      BY <3>3
    <3> HIDE DEF f, Filters
    <3> QED BY <2>3, <3>4
  <2> QED BY <2>4, <2>5
<1> DEFINE r == CHOOSE f : Filters(f, N)
<1>2. Filters(r, N)
  <2> HIDE DEF Filters
  <2>1. \E f : Filters(f, N)
    BY <1>0, <1>1
  <2> QED BY <2>1
<1>3. Family(list, fam) = r[N]
  BY DEF Family
<1> HIDE DEF r
<1> DEFINE Right(s, m) == /\ s \in Seq(Of)
                          /\ s = <<>> <=> \A n \in 1..m : list[n].family # fam
<1>4. \A m \in 0..N : Right(r[m], m)
  <2> DEFINE bad == {k \in 0..N : ~Right(r[k], k)}
  <2> SUFFICES ASSUME bad # {} PROVE FALSE
    OBVIOUS
  <2>1. bad \in SUBSET Nat
    BY <1>0
  <2>2. PICK k \in bad : \A n \in bad : k <= n
    <3> HIDE DEF bad
    <3> QED BY <2>1, Smallest
  <2>3. k \in 0..N /\ ~Right(r[k], k)
    OBVIOUS
  <2>4. CASE k = 0
    <3>1. r[0] = <<>>
      BY <1>0, <1>2
    <3> QED BY <2>3, <2>4, <3>1
  <2>5. CASE k # 0
    <3>1. k - 1 \in 0..N /\ k - 1 \notin bad /\ k \in 1..N
      BY <1>0, <2>1, <2>2, <2>3, <2>5
    <3>2. Right(r[k - 1], k - 1)
      BY <3>1
    <3>3. r[k] = Step(r[k - 1], k)
      <4>1. k \in 0..N /\ k # 0
        BY <2>3, <2>5
      <4> HIDE DEF N
      <4> QED BY <1>2, <4>1
    <3>4. CASE list[k].family = fam
      <4>1. list[k] \in Of /\ r[k] = Append(r[k - 1], list[k])
        BY <3>1, <3>3, <3>4
      <4> HIDE DEF Of
      <4>2. r[k] \in Seq(Of) /\ Len(r[k]) = Len(r[k - 1]) + 1 /\ Len(r[k - 1]) \in Nat
        BY <3>2, <4>1
      <4>3. r[k] # <<>>
        BY <4>2
      <4>4. k \in 1..k
        BY <3>1
      <4> HIDE DEF N
      <4> QED BY <2>3, <3>4, <4>2, <4>3, <4>4
    <3>5. CASE list[k].family # fam
      <4>1. r[k] = r[k - 1]
        BY <3>3, <3>5
      <4>2. \A n \in 1..k : n = k \/ n \in 1..k - 1
        BY <3>1
      <4> QED BY <2>3, <3>2, <3>5, <4>1, <4>2
    <3> QED BY <3>4, <3>5
  <2> QED BY <2>4, <2>5
<1>5. Right(r[N], N)
  BY <1>0, <1>4
<1> QED BY <1>3, <1>5

LEMMA Joined ==
  ASSUME NEW S, NEW s \in Seq(S), NEW t \in Seq(S)
  PROVE  /\ s \o t \in Seq(S)
         /\ Len(s \o t) = Len(s) + Len(t)
         /\ \A n \in 1..Len(s) + Len(t) :
              (s \o t)[n] = IF n <= Len(s) THEN s[n] ELSE t[n - Len(s)]
  OBVIOUS

LEMMA Rest ==
  ASSUME NEW S, NEW s \in Seq(S), NEW m \in 0..Len(s)
  PROVE  /\ SubSeq(s, m + 1, Len(s)) \in Seq(S)
         /\ Len(SubSeq(s, m + 1, Len(s))) = Len(s) - m
  OBVIOUS

\* Interleaving leaves a list of the same addresses empty or not, and puts
\* each family that is there into one of the first two places.
LEMMA InterleavedIs ==
  ASSUME NEW list \in Seq(Addresses)
  PROVE  /\ Interleaved(list) \in Seq(Addresses)
         /\ InFront(Interleaved(list))
         /\ Interleaved(list) = <<>> <=> list = <<>>
<1> DEFINE six  == Family(list, 6)
           four == Family(list, 4)
           both == IF Len(six) < Len(four) THEN Len(six) ELSE Len(four)
           turns == [n \in 1..2 * both |-> IF n % 2 = 1 THEN six[(n + 1) \div 2]
                                                        ELSE four[n \div 2]]
           sixes == SubSeq(six, both + 1, Len(six))
           fours == SubSeq(four, both + 1, Len(four))
           all   == turns \o sixes \o fours
<1>1. /\ six \in Seq(Addresses) /\ \A n \in 1..Len(six) : six[n].family = 6
      /\ four \in Seq(Addresses) /\ \A n \in 1..Len(four) : four[n].family = 4
      /\ six = <<>> => \A n \in 1..Len(list) : list[n].family # 6
      /\ four = <<>> => \A n \in 1..Len(list) : list[n].family # 4
  <2>1. ASSUME NEW f, NEW s \in Seq({a \in Addresses : a.family = f})
        PROVE  s \in Seq(Addresses) /\ \A n \in 1..Len(s) : s[n].family = f
    OBVIOUS
  <2>2. six \in Seq({a \in Addresses : a.family = 6})
    BY FamilyIs, Zenon
  <2>3. four \in Seq({a \in Addresses : a.family = 4})
    BY FamilyIs, Zenon
  <2>4. /\ six = <<>> => \A n \in 1..Len(list) : list[n].family # 6
        /\ four = <<>> => \A n \in 1..Len(list) : list[n].family # 4
    BY FamilyIs, Zenon
  <2> HIDE DEF six, four
  <2>5. six \in Seq(Addresses) /\ \A n \in 1..Len(six) : six[n].family = 6
    BY <2>1, <2>2, Zenon
  <2>6. four \in Seq(Addresses) /\ \A n \in 1..Len(four) : four[n].family = 4
    BY <2>1, <2>3, Zenon
  <2> QED BY <2>4, <2>5, <2>6
<1>2. list # <<>> => six # <<>> \/ four # <<>>
  <2> SUFFICES ASSUME list # <<>>, six = <<>>, four = <<>> PROVE FALSE
    OBVIOUS
  <2>1. 1 \in 1..Len(list) /\ list[1] \in Addresses
    OBVIOUS
  <2>2. list[1].family \in {4, 6}
    BY <2>1, AddressAssumption DEF AddressAssumption
  <2> QED BY <1>1, <2>1, <2>2
<1>3. list = <<>> => six = <<>> /\ four = <<>>
  <2> SUFFICES ASSUME list = <<>> PROVE six = <<>> /\ four = <<>>
    OBVIOUS
  <2>1. \A n \in 1..Len(list) : FALSE
    OBVIOUS
  <2> QED BY <2>1, FamilyIs, Zenon
<1>4. Interleaved(list) = all
  BY DEF Interleaved
<1> HIDE DEF six, four
<1>5. /\ Len(six) \in Nat /\ Len(four) \in Nat /\ both \in Nat
      /\ both <= Len(six) /\ both <= Len(four)
      /\ both = Len(six) \/ both = Len(four)
  BY <1>1
<1>6. /\ turns \in Seq(Addresses) /\ Len(turns) = 2 * both
      /\ \A n \in 1..2 * both : turns[n] = IF n % 2 = 1 THEN six[(n + 1) \div 2]
                                                        ELSE four[n \div 2]
  <2>1. ASSUME NEW n \in 1..2 * both
        PROVE  (IF n % 2 = 1 THEN six[(n + 1) \div 2] ELSE four[n \div 2]) \in Addresses
    <3>1. CASE n % 2 = 1
      <4>1. (n + 1) \div 2 \in 1..Len(six)
        <5> HIDE DEF both
        <5> QED BY <1>5, <3>1
      <4> QED BY <1>1, <3>1, <4>1
    <3>2. CASE n % 2 # 1
      <4>1. n \div 2 \in 1..Len(four)
        <5> HIDE DEF both
        <5> QED BY <1>5, <3>2
      <4> QED BY <1>1, <3>2, <4>1
    <3> QED BY <3>1, <3>2
  <2> HIDE DEF both
  <2> QED BY <1>5, <2>1
<1>7. /\ sixes \in Seq(Addresses) /\ Len(sixes) = Len(six) - both
      /\ fours \in Seq(Addresses) /\ Len(fours) = Len(four) - both
  <2>1. both \in 0..Len(six) /\ both \in 0..Len(four)
    BY <1>5
  <2> HIDE DEF both
  <2> QED BY <1>1, <2>1, Rest
<1>8. /\ turns \o sixes \in Seq(Addresses)
      /\ Len(turns \o sixes) = both + Len(six)
      /\ \A n \in 1..2 * both : (turns \o sixes)[n] = turns[n]
  <2> HIDE DEF turns, sixes, both
  <2>1. \A n \in 1..2 * both : n \in 1..Len(turns) + Len(sixes) /\ n <= Len(turns)
    BY <1>5, <1>6, <1>7
  <2>2. 2 * both + (Len(six) - both) = both + Len(six)
    BY <1>5
  <2>3. /\ turns \o sixes \in Seq(Addresses)
        /\ Len(turns \o sixes) = 2 * both + (Len(six) - both)
        /\ \A n \in 1..Len(turns) + Len(sixes) :
             (turns \o sixes)[n] = IF n <= Len(turns) THEN turns[n] ELSE sixes[n - Len(turns)]
    <3>1. turns \in Seq(Addresses) /\ sixes \in Seq(Addresses)
      BY <1>6, <1>7
    <3>2. Len(turns) = 2 * both /\ Len(sixes) = Len(six) - both
      BY <1>6, <1>7
    <3>3. /\ turns \o sixes \in Seq(Addresses)
          /\ Len(turns \o sixes) = Len(turns) + Len(sixes)
          /\ \A n \in 1..Len(turns) + Len(sixes) :
               (turns \o sixes)[n] = IF n <= Len(turns) THEN turns[n] ELSE sixes[n - Len(turns)]
      BY <3>1, Joined, Zenon
    <3> QED BY <3>2, <3>3, Zenon
  <2> QED BY <2>1, <2>2, <2>3
<1>9. /\ all \in Seq(Addresses)
      /\ Len(all) = Len(six) + Len(four)
      /\ \A n \in 1..2 * both : all[n] = turns[n]
  <2> DEFINE front == turns \o sixes
  <2> HIDE DEF front, turns, fours, both
  <2>1. front \in Seq(Addresses) /\ Len(front) = both + Len(six)
    BY <1>8 DEF front
  <2>2. \A n \in 1..2 * both : n \in 1..Len(front) + Len(fours) /\ n <= Len(front)
    BY <1>5, <1>7, <2>1
  <2>3. both + Len(six) + (Len(four) - both) = Len(six) + Len(four)
    BY <1>5
  <2>4. /\ front \o fours \in Seq(Addresses)
        /\ Len(front \o fours) = Len(six) + Len(four)
        /\ \A n \in 1..2 * both : (front \o fours)[n] = front[n]
    BY <1>7, <2>1, <2>2, <2>3, Joined
  <2> QED BY <1>8, <2>4 DEF front
<1>10. all = <<>> <=> list = <<>>
  <2> HIDE DEF all
  <2> QED BY <1>1, <1>2, <1>3, <1>5, <1>9
<1>11. CASE both # 0
  <2>1. all[1] = six[1] /\ all[2] = four[1]
    <3>1. 1 \in 1..2 * both /\ 2 \in 1..2 * both
      BY <1>5, <1>11
    <3>2. turns[1] = six[1] /\ turns[2] = four[1]
      BY <1>6, <3>1
    <3> HIDE DEF all, turns
    <3> QED BY <1>9, <3>1, <3>2
  <2>2. 1 \in 1..Len(six) /\ 1 \in 1..Len(four)
    BY <1>5, <1>11
  <2>3. all[1].family = 6 /\ all[2].family = 4 /\ 1 \in 1..Len(all) /\ 2 \in 1..Len(all)
    <3> HIDE DEF all, both
    <3> QED BY <1>1, <1>5, <1>9, <2>1, <2>2
  <2>4. \A n \in 1..Len(all) : all[n].family \in {4, 6}
    <3> HIDE DEF all
    <3>1. \A n \in 1..Len(all) : all[n] \in Addresses
      BY <1>9
    <3> QED BY <3>1, AddressAssumption DEF AddressAssumption
  <2>5. InFront(all)
    <3> HIDE DEF all
    <3> QED BY <2>3, <2>4 DEF InFront
  <2> QED BY <1>4, <1>9, <1>10, <2>5
<1>12. CASE both = 0
  <2>1. PICK f \in {4, 6} : \A n \in 1..Len(all) : all[n].family = f
    <3>1. all = six \/ all = four
      <4>1. turns = <<>>
        BY <1>6, <1>12
      <4>2. sixes = six /\ fours = four
        <5>1. \A s \in Seq(Addresses) : SubSeq(s, 0 + 1, Len(s)) = s
          OBVIOUS
        <5>2. sixes = SubSeq(six, 0 + 1, Len(six)) /\ fours = SubSeq(four, 0 + 1, Len(four))
          BY <1>12
        <5> HIDE DEF sixes, fours
        <5> QED BY <1>1, <5>1, <5>2
      <4>3. six = <<>> \/ four = <<>>
        BY <1>1, <1>5, <1>12
      <4>4. \A s \in Seq(Addresses) : <<>> \o s = s /\ s \o <<>> = s
        OBVIOUS
      <4>5. all = (<<>> \o six) \o four
        <5> HIDE DEF turns, sixes, fours
        <5> QED BY <4>1, <4>2
      <4> HIDE DEF all
      <4> QED BY <1>1, <4>3, <4>4, <4>5
    <3> HIDE DEF all
    <3> QED BY <1>1, <3>1
  <2>2. InFront(all)
    <3> HIDE DEF all
    <3>1. \A n \in 1..Len(all) : 1 \in 1..Len(all)
      BY <1>9
    <3> QED BY <2>1, <3>1 DEF InFront
  <2> QED BY <1>4, <1>9, <1>10, <2>2
<1> QED BY <1>11, <1>12

LEMMA NobodyWill ==
  ASSUME addrs = <<>>, NEW f
  PROVE  ~Will(f)
  BY DEF Will, Mine, ToSet

\* An address that would do has been tried, and has connected, in time.
LEMMA InTime ==
  ASSUME DialTypeOK, RaceInv, dial = "racing", NEW f \in {4, 6}, Will(f)
  PROVE  /\ age <= By
         /\ \E n \in 1..Len(addrs) :
              /\ addrs[n].up
              /\ n <= Len(sock) => sock[n].state = "connecting"
<1>1. PICK n \in 1..Len(addrs) : n <= 2 /\ addrs[n].family = f /\ addrs[n].up
  <2>1. PICK n \in 1..Len(addrs) : addrs[n].family = f
    BY DEF Will, Mine, ToSet, RaceInv
  <2>2. PICK m \in 1..Len(addrs) : m <= 2 /\ addrs[m].family = f
    BY <2>1 DEF RaceInv, InFront
  <2>3. addrs[m] \in Mine(f)
    BY <2>2 DEF Mine, ToSet, RaceInv
  <2> QED BY <2>2, <2>3 DEF Will
<1>2. /\ resolved \in Nat /\ age \in Nat /\ Len(sock) \in Nat /\ Len(addrs) \in Nat
      /\ DELAY_MS \in Nat /\ LATENCY_MS \in Nat /\ RaceOn
  BY DialAssumption DEF DialAssumption, RaceInv, DialTypeOK
<1>3. CASE n <= Len(sock)
  <2>1. sock[n].state = "connecting" /\ age <= sock[n].since + LATENCY_MS
    BY <1>1, <1>2, <1>3 DEF RaceOn
  <2>2. sock[n].since \in {resolved, resolved + DELAY_MS}
    BY <1>1, <1>2, <1>3 DEF RaceOn
  <2> QED BY <1>1, <1>2, <2>1, <2>2 DEF By
<1>4. CASE ~(n <= Len(sock))
  <2>1. Len(sock) = 1 /\ Len(addrs) >= 2
    <3>1. 1 <= Len(sock)
      BY <1>2 DEF RaceOn
    <3>2. n \in Nat /\ n <= 2 /\ n <= Len(addrs) /\ Len(sock) < n
      BY <1>1, <1>2, <1>4
    <3> QED BY <1>2, <3>1, <3>2
  <2>2. age <= resolved + DELAY_MS
    BY <1>2, <2>1 DEF RaceOn
  <2> QED BY <1>1, <1>2, <1>4, <2>2 DEF By
<1> QED BY <1>3, <1>4

\* Somebody has won.
LEMMA WonInv ==
  ASSUME RaceInv, dial' \in {"tls", "connected", "failed"}, winner' # 0,
         UNCHANGED <<mode, addrs, resolved>>
  PROVE  RaceInv'
  BY DEF RaceInv, InFront

\* Nobody has, and nobody would have.
LEMMA LostInv ==
  ASSUME RaceInv, dial' = "failed", winner' = winner, \A f \in {4, 6} : ~Will(f),
         UNCHANGED <<mode, addrs, resolved>>
  PROVE  RaceInv'
<1>1. \A f \in {4, 6} : ~Will(f)'
  BY DEF Will, Mine, By
<1> QED BY <1>1 DEF RaceInv, InFront

\* There is no race, before the step or after it.
LEMMA NoRaceInv ==
  ASSUME RaceInv, dial \notin {"resolving", "racing"},
         UNCHANGED <<mode, addrs, resolved, dial, winner>>
  PROVE  RaceInv'
<1>1. \A f \in {4, 6} : Will(f)' <=> Will(f)
  BY DEF Will, Mine, By
<1> QED BY <1>1 DEF RaceInv, InFront

LEMMA RaceStutter ==
  ASSUME RaceInv, UNCHANGED <<mode, addrs, sock, dial, winner, stagger, resolved, age>>
  PROVE  RaceInv'
<1>1. \A f \in {4, 6} : Will(f)' <=> Will(f)
  BY DEF Will, Mine, By
<1> QED BY <1>1 DEF RaceInv, RaceOn, InFront

\* The race goes on.
LEMMA RacingInv ==
  ASSUME RaceInv, dial = "racing", dial' = "racing", RaceOn',
         UNCHANGED <<mode, addrs, winner, resolved>>
  PROVE  RaceInv'
  BY DEF RaceInv, InFront

LEMMA DnsAnswersInv ==
  ASSUME DialInv, RaceInv, DnsAnswers
  PROVE  RaceInv'
<1>1. PICK list \in SeqOf(Addresses, MAX_ADDRESSES) :
        /\ addrs' = Interleaved(list)
        /\ IF list = <<>> THEN TcpFails
           ELSE /\ dial' = "racing" /\ Try(addrs')
                /\ UNCHANGED <<winner, tlsDue, query>>
  BY DEF DnsAnswers
<1>2. list \in Seq(Addresses)
  BY DEF SeqOf
<1>3. /\ addrs' \in Seq(Addresses) /\ InFront(addrs') /\ (addrs' = <<>> <=> list = <<>>)
  BY <1>1, <1>2, InterleavedIs, Zenon
<1>4. /\ dial = "resolving" /\ resolved' = age /\ UNCHANGED <<mode, age>>
      /\ age \in Nat /\ sock = <<>> /\ winner = 0 /\ ~mode.proxied
  BY DEF DnsAnswers, DialInv, DialTypeOK, DialPlace, RaceInv
<1>5. (InFront(addrs))'
  BY <1>3 DEF InFront
<1>6. CASE list = <<>>
  <2>1. dial' = "failed" /\ addrs' = <<>>
    BY <1>1, <1>3, <1>6 DEF TcpFails, Rejected
  <2>2. \A f \in {4, 6} : ~Will(f)'
    BY <2>1 DEF Will, Mine, ToSet
  <2> QED BY <1>3, <1>4, <1>5, <2>1, <2>2 DEF RaceInv
<1>7. CASE list # <<>>
  <2>1. /\ dial' = "racing" /\ addrs' # <<>> /\ winner' = 0
        /\ sock' = Append(<<>>, Opening(age))
        /\ stagger' = IF Len(<<>>) + 1 < Len(addrs') THEN age + DELAY_MS ELSE NoTimer
    BY <1>1, <1>3, <1>4, <1>7 DEF Try
  <2>2. /\ Len(sock') = 1 /\ sock'[1].since = age /\ sock'[1].state = "connecting"
        /\ stagger' = IF 1 < Len(addrs') THEN age + DELAY_MS ELSE NoTimer
        /\ Len(addrs') \in Nat \ {0}
    BY <1>3, <2>1 DEF Opening
  <2>3. DELAY_MS \in Nat /\ LATENCY_MS \in Nat
    BY DialAssumption DEF DialAssumption
  <2>4. RaceOn'
    BY <1>4, <2>1, <2>2, <2>3 DEF RaceOn
  <2> QED BY <1>3, <1>4, <1>5, <2>1, <2>4 DEF RaceInv
<1> QED BY <1>6, <1>7

LEMMA StaggerInv ==
  ASSUME DialInv, RaceInv, Stagger
  PROVE  RaceInv'
<1>1. /\ stagger = age /\ age \in Nat /\ Try(addrs)
      /\ UNCHANGED <<mode, addrs, dial, winner, resolved, age>>
      /\ sock \in Seq(Socket) /\ Len(sock) \in Nat /\ addrs \in Seq(Addresses)
      /\ DELAY_MS \in Nat /\ LATENCY_MS \in Nat
  BY DialAssumption DEF DialAssumption, Stagger, DialInv, DialTypeOK, RaceInv
<1>2. stagger # NoTimer
  BY <1>1 DEF NoTimer
<1>3. dial = "racing" /\ RaceOn
  BY <1>2 DEF DialInv, DialPlace, RaceInv
<1>4. /\ Len(sock') = Len(sock) + 1
      /\ \A n \in 1..Len(sock) : sock'[n] = sock[n]
      /\ sock'[Len(sock) + 1] = Opening(age)
  <2>1. Opening(age) \in Socket
    BY <1>1 DEF Opening, Socket
  <2> QED BY <1>1, <2>1 DEF Try
<1>5. /\ Opening(age).state = "connecting" /\ Opening(age).since = age
  BY DEF Opening
<1>6. /\ 1 <= Len(sock) /\ Len(sock) < Len(addrs) /\ Len(addrs) \in Nat
      /\ Len(sock) = 1 => age = resolved + DELAY_MS
  BY <1>1, <1>2, <1>3 DEF RaceOn
<1>7. /\ addrs' # <<>> /\ 1 <= Len(sock') /\ Len(sock') <= Len(addrs')
      /\ sock'[1].since = resolved' /\ Len(sock') # 1
  BY <1>1, <1>3, <1>4, <1>6 DEF RaceOn
<1>8. sock'[2].since = resolved' + DELAY_MS
  <2>1. CASE Len(sock) = 1
    BY <1>1, <1>4, <1>5, <1>6, <2>1
  <2>2. CASE Len(sock) # 1
    <3>1. 2 \in 1..Len(sock) /\ Len(sock) >= 2
      <4>1. \A l \in Nat : 1 <= l /\ l # 1 => 2 \in 1..l /\ l >= 2
        OBVIOUS
      <4> QED BY <1>1, <1>6, <2>2, <4>1
    <3> QED BY <1>1, <1>3, <1>4, <3>1 DEF RaceOn
  <2> QED BY <2>1, <2>2
<1>9. stagger' # NoTimer => Len(sock') < Len(addrs')
  BY <1>1, <1>4 DEF Try
<1>10. ASSUME NEW n \in 1..Len(sock'), addrs'[n].up
       PROVE  sock'[n].state = "connecting" /\ age' <= sock'[n].since + LATENCY_MS
  <2>1. CASE n \in 1..Len(sock)
    BY <1>1, <1>3, <1>4, <1>10, <2>1 DEF RaceOn
  <2>2. CASE n = Len(sock) + 1
    BY <1>1, <1>4, <1>5, <2>2
  <2> QED BY <1>1, <1>4, <2>1, <2>2
<1>11. RaceOn'
  BY <1>7, <1>8, <1>9, <1>10 DEF RaceOn
<1> QED BY <1>1, <1>3, <1>11, RacingInv

LEMMA ConnectErrorsInv ==
  ASSUME DialInv, RaceInv, NEW i \in 1..Len(sock), ConnectErrors(i)
  PROVE  RaceInv'
<1>1. /\ dial = "racing" /\ ~addrs[i].up
      /\ sock' = [sock EXCEPT ![i].state = "failed"]
      /\ UNCHANGED <<mode, addrs, winner, resolved, age>>
  BY DEF ConnectErrors
<1>2. /\ sock \in Seq(Socket) /\ RaceOn /\ Len(sock') = Len(sock) /\ Len(sock) \in Nat
      /\ \A n \in 1..Len(sock) : n # i => sock'[n] = sock[n]
      /\ \A n \in 1..Len(sock) : sock'[n].since = sock[n].since
  BY <1>1 DEF DialInv, DialTypeOK, RaceInv, Socket
<1>3. CASE AllFailed(sock')
  <2>1. \A f \in {4, 6} : ~Will(f)
    <3> SUFFICES ASSUME NEW f \in {4, 6}, Will(f) PROVE FALSE
      OBVIOUS
    <3>1. PICK n \in 1..Len(addrs) :
            addrs[n].up /\ (n <= Len(sock) => sock[n].state = "connecting")
      BY <1>1, InTime DEF DialInv
    <3>2. n \in 1..Len(sock) /\ n # i
      BY <1>1, <1>2, <1>3, <3>1 DEF AllFailed, RaceInv
    <3>3. sock'[n] \in ToSet(sock')
      BY <1>1, <1>2, <3>2 DEF ToSet
    <3>4. sock'[n].state = "failed"
      BY <1>3, <3>3 DEF AllFailed
    <3> QED BY <1>2, <3>1, <3>2, <3>4
  <2>2. dial' = "failed"
    BY <1>1, <1>3 DEF ConnectErrors, Rejected
  <2> QED BY <1>1, <2>1, <2>2, LostInv
<1>4. CASE ~AllFailed(sock')
  <2>1. UNCHANGED <<dial, stagger>>
    BY <1>1, <1>4 DEF ConnectErrors
  <2>2. RaceOn'
    BY <1>1, <1>2, <2>1 DEF RaceOn
  <2> QED BY <1>1, <2>1, <2>2, RacingInv
<1> QED BY <1>3, <1>4

LEMMA RaceTimesOutInv ==
  ASSUME DialInv, RaceInv, TimesOut
  PROVE  RaceInv'
<1>1. age = TIMEOUT_MS /\ UNCHANGED <<mode, addrs, resolved>>
  BY DEF TimesOut
<1>2. CASE dial \in {"resolving", "racing", "proxy"}
  <2>1. dial' = "failed" /\ winner' = winner
    BY <1>2 DEF TimesOut, TcpFails, Rejected
  <2>2. ASSUME NEW f \in {4, 6} PROVE ~Will(f)
    <3>1. CASE dial = "racing"
      <4> SUFFICES ASSUME Will(f) PROVE FALSE
        OBVIOUS
      <4>1. age <= By /\ By < TIMEOUT_MS
        BY <3>1, InTime DEF DialInv, Will
      <4>2. age \in Nat /\ By \in Nat
        BY DialAssumption DEF DialAssumption, DialInv, DialTypeOK, RaceInv, By
      <4> QED BY <1>1, <4>1, <4>2
    <3>2. CASE dial # "racing"
      <4>1. addrs = <<>>
        BY <1>2, <3>2 DEF RaceInv, DialInv, DialPlace
      <4> QED BY <4>1, NobodyWill
    <3> QED BY <3>1, <3>2
  <2> QED BY <1>1, <2>1, <2>2, LostInv
<1>3. CASE dial \notin {"resolving", "racing", "proxy"}
  <2>1. UNCHANGED <<dial, winner>>
    BY <1>3 DEF TimesOut
  <2> QED BY <1>1, <1>3, <2>1, NoRaceInv
<1> QED BY <1>2, <1>3

LEMMA TickInv ==
  ASSUME DialInv, RaceInv, Tick
  PROVE  RaceInv'
<1>1. /\ age # stagger /\ age' = age + 1 /\ age \in Nat
      /\ UNCHANGED <<mode, addrs, sock, dial, winner, stagger, resolved>>
  BY DEF Tick, DialInv, DialTypeOK
<1>2. CASE dial = "racing"
  <2>1. \A n \in DOMAIN sock :
          (sock[n].state = "connecting" /\ addrs[n].up) => age < sock[n].since + LATENCY_MS
    BY <1>2 DEF Tick
  <2>2. /\ RaceOn /\ sock \in Seq(Socket) /\ resolved \in Nat
        /\ DELAY_MS \in Nat /\ LATENCY_MS \in Nat
    BY <1>2, DialAssumption DEF DialAssumption, RaceInv, DialInv, DialTypeOK
  <2>3. ASSUME NEW n \in 1..Len(sock), addrs[n].up
        PROVE  sock[n].state = "connecting" /\ age + 1 <= sock[n].since + LATENCY_MS
    <3>1. sock[n].since \in Nat
      <4>1. sock[n] \in Socket
        BY <2>2
      <4> QED BY <4>1 DEF Socket
    <3> QED BY <1>1, <2>1, <2>2, <2>3, <3>1 DEF RaceOn
  <2>4. Len(sock) = 1 /\ Len(addrs) >= 2 => stagger = resolved + DELAY_MS /\ age + 1 <= stagger
    BY <1>1, <2>2 DEF RaceOn
  <2>5. RaceOn'
    BY <1>1, <2>2, <2>3, <2>4 DEF RaceOn
  <2> QED BY <1>1, <1>2, <2>5, RacingInv
<1>3. CASE dial # "racing"
  <2>1. \A f \in {4, 6} : Will(f)' <=> Will(f)
    BY <1>1 DEF Will, Mine, By
  <2> QED BY <1>1, <1>3, <2>1 DEF RaceInv, InFront
<1> QED BY <1>2, <1>3

LEMMA RaceReadsInv ==
  ASSUME DialInv, RaceInv, Reads
  PROVE  RaceInv'
<1>1. mode.proxied /\ addrs = <<>> /\ UNCHANGED <<mode, addrs, resolved>>
  BY DEF Reads, RaceInv
<1>2. dial' \notin {"resolving", "racing"}
  <2>1. DialInv'
    BY ReadsInv
  <2> QED BY <1>1, <2>1 DEF DialInv, DialPlace
<1>3. \A f \in {4, 6} : ~Will(f)'
  BY <1>1 DEF Will, Mine, ToSet
<1> QED BY <1>1, <1>2, <1>3 DEF RaceInv, InFront

\* The inductive invariant of the race: the first address is tried when DNS
\* has answered, the second a delay later, and both are of the two families
\* if there are both; so a family that would do is waited for.
THEOREM RaceInvariant == Spec => [](DialInv /\ RaceInv)
<1>1. Init => RaceInv
  <2> SUFFICES ASSUME Init PROVE RaceInv
    OBVIOUS
  <2>1. addrs = <<>> /\ resolved = 0 /\ dial \in {"proxy", "resolving"}
    BY DEF Init
  <2>2. dial = "resolving" => sock = <<>>
    BY DEF Init
  <2> QED BY <2>1, <2>2 DEF RaceInv, InFront
<1>2. DialInv /\ RaceInv /\ [Next]_vars => RaceInv'
  <2> SUFFICES ASSUME DialInv, RaceInv, [Next]_vars PROVE RaceInv'
    OBVIOUS
  <2>1. ASSUME NEW i \in DOMAIN sock, Connects(i) PROVE RaceInv'
    <3>1. dial' \in {"tls", "connected", "failed"} /\ winner' = i
      BY <2>1 DEF Connects, TcpUp, Delivered, Rejected
    <3>2. i # 0
      BY <2>1 DEF DialInv, DialTypeOK
    <3> QED BY <2>1, <3>1, <3>2, WonInv DEF Connects
  <2>2. ASSUME NEW i \in DOMAIN sock, ConnectErrors(i) PROVE RaceInv'
    <3>1. i \in 1..Len(sock)
      BY <2>2 DEF DialInv, DialTypeOK
    <3> QED BY <2>2, <3>1, ConnectErrorsInv
  <2>3. CASE ProxyConnects
    BY <2>3, NoRaceInv DEF ProxyConnects
  <2>4. CASE Speaks \/ Immediate \/ UNCHANGED vars
    BY <2>4, RaceStutter DEF Speaks, Immediate, vars
  <2>5. CASE ProxyCloses
    <3>1. dial' = "failed" /\ winner' = winner /\ addrs = <<>>
      BY <2>5 DEF ProxyCloses, TcpFails, Rejected, RaceInv, DialInv, DialPlace
    <3> QED BY <2>5, <3>1, NobodyWill, LostInv DEF ProxyCloses
  <2>6. CASE TlsUp \/ TlsFails \/ Concludes
    <3>1. /\ dial' \in {"tls", "connected", "failed"} /\ winner' = winner /\ winner # 0
          /\ UNCHANGED <<mode, addrs, resolved>>
      BY <2>6 DEF TlsUp, TlsFails, Concludes, Delivered, Rejected, DialInv, DialPlace
    <3> QED BY <3>1, WonInv
  <2> QED BY <2>1, <2>2, <2>3, <2>4, <2>5, <2>6, DnsAnswersInv, StaggerInv,
             RaceTimesOutInv, TickInv, RaceReadsInv DEF Next
<1> QED BY <1>1, <1>2, SocketInvariant, PTL DEF Spec

\* A dead family costs one delay: a dial fails, or is still without a winner
\* a delay and the latency after DNS has answered, only if neither family
\* has nothing but addresses that accept, for every list of addresses and in
\* whatever order they fail (tryAddr and tryNext of connectHappyEyeballs).
THEOREM DeadFamilyCostsADelay == Spec => []EitherFamilyWillDo
<1>1. DialInv /\ RaceInv => EitherFamilyWillDo
  <2> SUFFICES ASSUME DialInv, RaceInv, NEW f \in {4, 6}, Will(f),
                      dial = "failed" \/ age > By
               PROVE  winner # 0
    BY DEF EitherFamilyWillDo, Will, Mine, By
  <2> SUFFICES ASSUME winner = 0 PROVE FALSE
    OBVIOUS
  <2>1. addrs # <<>>
    BY NobodyWill
  <2>2. dial = "racing"
    BY <2>1 DEF RaceInv
  <2>3. age <= By
    BY <2>2, InTime DEF DialInv
  <2>4. age \in Nat /\ By \in Nat
    BY DialAssumption DEF DialAssumption, DialInv, DialTypeOK, RaceInv, By
  <2> QED BY <2>2, <2>3, <2>4
<1> QED BY <1>1, RaceInvariant, PTL
=============================================================================
