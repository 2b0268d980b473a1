-------------------------------- MODULE Dial --------------------------------
(***************************************************************************)
(* One connection is opened (src/src/connect.js) and used, or not, by who  *)
(* asked for it: a pooled connection, which keeps it, or a query of the    *)
(* one-connection-per-resolve mode (_queryDedicated of                     *)
(* src/src/electrumx.js), which has a timeout of its own, set first.       *)
(*                                                                         *)
(* Directly, the addresses of the host are tried DELAY_MS after each       *)
(* other, and the first that answers wins; through a proxy, there is one   *)
(* socket and the dialogue of Socks5.  TLS is put on top, with a timeout   *)
(* that starts anew.  Its result is Connected or ConnectFails of           *)
(* ConnectionPool, and an attempt of NameShow that has begun or failed.    *)
(***************************************************************************)
EXTENDS Socks5, SequencesExt

CONSTANTS
  Modes,          \* of [dedicated, tls, proxied, pinned: booleans]
  Addresses,      \* of [family: 4 or 6, up: it accepts within LATENCY_MS]
  MAX_ADDRESSES,  \* bound on what a DNS lookup returns
  DELAY_MS,       \* HAPPY_EYEBALLS_DELAY_MS
  LATENCY_MS,
  TIMEOUT_MS

ASSUME DialAssumption ==
  /\ Modes \subseteq [dedicated : BOOLEAN, tls : BOOLEAN, proxied : BOOLEAN, pinned : BOOLEAN]
  /\ DELAY_MS \in Nat \ {0} /\ LATENCY_MS \in Nat /\ TIMEOUT_MS \in Nat \ {0}

ASSUME AddressAssumption == Addresses \subseteq [family : {4, 6}, up : BOOLEAN]

VARIABLES
  mode,
  addrs,     \* totalAddrs and the order in which they are tried
  sock,      \* the sockets made so far: [state, since]
  dial,      \* "resolving", "racing", "proxy", "tls", "connected" or "failed"
  winner,    \* the socket that TLS is put on, or that is handed over; 0 before
  stagger,   \* when the next address is tried; NoTimer when none is
  tlsDue,    \* when the handshake times out
  resolved,  \* ghost: when DNS answered
  query,     \* dedicated: "waiting", "ended", or "abandoned" when its timeout
             \* comes during the handshake of TLS; "none" (pooled)
  age        \* time since the start

vars == <<socksVars, mode, addrs, sock, dial, winner, stagger, tlsDue, resolved, query, age>>

NoTimer == -1

Opening(at) == [state |-> "connecting", since |-> at]
Open(s)     == s.state \in {"connecting", "up"}

Init ==
  /\ mode \in Modes
  /\ SocksInit
  /\ mode.proxied \/ proxy = CHOOSE p \in Proxies : TRUE
  /\ addrs = <<>>
  /\ sock = IF mode.proxied THEN <<Opening(0)>> ELSE <<>>
  /\ dial = IF mode.proxied THEN "proxy" ELSE "resolving"
  /\ winner = 0
  /\ stagger = NoTimer /\ tlsDue = NoTimer
  /\ resolved = 0
  /\ query = IF mode.dedicated THEN "waiting" ELSE "none"
  /\ age = 0

\* Every socket but this one is destroyed.
Spare(i) == [j \in DOMAIN sock |->
               IF j # i /\ Open(sock[j]) THEN [sock[j] EXCEPT !.state = "destroyed"] ELSE sock[j]]
Drop(i)  == [sock EXCEPT ![i].state = "destroyed"]

(***************************************************************************)
(* What becomes of the dial, and of who waits for it.                      *)
(***************************************************************************)
\* The promise is rejected: so is a query that still waits.
Rejected ==
  /\ dial' = "failed"
  /\ query' = IF query = "waiting" THEN "ended" ELSE query

\* The dial is over with the sockets that are left.  Pins are looked at by
\* whoever asked: a pooled connection destroys a socket that fails them, and
\* so does a query, unless it has abandoned the handshake.
Delivered(i, sockets) ==
  \/ /\ dial' = "connected"
     /\ sock' = sockets
     /\ UNCHANGED query
  \/ /\ mode.pinned
     /\ query # "abandoned"
     /\ sock' = [sockets EXCEPT ![i].state = "destroyed"]
     /\ Rejected
  \/ /\ mode.pinned
     /\ query = "abandoned"
     /\ dial' = "connected"
     /\ sock' = sockets
     /\ UNCHANGED query

\* Mutant of TlsDue: the handshake has no timeout.
TlsDueNever == NoTimer

TlsDue == age + TIMEOUT_MS

\* The socket is connected, to the host or to the far end of the tunnel.
TcpUp(i) ==
  LET sockets == [Spare(i) EXCEPT ![i].state = "up"]
  IN  /\ winner' = i
      /\ stagger' = NoTimer
      /\ IF mode.tls
         THEN /\ dial' = "tls"
              /\ tlsDue' = TlsDue
              /\ sock' = sockets
              /\ UNCHANGED query
         ELSE /\ Delivered(i, sockets)
              /\ UNCHANGED tlsDue

\* There is no TCP connection: every socket is destroyed.
TcpFails ==
  /\ Rejected
  /\ sock' = Spare(0)
  /\ stagger' = NoTimer
  /\ UNCHANGED <<winner, tlsDue>>

(***************************************************************************)
(* Happy eyeballs.                                                         *)
(***************************************************************************)
\* The addresses of the family, in the order in which DNS lists them.
Family(list, f) ==
  LET From[n \in 0..Len(list)] ==
        IF n = 0 THEN <<>>
        ELSE IF list[n].family = f THEN Append(From[n - 1], list[n])
        ELSE From[n - 1]
  IN  From[Len(list)]

\* Mutant of Interleaved: IPv6 first, IPv4 after it.
Concatenated(list) == Family(list, 6) \o Family(list, 4)

\* IPv6 and IPv4 by turns, as long as there are both.
Interleaved(list) ==
  LET six  == Family(list, 6)
      four == Family(list, 4)
      both == IF Len(six) < Len(four) THEN Len(six) ELSE Len(four)
  IN  [n \in 1..2 * both |-> IF n % 2 = 1 THEN six[(n + 1) \div 2] ELSE four[n \div 2]]
      \o SubSeq(six, both + 1, Len(six)) \o SubSeq(four, both + 1, Len(four))

\* Another address is tried, and the next one is scheduled.
Try(list) ==
  /\ sock' = Append(sock, Opening(age))
  /\ stagger' = IF Len(sock) + 1 < Len(list) THEN age + DELAY_MS ELSE NoTimer

DnsAnswers ==
  /\ dial = "resolving"
  /\ \E list \in SeqOf(Addresses, MAX_ADDRESSES) :
       /\ addrs' = Interleaved(list)
       /\ IF list = <<>>            \* an error, or no address
          THEN TcpFails
          ELSE /\ dial' = "racing"
               /\ Try(addrs')
               /\ UNCHANGED <<winner, tlsDue, query>>
  /\ resolved' = age
  /\ UNCHANGED <<socksVars, mode, age>>

Stagger ==
  /\ stagger = age
  /\ Try(addrs)
  /\ UNCHANGED <<socksVars, mode, addrs, dial, winner, tlsDue, resolved, query, age>>

Connects(i) ==
  /\ dial = "racing"
  /\ sock[i].state = "connecting" /\ addrs[i].up
  /\ TcpUp(i)
  /\ UNCHANGED <<socksVars, mode, addrs, resolved, age>>

\* Every address has been tried and has failed.
AllFailed(sockets) ==
  Len(sockets) >= Len(addrs) /\ \A s \in ToSet(sockets) : s.state = "failed"

ConnectErrors(i) ==
  LET sockets == [sock EXCEPT ![i].state = "failed"]
  IN  /\ dial = "racing"
      /\ sock[i].state = "connecting" /\ ~addrs[i].up
      /\ sock' = sockets
      /\ IF AllFailed(sockets)
         THEN Rejected /\ stagger' = NoTimer
         ELSE UNCHANGED <<dial, query, stagger>>
      /\ UNCHANGED <<socksVars, mode, addrs, winner, tlsDue, resolved, age>>

(***************************************************************************)
(* The proxy.                                                              *)
(***************************************************************************)
ProxyConnects ==
  /\ dial = "proxy" /\ sock[1].state = "connecting"
  /\ sock' = [sock EXCEPT ![1].state = "up"]
  /\ UNCHANGED <<socksVars, mode, addrs, dial, winner, stagger, tlsDue, resolved, query, age>>

\* Under TLS the far end has nothing to say before the client has.
Speaks ==
  /\ mode.proxied /\ sock[1].state = "up"
  /\ ProxySends
  /\ mode.tls => sent' <= GREETING + Need
  /\ UNCHANGED <<mode, addrs, sock, dial, winner, stagger, tlsDue, resolved, query, age>>

\* Data from the proxy, during the dialogue and (without TLS) after it.
Reads ==
  /\ mode.proxied /\ sock[1].state = "up"
  /\ Data
  /\ \/ stage' = "tunnel" /\ stage # "tunnel" /\ TcpUp(1)
     \/ stage' = "refused" /\ TcpFails
     \/ /\ stage' \in {"greeting", "reply"} \/ stage = "tunnel"
        /\ UNCHANGED <<sock, dial, winner, stagger, tlsDue, query>>
  /\ UNCHANGED <<mode, addrs, resolved, age>>

Immediate ==
  /\ Reemit
  /\ UNCHANGED <<mode, addrs, sock, dial, winner, stagger, tlsDue, resolved, query, age>>

\* The proxy closes the connection, or there is none to it.
ProxyCloses ==
  /\ dial = "proxy"
  /\ TcpFails
  /\ UNCHANGED <<socksVars, mode, addrs, resolved, age>>

(***************************************************************************)
(* TLS.                                                                    *)
(***************************************************************************)
TlsUp ==
  /\ dial = "tls"
  /\ Delivered(winner, sock)
  /\ UNCHANGED <<socksVars, mode, addrs, winner, stagger, tlsDue, resolved, age>>

\* An error of the handshake, or its timeout.
TlsFails ==
  /\ dial = "tls"
  /\ Rejected
  /\ sock' = Drop(winner)
  /\ UNCHANGED <<socksVars, mode, addrs, winner, stagger, tlsDue, resolved, age>>

(***************************************************************************)
(* The query of its own, and time.                                         *)
(***************************************************************************)
\* The lookup on the socket ends, or the socket does.
Concludes ==
  /\ dial = "connected" /\ query = "waiting"
  /\ query' = "ended"
  /\ sock' = Drop(winner)
  /\ UNCHANGED <<socksVars, mode, addrs, dial, winner, stagger, tlsDue, resolved, age>>

\* Mutant of TimesOut: the timeout leaves the losers alone.
TimesOutQuietly ==
  /\ age = TIMEOUT_MS
  /\ IF dial \in {"resolving", "racing", "proxy"}
     THEN /\ Rejected
          /\ stagger' = NoTimer
          /\ UNCHANGED <<sock, winner, tlsDue>>
     ELSE /\ query = "waiting"
          /\ query' = IF dial = "tls" THEN "abandoned" ELSE "ended"
          /\ sock' = IF dial = "connected" THEN Drop(winner) ELSE sock
          /\ UNCHANGED <<dial, winner, stagger, tlsDue>>
  /\ UNCHANGED <<socksVars, mode, addrs, resolved, age>>

\* The timeouts of the query and of the TCP connection, which are set in one
\* turn for the same time.  The query has no socket to close before the dial
\* is over.
TimesOut ==
  /\ age = TIMEOUT_MS
  /\ IF dial \in {"resolving", "racing", "proxy"}
     THEN TcpFails
     ELSE /\ query = "waiting"
          /\ query' = IF dial = "tls" THEN "abandoned" ELSE "ended"
          /\ sock' = IF dial = "connected" THEN Drop(winner) ELSE sock
          /\ UNCHANGED <<dial, winner, stagger, tlsDue>>
  /\ UNCHANGED <<socksVars, mode, addrs, resolved, age>>

Dialling == dial \notin {"connected", "failed"}

\* Timers fire when they are due, addresses that accept do so in time.
Tick ==
  /\ Dialling \/ query = "waiting"
  /\ age # stagger
  /\ dial = "tls" => age < tlsDue
  /\ (dial \in {"resolving", "racing", "proxy"} \/ query = "waiting") => age < TIMEOUT_MS
  /\ dial = "racing" =>
       \A i \in DOMAIN sock :
         (sock[i].state = "connecting" /\ addrs[i].up) => age < sock[i].since + LATENCY_MS
  /\ age' = age + 1
  /\ UNCHANGED <<socksVars, mode, addrs, sock, dial, winner, stagger, tlsDue, resolved, query>>

Next ==
  \/ DnsAnswers \/ Stagger \/ TimesOut \/ Tick
  \/ \E i \in DOMAIN sock : ~mode.proxied /\ (Connects(i) \/ ConnectErrors(i))
  \/ ProxyConnects \/ Speaks \/ Reads \/ Immediate \/ ProxyCloses
  \/ TlsUp \/ TlsFails \/ Concludes

\* Time passes, timers fire, and addresses that accept do so.
Fairness ==
  /\ WF_vars(Tick)
  /\ WF_vars(TimesOut) /\ WF_vars(Stagger)
  /\ WF_vars(\E i \in DOMAIN sock : ~mode.proxied /\ Connects(i))
  /\ WF_vars(TlsFails /\ age = tlsDue)
  /\ WF_vars(Immediate)

Spec     == Init /\ [][Next]_vars
FairSpec == Spec /\ Fairness

-----------------------------------------------------------------------------
(* Properties *)

\* No socket is left behind: at any time at most the winner and the losers
\* of a race that is still on are open, none once the dial has failed, and
\* none once the query has ended, with TLS or without.  The one exception is
\* the socket of a handshake that is under way when the query times out: the
\* query is abandoned, and does not close what it has not been given (README).
NoSocketLeft ==
  /\ dial = "failed" => \A i \in DOMAIN sock : ~Open(sock[i])
  /\ winner # 0 => \A i \in DOMAIN sock : Open(sock[i]) => i = winner
  /\ query = "ended" => \A i \in DOMAIN sock : ~Open(sock[i])

\* A dead family costs one delay: if every address of the other family would
\* accept a connection, there is one a delay and the latency after DNS has
\* answered (given that this is before the timeout), in whatever order DNS
\* lists the addresses and however the dead ones fail.  (A proxied dial has none.)
EitherFamilyWillDo ==
  \A f \in {4, 6} :
    LET mine == {a \in ToSet(addrs) : a.family = f}
        by   == resolved + DELAY_MS + LATENCY_MS
    IN  (/\ mine # {} /\ (\A a \in mine : a.up)
         /\ by < TIMEOUT_MS
         /\ dial = "failed" \/ age > by) => winner # 0

\* A dial is over at some time, and so is a query, whatever the host and the
\* proxy do or do not do.
DialEnds == <>[](~Dialling /\ query # "waiting")
=============================================================================
