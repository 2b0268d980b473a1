------------------------------- MODULE Socks5 -------------------------------
(***************************************************************************)
(* The SOCKS5 client (src/src/socks5.js): what a proxy sends comes in      *)
(* chunks of any size, is taken apart by a parser with one stage per       *)
(* message, and what follows the last message belongs to the tunnel.       *)
(*                                                                         *)
(* The bytes of the proxy are numbered: GREETING bytes that choose a       *)
(* method, then the reply to the request, whose length depends on the type *)
(* of address in it, then the bytes of the tunnel.  Of the contents only   *)
(* matters whether the client takes them (proxy.fit).                      *)
(***************************************************************************)
EXTENDS Naturals, Sequences

CONSTANTS Proxies,      \* of [addressType, name: length of a domain,
                        \*     fit: up to which message it answers well]
          MAX_TUNNEL    \* bound on the bytes the far end sends by itself

GREETING == 2           \* bytes in the choice of a method
HEADER   == 4           \* bytes of the reply up to the type of address

VARIABLES proxy,        \* external: what the proxy is like
          sent,         \* external: bytes the proxy has sent
          got,          \* bytes that have been read from the socket
          taken,        \* bytes of them that the parser has done with
          stage,        \* "greeting", "reply", "tunnel" or "refused"
          leftover,     \* bytes to be emitted again by setImmediate
          handed        \* bytes the user of the tunnel has been given

socksVars == <<proxy, sent, got, taken, stage, leftover, handed>>

ASSUME SocksAssumption ==
  /\ MAX_TUNNEL \in Nat
  /\ \A p \in Proxies : /\ p.addressType \in {"ipv4", "ipv6", "domain"}
                        /\ p.name \in Nat
                        /\ p.fit \in {"none", "greeting", "reply"}

SocksInit ==
  /\ proxy \in Proxies
  /\ sent = 0 /\ got = 0 /\ taken = 0
  /\ stage = "greeting"
  /\ leftover = <<>> /\ handed = <<>>

\* The length of the reply, and the bytes of it that tell.
Need == CASE proxy.addressType = "ipv4"   -> HEADER + 4 + 2
          [] proxy.addressType = "ipv6"   -> HEADER + 16 + 2
          [] proxy.addressType = "domain" -> HEADER + 1 + proxy.name + 2
Tells == IF proxy.addressType = "domain" THEN HEADER + 1 ELSE HEADER

Bytes(from, to) == [n \in 1..(to - from) |-> from + n]

\* External: the proxy answers the greeting, then the request, then passes
\* on what the far end says; never all at once what it has not been asked.
ProxySends ==
  /\ \/ sent < GREETING /\ sent' = GREETING
     \/ /\ stage = "reply"
        /\ sent = GREETING
        /\ sent' \in {GREETING + Need + n : n \in 0..MAX_TUNNEL}
     \/ /\ sent >= GREETING + Need
        /\ sent < GREETING + Need + MAX_TUNNEL
        /\ sent' = sent + 1
  /\ UNCHANGED <<proxy, got, taken, stage, leftover, handed>>

\* A chunk of data, in each stage: not enough of it, refused, or enough.
GreetingData ==
  /\ stage = "greeting"
  /\ \/ got' < GREETING /\ UNCHANGED <<taken, stage>>
     \/ got' >= GREETING /\ proxy.fit = "none" /\ stage' = "refused" /\ UNCHANGED taken
     \/ got' >= GREETING /\ proxy.fit # "none" /\ stage' = "reply" /\ taken' = GREETING
  /\ UNCHANGED <<leftover, handed>>

\* Mutant of ReplyData: what follows the reply is dropped.
ReplyDataOnly ==
  /\ stage = "reply"
  /\ IF got' - taken >= HEADER /\ proxy.fit # "reply"
     THEN stage' = "refused" /\ UNCHANGED <<taken, leftover>>
     ELSE IF got' - taken < Tells \/ got' - taken < Need
     THEN UNCHANGED <<taken, stage, leftover>>
     ELSE /\ taken' = got'
          /\ stage' = "tunnel"
          /\ UNCHANGED leftover
  /\ UNCHANGED handed

ReplyData ==
  /\ stage = "reply"
  /\ \/ /\ got' - taken < HEADER
        /\ UNCHANGED <<taken, stage, leftover>>
     \/ /\ got' - taken >= HEADER /\ proxy.fit # "reply"
        /\ stage' = "refused"
        /\ UNCHANGED <<taken, leftover>>
     \/ /\ got' - taken >= HEADER /\ proxy.fit = "reply"
        /\ got' - taken < Tells \/ got' - taken < Need
        /\ UNCHANGED <<taken, stage, leftover>>
     \/ /\ got' - taken >= Need /\ got' - taken >= Tells /\ proxy.fit = "reply"
        /\ taken' = got'
        /\ stage' = "tunnel"
        /\ leftover' = Bytes(taken + Need, got')
  /\ UNCHANGED handed

TunnelData ==
  /\ stage = "tunnel"
  /\ leftover = <<>>              \* setImmediate runs before the next read
  /\ taken' = got'
  /\ handed' = handed \o Bytes(got, got')
  /\ UNCHANGED <<stage, leftover>>

Data ==
  /\ got' \in got + 1 .. sent
  /\ GreetingData \/ ReplyData \/ TunnelData
  /\ UNCHANGED <<proxy, sent>>

Reemit ==
  /\ leftover # <<>>
  /\ handed' = handed \o leftover
  /\ leftover' = <<>>
  /\ UNCHANGED <<proxy, sent, got, taken, stage>>

\* The user of the tunnel is given every byte of it, once and in order, and
\* none of the proxy's own, however the proxy's bytes are cut into chunks.
TunnelIntact ==
  /\ stage # "tunnel" => handed = <<>>
  /\ stage = "tunnel" => handed \o leftover = Bytes(GREETING + Need, got)
=============================================================================
