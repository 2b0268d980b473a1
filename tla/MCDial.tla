------------------------------- MODULE MCDial -------------------------------
(* Small instances of Dial for TLC. *)
EXTENDS Dial

Mode(dedicated, tls, proxied, pinned) ==
  [dedicated |-> dedicated, tls |-> tls, proxied |-> proxied, pinned |-> pinned]

AllModes == {m \in {Mode(d, t, p, n) : d, t, p, n \in BOOLEAN} : m.pinned => m.tls}

Families == {[family |-> f, up |-> u] : f \in {4, 6}, u \in BOOLEAN}

Proxy(type, name, fit) == [addressType |-> type, name |-> name, fit |-> fit]

AllProxies ==
  {Proxy("ipv4", 0, fit) : fit \in {"none", "greeting", "reply"}} \cup
  {Proxy("ipv6", 0, "reply"), Proxy("domain", 0, "reply"), Proxy("domain", 2, "reply")}
=============================================================================
