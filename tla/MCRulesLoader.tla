--------------------------- MODULE MCRulesLoader ---------------------------
(* Small instances of RulesLoader for TLC. *)
EXTENDS RulesLoader

CONSTANTS owner, other, tag, tag2

Doc(p, t, at, r) ==
  [pubkey |-> p, dTag |-> t, communityAddress |-> NoCommunity,
   createdAt |-> at, minRulesCreatedAt |-> r]

\* Documents of several keys, for the loader without a configured community:
\* two made at the same time, ratchets that outlaw older documents, their own
\* or those of another key, one that forbids itself, and a malformed one.
ManyKeyDocs ==
  {Doc(owner, tag, 1, 0), Doc(owner, tag, 3, 3),
   Doc(other, tag, 2, 2), Doc(other, tag, 4, 0),
   Doc(owner, tag2, 4, 5), Doc(owner, tag2, 5, 0),
   Doc(owner, NoTag, 6, 6)}
=============================================================================
