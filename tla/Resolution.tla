----------------------------- MODULE Resolution -----------------------------
(***************************************************************************)
(* What an identifier resolves to, from its text to a key: it is parsed    *)
(* into a name and a local part (parseIdentifier of src/src/resolver.js),  *)
(* the name's script is looked up in the index of a server, the            *)
(* transaction found there is searched for the name's value                *)
(* (src/src/electrumx.js, module NameScript), and the value for the key of *)
(* the local part (extractFromValue).  A transaction is written output by  *)
(* output, and then looked up.                                             *)
(*                                                                         *)
(* JSON is abstracted: a document is a record of the fields the resolver   *)
(* reads, and takes doc.size bytes of doc.mark in a script; any other      *)
(* bytes are no JSON.  An identifier is trimmed and in lower case, and     *)
(* split where the patterns of the code split it.                          *)
(***************************************************************************)
EXTENDS NameScript, SequencesExt

CONSTANTS Identifiers,   \* what kind:0 events give as nip05
          Outputs,       \* outputs a transaction may have
          Documents,     \* JSON documents
          Keys,          \* the texts that are keys of 64 hex digits
          MAX_STEM_LEN, MAX_NAMECOIN_NAME_BYTES,
          MAX_VOUT       \* bound on a transaction

VARIABLES vout,      \* external: the outputs of the transaction
          lookup     \* [id, parsed, value, answer]: how far a resolve has come

Codes(text) == {text[i] : i \in DOMAIN text}

SLASH == 47
DOT   == 46
SPACE == 32
DotBit == <<DOT, 98, 105, 116>>

Prefix(ns) == IF ns = "id" THEN <<105, 100, SLASH>> ELSE <<100, SLASH>>

Utf8Bytes(text) ==
  Len(text) + Cardinality({i \in DOMAIN text : text[i] >= 128})
            + Cardinality({i \in DOMAIN text : text[i] >= 2048})

(***************************************************************************)
(* An identifier is [local, ns, stem]: "d/stem" and "id/stem" without a    *)
(* local part (Null) or after "local@"; "stem.bit", with or without one,   *)
(* has ns "bit".  A local part may be empty.                               *)
(***************************************************************************)
WellFormed(id) ==
  CASE id.ns = "bit" -> {SLASH, DOT} \cap Codes(id.stem) = {}
    [] id.ns \in {"d", "id"} ->
         /\ {SLASH, SPACE} \cap Codes(id.stem) = {}
         \* After "@", a domain that ends in ".bit" is never a d/ or id/ name.
         /\ id.local # Null => ~IsSuffix(DotBit, id.stem)
    [] OTHER -> FALSE

ParseIdentifier(id) ==
  LET name == Prefix(id.ns) \o id.stem
  IN  IF /\ WellFormed(id)
         /\ Len(id.stem) \in 1..MAX_STEM_LEN
         /\ Utf8Bytes(name) <= MAX_NAMECOIN_NAME_BYTES
      THEN [namecoinName |-> name,
            localPart    |-> IF id.local \in {Null, ""} THEN "_" ELSE id.local]
      ELSE Null

\* Mutant of ExtractFromValue: the key of the root stands in for a local part
\* without one.
ExtractForAnyone(doc, localPart, namecoinName) ==
  LET nostr == doc.nostr
      named == IF localPart \in DOMAIN nostr.names THEN nostr.names[localPart] ELSE Null
      said  == IF nostr.text # Null THEN nostr.text
               ELSE IF named \in Keys THEN named
               ELSE nostr.pubkey
  IN  IF doc # Null /\ nostr # Null /\ said \in Keys THEN said ELSE Null

\* doc.nostr is Null, or [text, pubkey, names]: text when it is a string,
\* else its fields; names maps local parts to texts.
ExtractFromValue(doc, localPart, namecoinName) ==
  LET nostr == doc.nostr
      named == IF localPart \in DOMAIN nostr.names THEN nostr.names[localPart] ELSE Null
      said  == IF nostr.text # Null THEN nostr.text
               ELSE IF IsPrefix(Prefix("id"), namecoinName) THEN nostr.pubkey
               ELSE IF named \in Keys THEN named
               ELSE IF localPart = "_" THEN nostr.pubkey
               ELSE Null
  IN  IF doc # Null /\ nostr # Null /\ said \in Keys THEN said ELSE Null

\* TRUE: the negative is kept for the short time only.
ClassifyParseFailure(doc) == doc = Null \/ doc.nostr = Null

(***************************************************************************)
(* External: the network.  An output is [op, name, rand, doc, cut]: an     *)
(* opcode, the bytes of a name, the length of a push between name and      *)
(* value (Null: none), a document, and how many bytes its end lacks.       *)
(***************************************************************************)
RAND_BYTE    == 205
Encoded(doc) == [i \in 1..doc.size |-> doc.mark]
RandOf(o)    == IF o.rand = Null THEN <<>> ELSE PushData([i \in 1..o.rand |-> RAND_BYTE])

ScriptOf(o) ==
  LET whole == <<o.op>> \o PushData(o.name) \o RandOf(o) \o PushData(Encoded(o.doc)) \o TAIL
  IN  SubSeq(whole, 1, Len(whole) - o.cut)

\* A table of them, which TLC computes once.
Scripts == [o \in Outputs |-> ScriptOf(o)]

\* A server lists a transaction under the index script of each of its names.
Listed(script) == \E i \in DOMAIN vout : BuildNameIndexScript(vout[i].name) = script

\* JSON.parse
Json(value) ==
  IF \E d \in Documents : Encoded(d) = value
  THEN CHOOSE d \in Documents : Encoded(d) = value
  ELSE Null

\* runResolve, with the name's transaction the only one of its script.
ValueOf(name) ==
  IF Listed(BuildNameIndexScript(ToBytes(name)))
  THEN ParseNameFromTx([i \in DOMAIN vout |-> Scripts[vout[i]]], name)
  ELSE Null

\* A length that a push can have.
Fits(len) == len \div Weight[4] < 256

\* The bytes of a document tell which it is, and those of a rand are no
\* document; names in the index are ASCII.
ASSUME OutputsAssumption ==
  /\ \A d \in Documents :
       /\ d.size \in Nat \ {0} /\ Fits(d.size)
       /\ d.mark \in 0..255 \ {RAND_BYTE}
       /\ \A e \in Documents : d.size = e.size /\ d.mark = e.mark => d = e
  /\ \A o \in Outputs :
       /\ o.op \in 0..255
       /\ o.name \in Seq(0..127) /\ Fits(Len(o.name))
       /\ o.rand = Null \/ (o.rand \in Nat /\ Fits(o.rand))
       /\ o.doc \in Documents /\ o.cut \in Nat

\* A key is not mistaken for another outcome.
ASSUME AnswersAssumption ==
  /\ \A id \in Identifiers : id # Null /\ id.stem \in Seq(Nat)
  /\ Null \notin {"not namecoin", "parse-failure", "success-negative"}
  /\ Keys \cap {Null, "not namecoin", "parse-failure", "success-negative"} = {}

-----------------------------------------------------------------------------
Unasked == [id |-> Null, parsed |-> Null, value |-> Null, answer |-> Null]

ResolutionInit == vout = <<>> /\ lookup = Unasked

Pay(o) == /\ lookup = Unasked
          /\ Len(vout) < MAX_VOUT
          /\ vout' = Append(vout, o)
          /\ UNCHANGED lookup

\* resolve, on a cache miss, up to the answer of nameShow.
Resolve(id) ==
  LET parsed == ParseIdentifier(id)
  IN  /\ lookup = Unasked
      /\ lookup' = IF parsed = Null THEN [Unasked EXCEPT !.id = id, !.answer = "not namecoin"]
                   ELSE [id |-> id, parsed |-> parsed, answer |-> Null,
                         value |-> ValueOf(parsed.namecoinName)]
      /\ UNCHANGED vout

\* The rest of it: a key, or how the negative is cached.
Conclude ==
  LET doc == IF lookup.value = Null THEN Null ELSE Json(lookup.value)
      key == ExtractFromValue(doc, lookup.parsed.localPart, lookup.parsed.namecoinName)
  IN  /\ lookup.id # Null /\ lookup.answer = Null
      /\ lookup' = [lookup EXCEPT !.answer =
                      IF key # Null THEN key
                      ELSE IF ClassifyParseFailure(doc) THEN "parse-failure"
                      ELSE "success-negative"]
      /\ UNCHANGED vout

ResolutionNext ==
  \/ \E o \in Outputs : Pay(o)
  \/ \E id \in Identifiers : Resolve(id)
  \/ Conclude

ResolutionSpec == ResolutionInit /\ [][ResolutionNext]_<<vout, lookup>>

-----------------------------------------------------------------------------
(* Properties *)

NameOps == {OP_NAME_UPDATE, OP_NAME_FIRSTUPDATE}

\* An operation on the name that has all of its value, and the pushes that
\* its opcode calls for.  (A first update without a rand is read as an
\* update, unless its value could be one.)
Carries(o, name) ==
  /\ o.name = name /\ o.op \in NameOps /\ o.cut <= Len(TAIL)
  /\ \/ o.op = OP_NAME_UPDATE /\ o.rand = Null
     \/ o.op = OP_NAME_FIRSTUPDATE /\ o.rand = RAND_LEN
     \/ o.op = OP_NAME_FIRSTUPDATE /\ o.rand = Null /\ o.doc.size # RAND_LEN

\* An operation on the name with a push that does not belong there.
Misshapen(o, name) ==
  /\ o.name = name /\ o.op \in NameOps /\ o.rand # Null
  /\ o.op = OP_NAME_FIRSTUPDATE => o.rand # RAND_LEN

\* The value of a name is the one its owner wrote: whatever the lengths at
\* which the encoding of a push changes, and whatever scripts of other names,
\* cut scripts, and first updates with a rand of a wrong length stand beside
\* it in the transaction, it is read whole from the first output that carries
\* one, and a document is never read from any other.
ValueIsTheOwners ==
  lookup.parsed # Null =>
    LET name     == lookup.parsed.namecoinName
        carrying == {i \in DOMAIN vout : Carries(vout[i], name)}
    IN  /\ lookup.value # Null /\ Json(lookup.value) # Null =>
             \E i \in carrying : Encoded(vout[i].doc) = lookup.value
        /\ (\A i \in DOMAIN vout : ~Misshapen(vout[i], name)) =>
             lookup.value = IF carrying = {} THEN Null
                            ELSE Encoded(vout[Min(carrying)].doc)

\* Every key a document has, for a local part or for its single identity.
GrantedKeys(nostr) ==
  ({nostr.text, nostr.pubkey} \cup {nostr.names[l] : l \in DOMAIN nostr.names}) \cap Keys

\* Nobody is given a key that the name's own record does not grant: a local
\* part that the record does not name gets no key of another one, and least of
\* all the root's (the comment in extractFromValue); an identifier that is no
\* name of the record, however its characters are encoded, gets none; and a
\* negative is remembered for long only where the name has a nostr record.
KeyIsGranted ==
  LET name   == Prefix(lookup.id.ns) \o lookup.id.stem
      local  == IF lookup.id.local \in {Null, ""} THEN "_" ELSE lookup.id.local
      docs   == {vout[i].doc : i \in {j \in DOMAIN vout : Carries(vout[j], name)}}
      nostrs == {d.nostr : d \in docs} \ {Null}
  IN  /\ lookup.answer \in Keys =>
           \E nostr \in nostrs :
             /\ lookup.answer \in GrantedKeys(nostr)
             /\ nostr.text = Null /\ lookup.id.ns # "id" =>
                  IF local \in DOMAIN nostr.names /\ nostr.names[local] \in Keys
                  THEN lookup.answer = nostr.names[local]
                  ELSE local = "_" /\ lookup.answer = nostr.pubkey
      /\ lookup.answer = "success-negative" => nostrs # {}
=============================================================================
