----------------------------- MODULE NameScript -----------------------------
(***************************************************************************)
(* Name scripts (src/src/electrumx.js): how data is pushed and read back,  *)
(* the script that a name is indexed by, and what a transaction says of a  *)
(* name.  A script is a sequence of bytes, a text one of character codes;  *)
(* positions count from 1.                                                 *)
(***************************************************************************)
EXTENDS Integers, Sequences, FiniteSetsExt

CONSTANTS Null

\* "null" is not one of the results.
ASSUME NullAssumption ==
  Null \notin Nat \cup [data : Seq(Nat), next : Nat] \cup [name : Seq(Nat), value : Seq(Nat)]

OP_PUSHDATA1 == 76
OP_PUSHDATA2 == 77
OP_PUSHDATA4 == 78
OP_NAME_UPDATE      == 83
OP_NAME_FIRSTUPDATE == 82
TAIL == <<109, 117, 106>>       \* OP_2DROP OP_DROP OP_RETURN
RAND_LEN == 20                  \* NAME_FIRSTUPDATE_RAND_LEN

\* Buffer.from(text, "ascii") keeps the low byte of a character, and
\* buffer.toString("ascii") the low seven bits of a byte.
ToBytes(text)   == [i \in DOMAIN text  |-> text[i] % 256]
FromBytes(data) == [i \in DOMAIN data  |-> data[i] % 128]

\* Little-endian numbers of up to four bytes.
Weight == <<1, 256, 65536, 16777216>>
LE(n, width) == [i \in 1..width |-> (n \div Weight[i]) % 256]
Number(data) ==
  LET part(i) == IF i \in DOMAIN data THEN data[i] * Weight[i] ELSE 0
  IN  part(1) + part(2) + part(3) + part(4)

PushHeader(len) ==
  IF len < OP_PUSHDATA1 THEN <<len>>
  ELSE IF len <= 255 THEN <<OP_PUSHDATA1>> \o LE(len, 1)
  ELSE IF len <= 65535 THEN <<OP_PUSHDATA2>> \o LE(len, 2)
  ELSE <<OP_PUSHDATA4>> \o LE(len, 4)

PushData(data) == PushHeader(Len(data)) \o data

BuildNameIndexScript(nameBytes) ==
  <<OP_NAME_UPDATE>> \o PushData(nameBytes) \o PushData(<<>>) \o TAIL

\* Bytes of the length after the opcode.
Width(op) == CASE op < OP_PUSHDATA1 -> 0
               [] op = OP_PUSHDATA1 -> 1
               [] op = OP_PUSHDATA2 -> 2
               [] op = OP_PUSHDATA4 -> 4

\* Mutant of ReadPushData: a length of one byte is taken for all lengths.
ReadPushDataShort(script, pos) ==
  IF pos > Len(script) \/ script[pos] > OP_PUSHDATA4 THEN Null
  ELSE LET head == pos + (IF script[pos] < OP_PUSHDATA1 THEN 0 ELSE 1)
           len  == script[head]
       IN  IF head > Len(script) \/ head + len > Len(script) THEN Null
           ELSE [data |-> SubSeq(script, head + 1, head + len),
                 next |-> head + len + 1]

\* The push at pos, and where the next one starts; Null when it is none, or
\* is cut short.
ReadPushData(script, pos) ==
  IF pos > Len(script) \/ script[pos] > OP_PUSHDATA4 THEN Null
  ELSE LET head == pos + Width(script[pos])     \* the last byte of the header
           len  == IF head = pos THEN script[pos]
                   ELSE Number(SubSeq(script, pos + 1, head))
       IN  IF head > Len(script) \/ head + len > Len(script) THEN Null
           ELSE [data |-> SubSeq(script, head + 1, head + len),
                 next |-> head + len + 1]

\* A first update has a push of RAND_LEN bytes before its value; one whose
\* middle push has another length is read like an update.
ParseNameScript(script) ==
  IF Len(script) < 4 \/ script[1] \notin {OP_NAME_UPDATE, OP_NAME_FIRSTUPDATE}
  THEN Null
  ELSE LET name  == ReadPushData(script, 2)
           rand  == ReadPushData(script, name.next)
           skip  == /\ script[1] = OP_NAME_FIRSTUPDATE
                    /\ rand # Null
                    /\ Len(rand.data) = RAND_LEN
           value == ReadPushData(script, IF skip THEN rand.next ELSE name.next)
       IN  IF name = Null \/ value = Null THEN Null
           ELSE [name |-> FromBytes(name.data), value |-> value.data]

\* vout: the scripts of a transaction.  The first that parses as an operation
\* on expectedName counts.
ParseNameFromTx(vout, expectedName) ==
  LET parsed == [i \in DOMAIN vout |-> ParseNameScript(vout[i])]
      ours   == {i \in DOMAIN vout : parsed[i] # Null /\ parsed[i].name = expectedName}
  IN  IF ours = {} THEN Null ELSE parsed[Min(ours)].value
=============================================================================
