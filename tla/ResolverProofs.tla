-------------------------- MODULE ResolverProofs --------------------------
(***************************************************************************)
(* The two ends of a resolve.  What a name says: for every transaction,    *)
(* document and identifier, the value that is read is the one its owner    *)
(* wrote, and the key that is answered one that its record grants.  And    *)
(* the rate limiter in front of every lookup: it limits, for every burst,  *)
(* rate, queue time, number of callers and lateness of timers.             *)
(***************************************************************************)
EXTENDS TokenBucket, Inputs, SequenceTheorems, WellFoundedInduction, TLAPS

-----------------------------------------------------------------------------
(* What is pushed is read back. *)

LEMMA QuotientDigits ==
  ASSUME NEW n \in Nat
  PROVE  /\ n < 256 => n % 256 = n
         /\ n < 65536 => (n % 256) + ((n \div 256) % 256) * 256 = n
         /\ n \div 16777216 < 256 =>
              (n % 256) + ((n \div 256) % 256) * 256 + ((n \div 65536) % 256) * 65536
                + ((n \div 16777216) % 256) * 16777216 = n
<1>1. n < 256 => n % 256 = n
  BY SMT
<1>2. n < 65536 => (n % 256) + ((n \div 256) % 256) * 256 = n
  BY SMT
<1>3. n \div 16777216 < 256 =>
              (n % 256) + ((n \div 256) % 256) * 256 + ((n \div 65536) % 256) * 65536
                + ((n \div 16777216) % 256) * 16777216 = n
  BY SMT
<1> QED BY <1>1, <1>2, <1>3

LEMMA NumberIs ==
  ASSUME NEW s
  PROVE  /\ DOMAIN s = 1..1 /\ s[1] \in Nat => Number(s) = s[1]
         /\ DOMAIN s = 1..2 /\ s[1] \in Nat /\ s[2] \in Nat =>
              Number(s) = s[1] + s[2] * 256
         /\ DOMAIN s = 1..4 /\ s[1] \in Nat /\ s[2] \in Nat /\ s[3] \in Nat /\ s[4] \in Nat =>
              Number(s) = s[1] + s[2] * 256 + s[3] * 65536 + s[4] * 16777216
<1>1. ASSUME DOMAIN s = 1..1, s[1] \in Nat PROVE Number(s) = s[1]
  BY <1>1 DEF Number, Weight
<1>2. ASSUME DOMAIN s = 1..2, s[1] \in Nat, s[2] \in Nat
      PROVE  Number(s) = s[1] + s[2] * 256
  BY <1>2 DEF Number, Weight
<1>3. ASSUME DOMAIN s = 1..4, s[1] \in Nat, s[2] \in Nat, s[3] \in Nat, s[4] \in Nat
      PROVE  Number(s) = s[1] + s[2] * 256 + s[3] * 65536 + s[4] * 16777216
  BY <1>3 DEF Number, Weight
<1> QED BY <1>1, <1>2, <1>3

LEMMA LengthRead ==
  ASSUME NEW n \in Nat
  PROVE  /\ n < 256 => Number(LE(n, 1)) = n
         /\ n < 65536 => Number(LE(n, 2)) = n
         /\ Fits(n) => Number(LE(n, 4)) = n
<1>1. /\ Weight[1] = 1 /\ Weight[2] = 256 /\ Weight[3] = 65536 /\ Weight[4] = 16777216
  BY DEF Weight
<1>2. ASSUME NEW w \in {1, 2, 4}
      PROVE  /\ DOMAIN LE(n, w) = 1..w
             /\ \A i \in 1..w : LE(n, w)[i] = (n \div Weight[i]) % 256
  BY DEF LE
<1>3. n \div 1 = n
  BY SMT
<1>4. n < 256 => Number(LE(n, 1)) = n
  <2> DEFINE s == LE(n, 1)
  <2>1. DOMAIN s = 1..1 /\ s[1] = n % 256
    BY <1>1, <1>2, <1>3
  <2> HIDE DEF s
  <2>2. Number(s) = n % 256
    BY <2>1, NumberIs
  <2> QED BY <2>2, QuotientDigits DEF s
<1>5. n < 65536 => Number(LE(n, 2)) = n
  <2> DEFINE s == LE(n, 2)
  <2>1. DOMAIN s = 1..2 /\ s[1] = n % 256 /\ s[2] = (n \div 256) % 256
    BY <1>1, <1>2, <1>3
  <2> HIDE DEF s
  <2>2. Number(s) = (n % 256) + ((n \div 256) % 256) * 256
    BY <2>1, NumberIs
  <2> QED BY <2>2, QuotientDigits DEF s
<1>6. Fits(n) => Number(LE(n, 4)) = n
  <2> DEFINE s == LE(n, 4)
  <2>1. /\ DOMAIN s = 1..4 /\ s[1] = n % 256 /\ s[2] = (n \div 256) % 256
        /\ s[3] = (n \div 65536) % 256 /\ s[4] = (n \div 16777216) % 256
    BY <1>1, <1>2, <1>3
  <2> HIDE DEF s
  <2>2. Number(s) = (n % 256) + ((n \div 256) % 256) * 256 + ((n \div 65536) % 256) * 65536
                      + ((n \div 16777216) % 256) * 16777216
    BY <2>1, NumberIs
  <2>3. Fits(n) <=> n \div 16777216 < 256
    BY <1>1 DEF Fits
  <2> QED BY <2>2, <2>3, QuotientDigits DEF s
<1> QED BY <1>4, <1>5, <1>6

\* A push starts with an opcode and the bytes of the length.
HeaderParts(n, op, w) ==
  /\ PushHeader(n) = <<op>> \o LE(n, w)
  /\ Width(op) = w
  /\ w = 0 => op = n /\ op < OP_PUSHDATA1
  /\ w # 0 => op >= OP_PUSHDATA1 /\ Number(LE(n, w)) = n

LEMMA HeaderHasParts ==
  ASSUME NEW n \in Nat, Fits(n)
  PROVE  \E op \in 0..OP_PUSHDATA4, w \in {0, 1, 2, 4} : HeaderParts(n, op, w)
<1>1. ASSUME n < OP_PUSHDATA1
      PROVE  HeaderParts(n, n, 0)
  <2>1. LE(n, 0) = <<>>
    BY DEF LE
  <2>2. PushHeader(n) = <<n>>
    BY <1>1 DEF PushHeader, OP_PUSHDATA1, OP_PUSHDATA2, OP_PUSHDATA4
  <2>3. <<n>> \o <<>> = <<n>>
    OBVIOUS
  <2>4. Width(n) = 0
    BY <1>1 DEF Width, OP_PUSHDATA1, OP_PUSHDATA2, OP_PUSHDATA4
  <2> QED BY <1>1, <2>1, <2>2, <2>3, <2>4 DEF HeaderParts
<1>2. ASSUME OP_PUSHDATA1 <= n, n <= 255
      PROVE  HeaderParts(n, OP_PUSHDATA1, 1)
  <2>1. PushHeader(n) = <<OP_PUSHDATA1>> \o LE(n, 1)
    BY <1>2 DEF PushHeader, OP_PUSHDATA1, OP_PUSHDATA2, OP_PUSHDATA4
  <2>2. Width(OP_PUSHDATA1) = 1
    BY DEF Width, OP_PUSHDATA1, OP_PUSHDATA2, OP_PUSHDATA4
  <2>3. Number(LE(n, 1)) = n
    BY <1>2, LengthRead DEF OP_PUSHDATA1, OP_PUSHDATA2, OP_PUSHDATA4
  <2> QED BY <2>1, <2>2, <2>3 DEF HeaderParts, OP_PUSHDATA1, OP_PUSHDATA2, OP_PUSHDATA4
<1>3. ASSUME 255 < n, n <= 65535
      PROVE  HeaderParts(n, OP_PUSHDATA2, 2)
  <2>1. PushHeader(n) = <<OP_PUSHDATA2>> \o LE(n, 2)
    BY <1>3 DEF PushHeader, OP_PUSHDATA1, OP_PUSHDATA2, OP_PUSHDATA4
  <2>2. Width(OP_PUSHDATA2) = 2
    BY DEF Width, OP_PUSHDATA1, OP_PUSHDATA2, OP_PUSHDATA4
  <2>3. Number(LE(n, 2)) = n
    BY <1>3, LengthRead DEF OP_PUSHDATA1, OP_PUSHDATA2, OP_PUSHDATA4
  <2> QED BY <2>1, <2>2, <2>3 DEF HeaderParts, OP_PUSHDATA1, OP_PUSHDATA2, OP_PUSHDATA4
<1>4. ASSUME n > 65535
      PROVE  HeaderParts(n, OP_PUSHDATA4, 4)
  <2>1. PushHeader(n) = <<OP_PUSHDATA4>> \o LE(n, 4)
    BY <1>4 DEF PushHeader, OP_PUSHDATA1, OP_PUSHDATA2, OP_PUSHDATA4
  <2>2. Width(OP_PUSHDATA4) = 4
    BY DEF Width, OP_PUSHDATA1, OP_PUSHDATA2, OP_PUSHDATA4
  <2>3. Number(LE(n, 4)) = n
    BY LengthRead DEF OP_PUSHDATA1, OP_PUSHDATA2, OP_PUSHDATA4
  <2> QED BY <2>1, <2>2, <2>3 DEF HeaderParts, OP_PUSHDATA1, OP_PUSHDATA2, OP_PUSHDATA4
<1>5. /\ OP_PUSHDATA1 \in 0..OP_PUSHDATA4 /\ OP_PUSHDATA2 \in 0..OP_PUSHDATA4
      /\ OP_PUSHDATA4 \in 0..OP_PUSHDATA4
      /\ n < OP_PUSHDATA1 => n \in 0..OP_PUSHDATA4
  BY DEF OP_PUSHDATA1, OP_PUSHDATA2, OP_PUSHDATA4
<1>6. \/ n < OP_PUSHDATA1
      \/ OP_PUSHDATA1 <= n /\ n <= 255
      \/ 255 < n /\ n <= 65535
      \/ n > 65535
  BY DEF OP_PUSHDATA1, OP_PUSHDATA2, OP_PUSHDATA4
<1> QED BY <1>1, <1>2, <1>3, <1>4, <1>5, <1>6

LEMMA LengthBytes ==
  ASSUME NEW n \in Nat, NEW w \in {0, 1, 2, 4}
  PROVE  LE(n, w) \in Seq(Nat) /\ Len(LE(n, w)) = w
<1>1. ASSUME NEW i \in 1..w PROVE (n \div Weight[i]) % 256 \in Nat
  <2>1. Weight[i] \in Nat \ {0}
    <3>1. i \in {1, 2, 3, 4}
      OBVIOUS
    <3> QED BY <3>1 DEF Weight
  <2> DEFINE m == Weight[i]
  <2> HIDE DEF m
  <2>2. m \in Nat \ {0}
    BY <2>1 DEF m
  <2>3. n \div m \in Int
    BY <2>2
  <2> DEFINE q == n \div m
  <2>4. q \in Int
    BY <2>3
  <2> HIDE DEF q
  <2>5. q % 256 \in Nat
    BY <2>4
  <2> QED BY <2>5 DEF q, m
<1>2. w \in Nat
  OBVIOUS
<1> QED BY <1>1, <1>2 DEF LE

PushParts(p, op, w, data) ==
  /\ p \in Seq(Nat)
  /\ Len(p) = 1 + w + Len(data)
  /\ p[1] = op
  /\ \A i \in 1..w : p[1 + i] = LE(Len(data), w)[i]
  /\ \A i \in 1..Len(data) : p[1 + w + i] = data[i]

LEMMA PushBytes ==
  ASSUME NEW data \in Seq(Nat), NEW op \in 0..OP_PUSHDATA4, NEW w \in {0, 1, 2, 4},
         HeaderParts(Len(data), op, w)
  PROVE  PushParts(PushData(data), op, w, data)
<1> DEFINE le == LE(Len(data), w)
<1>0. Len(data) \in Nat
  OBVIOUS
<1>1. le \in Seq(Nat) /\ Len(le) = w
  BY <1>0, LengthBytes
<1>2. PushData(data) = (<<op>> \o le) \o data
  BY DEF PushData, HeaderParts
<1>3. op \in Nat /\ w \in Nat
  BY DEF OP_PUSHDATA4
<1> HIDE DEF le
<1> DEFINE head == <<op>> \o le
<1>4. /\ head \in Seq(Nat) /\ Len(head) = 1 + w /\ head[1] = op
      /\ \A i \in 1..w : head[1 + i] = le[i]
  BY <1>1, <1>3
<1> HIDE DEF head
<1>5. PushData(data) = head \o data
  BY <1>2 DEF head
<1>6. /\ head \o data \in Seq(Nat)
      /\ Len(head \o data) = 1 + w + Len(data)
      /\ \A i \in 1..(1 + w) : (head \o data)[i] = head[i]
      /\ \A i \in 1..Len(data) : (head \o data)[1 + w + i] = data[i]
  <2>1. /\ head \o data \in Seq(Nat)
        /\ Len(head \o data) = Len(head) + Len(data)
        /\ \A i \in 1..(Len(head) + Len(data)) :
             (head \o data)[i] = IF i <= Len(head) THEN head[i] ELSE data[i - Len(head)]
    BY <1>4, ConcatProperties
  <2>2. ASSUME NEW i \in 1..(1 + w) PROVE (head \o data)[i] = head[i]
    <3>1. i \in 1..(Len(head) + Len(data)) /\ i <= Len(head)
      BY <1>0, <1>3, <1>4
    <3> QED BY <2>1, <3>1
  <2>3. ASSUME NEW i \in 1..Len(data) PROVE (head \o data)[1 + w + i] = data[i]
    <3>1. /\ 1 + w + i \in 1..(Len(head) + Len(data)) /\ ~(1 + w + i <= Len(head))
          /\ 1 + w + i - Len(head) = i
      BY <1>0, <1>3, <1>4
    <3> QED BY <2>1, <3>1
  <2> QED BY <1>4, <2>1, <2>2, <2>3
<1> DEFINE p == PushData(data)
<1>7. /\ p \in Seq(Nat) /\ Len(p) = 1 + w + Len(data)
      /\ \A i \in 1..(1 + w) : p[i] = head[i]
      /\ \A i \in 1..Len(data) : p[1 + w + i] = data[i]
  BY <1>5, <1>6
<1> HIDE DEF p
<1>8. p[1] = op
  <2>1. 1 \in 1..(1 + w)
    BY <1>3
  <2> QED BY <1>4, <1>7, <2>1
<1>9. ASSUME NEW i \in 1..w PROVE p[1 + i] = le[i]
  <2>1. 1 + i \in 1..(1 + w)
    BY <1>3
  <2> QED BY <1>4, <1>7, <2>1
<1>10. PushParts(p, op, w, data)
  BY <1>7, <1>8, <1>9 DEF le, PushParts
<1> QED BY <1>10 DEF p

\* s has p at pos, as far as s goes.
HasAt(s, pos, p) ==
  \A i \in 1..Len(p) : pos + i - 1 <= Len(s) => s[pos + i - 1] = p[i]

\* A push is read back, whatever its length, or is found to be cut short.
LEMMA Slice ==
  ASSUME NEW s \in Seq(Nat), NEW m \in Nat, NEW n \in Nat, m + n <= Len(s)
  PROVE  /\ SubSeq(s, m + 1, m + n) \in Seq(Nat)
         /\ Len(SubSeq(s, m + 1, m + n)) = n
         /\ \A i \in 1..n : SubSeq(s, m + 1, m + n)[i] = s[m + i]
<1> DEFINE g == SubSeq(s, m + 1, m + n)
<1>1. g \in Seq(Nat) /\ Len(g) = n
  OBVIOUS
<1>2. ASSUME NEW i \in 1..n PROVE g[i] = s[m + i]
  <2>1. g[i] = s[(m + 1) + i - 1]
    OBVIOUS
  <2>2. (m + 1) + i - 1 = m + i
    OBVIOUS
  <2> QED BY <2>1, <2>2
<1> QED BY <1>1, <1>2

\* A push is read back where it was written, unless the script is cut in it.
LEMMA ReadBack ==
  ASSUME NEW script \in Seq(Nat), NEW pos \in Nat \ {0},
         NEW data \in Seq(Nat), Fits(Len(data)), HasAt(script, pos, PushData(data))
  PROVE  ReadPushData(script, pos) =
           IF pos + Len(PushData(data)) <= Len(script) + 1
           THEN [data |-> data, next |-> pos + Len(PushData(data))]
           ELSE Null
<1> DEFINE n == Len(data)  p == PushData(data)
<1>0. n \in Nat /\ Len(script) \in Nat
  OBVIOUS
<1>1. PICK op \in 0..OP_PUSHDATA4, w \in {0, 1, 2, 4} : HeaderParts(n, op, w)
  BY <1>0, HeaderHasParts
<1>2. /\ p \in Seq(Nat) /\ Len(p) = 1 + w + n /\ p[1] = op
      /\ \A i \in 1..w : p[1 + i] = LE(n, w)[i]
      /\ \A i \in 1..n : p[1 + w + i] = data[i]
  <2>1. HeaderParts(Len(data), op, w)
    BY <1>1
  <2>2. PushParts(PushData(data), op, w, data)
    BY <1>1, <2>1, PushBytes, Zenon
  <2> QED BY <2>2 DEF PushParts
<1>3. \A i \in 1..Len(p) : pos + i - 1 <= Len(script) => script[pos + i - 1] = p[i]
  <2>1. HasAt(script, pos, p)
    OBVIOUS
  <2> HIDE DEF p
  <2> QED BY <2>1, Zenon DEF HasAt
<1>4. /\ op \in Nat /\ op <= OP_PUSHDATA4 /\ w \in Nat /\ Width(op) = w
      /\ w = 0 => op = n /\ op < OP_PUSHDATA1
      /\ w # 0 => op >= OP_PUSHDATA1 /\ Number(LE(n, w)) = n
  BY <1>1 DEF HeaderParts, OP_PUSHDATA4
<1>5. LE(n, w) \in Seq(Nat) /\ Len(LE(n, w)) = w
  BY <1>0, LengthBytes
<1> HIDE DEF n, p
<1>6. CASE pos > Len(script)
  <2>1. ReadPushData(script, pos) = Null
    BY <1>6 DEF ReadPushData
  <2> QED BY <2>1, <1>6, <1>0, <1>2, <1>4 DEF p
<1>7. CASE pos <= Len(script)
  <2>1. script[pos] = op
    <3>1. 1 \in 1..Len(p) /\ pos + 1 - 1 = pos
      BY <1>0, <1>2, <1>4
    <3> QED BY <3>1, <1>3, <1>2, <1>7
  <2> DEFINE len == IF pos + w = pos THEN op ELSE Number(SubSeq(script, pos + 1, pos + w))
  <2>2. ReadPushData(script, pos) =
          IF pos + w > Len(script) \/ pos + w + len > Len(script) THEN Null
          ELSE [data |-> SubSeq(script, pos + w + 1, pos + w + len),
                next |-> pos + w + len + 1]
    <3>1. ~(pos > Len(script) \/ script[pos] > OP_PUSHDATA4)
      BY <1>7, <1>0, <2>1, <1>4 DEF OP_PUSHDATA4
    <3>2. (IF pos + w = pos THEN script[pos] ELSE Number(SubSeq(script, pos + 1, pos + w))) = len
      BY <2>1
    <3> HIDE DEF len
    <3> QED BY <3>1, <3>2, <2>1, <1>4, Zenon DEF ReadPushData
  <2> HIDE DEF len
  <2>3. CASE pos + w > Len(script)
    <3>1. ReadPushData(script, pos) = Null
      BY <2>2, <2>3
    <3> QED BY <3>1, <2>3, <1>0, <1>2, <1>4 DEF p
  <2>4. CASE pos + w <= Len(script)
    <3>1. len = n
      <4>1. CASE w = 0
        BY <4>1, <1>4 DEF len
      <4>2. CASE w # 0
        <5> DEFINE bytes == SubSeq(script, pos + 1, pos + w)
        <5>1. /\ bytes \in Seq(Nat) /\ Len(bytes) = w
              /\ \A i \in 1..w : bytes[i] = script[pos + i]
          BY <2>4, <1>4, Slice
        <5>2. ASSUME NEW i \in 1..w PROVE bytes[i] = LE(n, w)[i]
          <6>1. bytes[i] = script[pos + i]
            BY <5>1
          <6>2. 1 + i \in 1..Len(p) /\ pos + (1 + i) - 1 = pos + i /\ pos + i <= Len(script)
            BY <1>0, <1>2, <1>4, <2>4
          <6>3. script[pos + i] = p[1 + i]
            BY <6>2, <1>3
          <6> QED BY <6>1, <6>3, <1>2
        <5> HIDE DEF bytes
        <5>3. bytes = LE(n, w)
          BY <5>1, <5>2, <1>5, SeqEqual
        <5>4. len = Number(bytes)
          BY <4>2, <1>4 DEF len, bytes
        <5> QED BY <5>3, <5>4, <4>2, <1>4
      <4> QED BY <4>1, <4>2
    <3>2. CASE pos + w + n > Len(script)
      <4>1. ReadPushData(script, pos) = Null
        BY <2>2, <3>1, <3>2
      <4> QED BY <4>1, <3>2, <1>0, <1>2, <1>4 DEF p
    <3>3. CASE pos + w + n <= Len(script)
      <4> DEFINE got == SubSeq(script, pos + w + 1, pos + w + n)
      <4>0. pos + w \in Nat /\ got = SubSeq(script, (pos + w) + 1, (pos + w) + n)
        BY <1>0, <1>4
      <4>1. got \in Seq(Nat) /\ Len(got) = n /\ \A i \in 1..n : got[i] = script[(pos + w) + i]
        BY <4>0, <3>3, <1>0, Slice
      <4>2. ASSUME NEW i \in 1..n PROVE got[i] = data[i]
        <5>1. got[i] = script[pos + w + i]
          BY <4>1
        <5>2. /\ 1 + w + i \in 1..Len(p) /\ pos + (1 + w + i) - 1 = pos + w + i
              /\ pos + w + i <= Len(script)
          BY <1>0, <1>2, <1>4, <3>3
        <5>3. script[pos + w + i] = p[1 + w + i]
          BY <5>2, <1>3
        <5> QED BY <5>1, <5>3, <1>2
      <4> HIDE DEF got
      <4>3. got = data
        BY <4>1, <4>2, SeqEqual DEF n
      <4>4. ReadPushData(script, pos) = [data |-> got, next |-> pos + w + n + 1]
        BY <2>2, <3>1, <3>3, <2>4, <1>0, <1>4 DEF got
      <4>5. pos + w + n + 1 = pos + Len(p) /\ pos + Len(p) <= Len(script) + 1
        BY <3>3, <1>0, <1>2, <1>4
      <4> QED BY <4>3, <4>4, <4>5 DEF p
    <3> QED BY <3>2, <3>3, <1>0, <1>4
  <2> QED BY <2>3, <2>4, <1>0, <1>4
<1> QED BY <1>6, <1>7, <1>0

-----------------------------------------------------------------------------
(* What the scripts of a transaction say. *)

LEMMA SameText ==
  ASSUME NEW S, S \subseteq Nat, NEW text \in Seq(S), NEW m \in Nat,
         \A c \in S : c % m = c
  PROVE  /\ [i \in DOMAIN text |-> text[i] % m] = text
         /\ text \in Seq(Nat)
<1>1. DOMAIN text = 1..Len(text) /\ Len(text) \in Nat
  OBVIOUS
<1>2. \A i \in 1..Len(text) : text[i] \in S
  BY ElementOfSeq
<1>3. text \in Seq(Nat)
  BY SeqMonotonic
<1> DEFINE other == [i \in DOMAIN text |-> text[i] % m]
<1>4. \A i \in 1..Len(text) : other[i] = text[i]
  BY <1>1, <1>2
<1>5. other = [i \in 1..Len(text) |-> text[i]]
  BY <1>1, <1>4
<1>6. other \in Seq(S) /\ Len(other) = Len(text)
  BY <1>5, <1>2, <1>1
<1> HIDE DEF other
<1>7. other = text
  BY <1>4, <1>6, SeqEqual
<1> QED BY <1>3, <1>7 DEF other

LEMMA Ascii ==
  ASSUME NEW text \in Seq(0..127)
  PROVE  FromBytes(text) = text /\ ToBytes(text) = text /\ text \in Seq(Nat)
<1>1. \A c \in 0..127 : c % 128 = c /\ c % 256 = c
  BY SMT
<1>2. 0..127 \subseteq Nat
  OBVIOUS
<1> DEFINE S == 0..127
<1>3. S \subseteq Nat /\ text \in Seq(S) /\ \A c \in S : c % 128 = c /\ c % 256 = c
  BY <1>1, <1>2
<1> HIDE DEF S
<1>4. [i \in DOMAIN text |-> text[i] % 128] = text /\ text \in Seq(Nat)
  BY <1>3, SameText
<1>5. [i \in DOMAIN text |-> text[i] % 256] = text
  BY <1>3, SameText
<1> QED BY <1>4, <1>5 DEF FromBytes, ToBytes

LEMMA Concat ==
  ASSUME NEW u \in Seq(Nat), NEW v \in Seq(Nat)
  PROVE  /\ u \o v \in Seq(Nat) /\ Len(u \o v) = Len(u) + Len(v)
         /\ Len(u) \in Nat /\ Len(v) \in Nat
  OBVIOUS

LEMMA Prefix1 ==
  ASSUME NEW w \in Seq(Nat), NEW cut \in Nat, NEW s, s = SubSeq(w, 1, Len(w) - cut)
  PROVE  /\ s \in Seq(Nat)
         /\ Len(s) = IF cut <= Len(w) THEN Len(w) - cut ELSE 0
         /\ HasAt(s, 1, w)
<1>1. Len(w) \in Nat
  OBVIOUS
<1>2. CASE cut <= Len(w)
  <2> DEFINE m == Len(w) - cut
  <2>1. m \in Nat /\ m <= Len(w) /\ s = SubSeq(w, 1, m)
    BY <1>1, <1>2
  <2> HIDE DEF m
  <2>2. s \in Seq(Nat) /\ Len(s) = m
    BY <2>1, <1>1
  <2>3. \A i \in 1..m : s[i] = w[i]
    BY <2>1, <1>1
  <2>4. ASSUME NEW i \in 1..Len(w), 1 + i - 1 <= Len(s) PROVE s[1 + i - 1] = w[i]
    <3>1. 1 + i - 1 = i /\ i \in 1..m
      BY <1>1, <2>1, <2>2, <2>4
    <3> QED BY <2>3, <3>1
  <2>5. HasAt(s, 1, w)
    BY <2>4 DEF HasAt
  <2> QED BY <1>2, <2>2, <2>5 DEF m
<1>3. CASE cut > Len(w)
  <2> DEFINE m == Len(w) - cut
  <2>1. m \in Int /\ m < 0 /\ s = SubSeq(w, 1, m)
    BY <1>1, <1>3
  <2> HIDE DEF m
  <2>2. s = <<>>
    BY <2>1
  <2> QED BY <2>2, <1>1, <1>3 DEF HasAt
<1> QED BY <1>1, <1>2, <1>3

LEMMA HasParts ==
  ASSUME NEW s \in Seq(Nat), NEW pos \in Nat \ {0}, NEW u \in Seq(Nat), NEW v \in Seq(Nat),
         NEW w, w = u \o v, HasAt(s, pos, w)
  PROVE  HasAt(s, pos, u) /\ HasAt(s, pos + Len(u), v)
<1>0. Len(u) \in Nat /\ Len(v) \in Nat /\ Len(s) \in Nat
  OBVIOUS
<1>1. /\ Len(w) = Len(u) + Len(v)
      /\ \A i \in 1..Len(u) : w[i] = u[i]
      /\ \A i \in 1..Len(v) : w[Len(u) + i] = v[i]
  BY <1>0, ConcatProperties, SMTT(30)
<1>2. \A i \in 1..Len(w) : pos + i - 1 <= Len(s) => s[pos + i - 1] = w[i]
  BY DEF HasAt
<1>3. ASSUME NEW i \in 1..Len(u), pos + i - 1 <= Len(s) PROVE s[pos + i - 1] = u[i]
  <2>1. i \in 1..Len(w)
    BY <1>0, <1>1
  <2> QED BY <2>1, <1>1, <1>2, <1>3
<1>4. ASSUME NEW i \in 1..Len(v), pos + Len(u) + i - 1 <= Len(s)
      PROVE  s[pos + Len(u) + i - 1] = v[i]
  <2>1. Len(u) + i \in 1..Len(w) /\ pos + (Len(u) + i) - 1 = pos + Len(u) + i - 1
    BY <1>0, <1>1
  <2>2. s[pos + (Len(u) + i) - 1] = w[Len(u) + i]
    BY <2>1, <1>2, <1>4
  <2> QED BY <2>1, <2>2, <1>1
<1> QED BY <1>3, <1>4 DEF HasAt

FiveAt(s, a, b, c, e, t, all, cut) ==
  /\ s \in Seq(Nat)
  /\ Len(s) = IF cut <= all THEN all - cut ELSE 0
  /\ HasAt(s, 1, a)
  /\ HasAt(s, 1 + Len(a), b)
  /\ HasAt(s, 1 + Len(a) + Len(b), c)
  /\ HasAt(s, 1 + Len(a) + Len(b) + Len(c), e)
  /\ HasAt(s, 1 + Len(a) + Len(b) + Len(c) + Len(e), t)

LEMMA FiveParts ==
  ASSUME NEW a \in Seq(Nat), NEW b \in Seq(Nat), NEW c \in Seq(Nat), NEW e \in Seq(Nat),
         NEW t \in Seq(Nat), NEW cut \in Nat, NEW s,
         s = SubSeq(a \o b \o c \o e \o t, 1, Len(a \o b \o c \o e \o t) - cut)
  PROVE  FiveAt(s, a, b, c, e, t, Len(a) + Len(b) + Len(c) + Len(e) + Len(t), cut)
<1> DEFINE x == a \o b  y == x \o c  z == y \o e  w == z \o t
<1>1. x \in Seq(Nat) /\ Len(x) = Len(a) + Len(b)
  BY Concat
<1> HIDE DEF x
<1>2. y \in Seq(Nat) /\ Len(y) = Len(x) + Len(c)
  BY <1>1, Concat
<1> HIDE DEF y
<1>3. z \in Seq(Nat) /\ Len(z) = Len(y) + Len(e)
  BY <1>2, Concat
<1> HIDE DEF z
<1>4. w \in Seq(Nat) /\ Len(w) = Len(z) + Len(t)
  BY <1>3, Concat
<1>5. s = SubSeq(w, 1, Len(w) - cut)
  BY DEF x, y, z
<1> HIDE DEF w
<1>6. /\ Len(a) \in Nat /\ Len(b) \in Nat /\ Len(c) \in Nat /\ Len(e) \in Nat
      /\ Len(t) \in Nat /\ 1 \in Nat \ {0}
  OBVIOUS
<1>7. /\ s \in Seq(Nat)
      /\ Len(s) = IF cut <= Len(w) THEN Len(w) - cut ELSE 0
      /\ HasAt(s, 1, w)
  BY <1>4, <1>5, Prefix1
<1>8. HasAt(s, 1, z) /\ HasAt(s, 1 + Len(z), t)
  BY <1>3, <1>7, <1>6, HasParts, Zenon DEF w
<1>9. HasAt(s, 1, y) /\ HasAt(s, 1 + Len(y), e)
  BY <1>2, <1>7, <1>8, <1>6, HasParts, Zenon DEF z
<1>10. HasAt(s, 1, x) /\ HasAt(s, 1 + Len(x), c)
  BY <1>1, <1>7, <1>9, <1>6, HasParts, Zenon DEF y
<1>11. HasAt(s, 1, a) /\ HasAt(s, 1 + Len(a), b)
  BY <1>7, <1>10, <1>6, HasParts, Zenon DEF x
<1>12. /\ Len(w) = Len(a) + Len(b) + Len(c) + Len(e) + Len(t)
       /\ 1 + Len(z) = 1 + Len(a) + Len(b) + Len(c) + Len(e)
       /\ 1 + Len(y) = 1 + Len(a) + Len(b) + Len(c)
       /\ 1 + Len(x) = 1 + Len(a) + Len(b)
  BY <1>1, <1>2, <1>3, <1>4, <1>6
<1> QED BY <1>7, <1>8, <1>9, <1>10, <1>11, <1>12 DEF FiveAt

LEMMA PushIsSeq ==
  ASSUME NEW data \in Seq(Nat), Fits(Len(data))
  PROVE  PushData(data) \in Seq(Nat) /\ Len(PushData(data)) >= 1 + Len(data)
<1>0. Len(data) \in Nat
  OBVIOUS
<1>1. PICK op \in 0..OP_PUSHDATA4, w \in {0, 1, 2, 4} : HeaderParts(Len(data), op, w)
  BY <1>0, HeaderHasParts
<1>2. PushParts(PushData(data), op, w, data)
  BY <1>1, PushBytes, Zenon
<1> QED BY <1>0, <1>2 DEF PushParts

RandBytes(o) == [i \in 1..o.rand |-> RAND_BYTE]

LEMMA OutputParts ==
  ASSUME NEW o \in Outputs
  PROVE  /\ o.op \in Nat /\ o.cut \in Nat
         /\ o.name \in Seq(Nat) /\ o.name \in Seq(0..127) /\ Fits(Len(o.name))
         /\ o.doc \in Documents /\ o.doc.size \in Nat \ {0}
         /\ Encoded(o.doc) \in Seq(Nat) /\ Len(Encoded(o.doc)) = o.doc.size
         /\ Fits(Len(Encoded(o.doc)))
         /\ o.rand # Null => /\ o.rand \in Nat /\ RandBytes(o) \in Seq(Nat)
                             /\ Len(RandBytes(o)) = o.rand /\ Fits(Len(RandBytes(o)))
<1>1. /\ o.op \in 0..255 /\ o.cut \in Nat
      /\ o.name \in Seq(0..127) /\ Fits(Len(o.name))
      /\ o.doc \in Documents
      /\ o.rand # Null => o.rand \in Nat /\ Fits(o.rand)
  BY OutputsAssumption
<1>2. o.name \in Seq(Nat)
  BY <1>1, Ascii
<1>3. o.doc.size \in Nat \ {0} /\ Fits(o.doc.size) /\ o.doc.mark \in 0..255
  BY <1>1, OutputsAssumption
<1>4. Encoded(o.doc) \in Seq(Nat) /\ Len(Encoded(o.doc)) = o.doc.size
  BY <1>3 DEF Encoded
<1>5. ASSUME o.rand # Null
      PROVE  RandBytes(o) \in Seq(Nat) /\ Len(RandBytes(o)) = o.rand
  <2>1. o.rand \in Nat
    BY <1>1, <1>5
  <2> QED BY <2>1 DEF RandBytes, RAND_BYTE
<1>6. o.op \in Nat
  <2>1. 0..255 \subseteq Nat
    OBVIOUS
  <2> QED BY <1>1, <2>1, Zenon
<1> QED BY <1>1, <1>2, <1>3, <1>4, <1>5, <1>6, Zenon

LEMMA Places ==
  ASSUME NEW b \in Nat, NEW c \in Nat, NEW e \in Nat
  PROVE  /\ 1 + b + c + e + 3 = (((2 + b) + c) + e) + 2
         /\ 1 + 1 = 2 /\ 1 + 1 + b = 2 + b /\ 1 + 1 + b + c = (2 + b) + c
         /\ 1 + 1 + b + c + e = ((2 + b) + c) + e
         /\ ((2 + b) + c) + e \in Nat
  OBVIOUS

\* Where a script has what.
LEMMA ScriptParts ==
  ASSUME NEW o \in Outputs
  PROVE  LET s   == ScriptOf(o)
             n   == 2 + Len(PushData(o.name))
             d   == n + Len(RandOf(o))
             end == d + Len(PushData(Encoded(o.doc)))
         IN  /\ s \in Seq(Nat)
             /\ Len(PushData(o.name)) \in Nat /\ Len(PushData(o.name)) >= 1
             /\ Len(PushData(Encoded(o.doc))) \in Nat /\ Len(PushData(Encoded(o.doc))) >= 2
             /\ Len(RandOf(o)) \in Nat
             /\ Len(s) = IF o.cut <= end + 2 THEN end + 2 - o.cut ELSE 0
             /\ Len(s) >= 1 => s[1] = o.op
             /\ HasAt(s, 2, PushData(o.name))
             /\ HasAt(s, n, RandOf(o))
             /\ HasAt(s, d, PushData(Encoded(o.doc)))
             /\ end <= Len(s) => s[end] = 109
<1> DEFINE a == <<o.op>>  b == PushData(o.name)  c == RandOf(o)
           e == PushData(Encoded(o.doc))
           s == ScriptOf(o)
<1>1. /\ a \in Seq(Nat) /\ Len(a) = 1 /\ a[1] = o.op
      /\ TAIL \in Seq(Nat) /\ Len(TAIL) = 3 /\ TAIL[1] = 109
  <2>1. o.op \in Nat
    BY OutputParts
  <2>2. a \in Seq(Nat) /\ Len(a) = 1 /\ a[1] = o.op
    BY <2>1
  <2>3. TAIL \in Seq(Nat) /\ Len(TAIL) = 3 /\ TAIL[1] = 109
    BY DEF TAIL
  <2> QED BY <2>2, <2>3
<1>2. b \in Seq(Nat) /\ Len(b) >= 1
  <2>1. b \in Seq(Nat) /\ Len(b) >= 1 + Len(o.name) /\ Len(o.name) \in Nat
    BY OutputParts, PushIsSeq
  <2> HIDE DEF b
  <2> QED BY <2>1
<1>3. e \in Seq(Nat) /\ Len(e) >= 2
  <2>1. e \in Seq(Nat) /\ Len(e) >= 1 + Len(Encoded(o.doc))
    BY OutputParts, PushIsSeq
  <2>2. Len(Encoded(o.doc)) \in Nat \ {0}
    BY OutputParts
  <2> HIDE DEF e
  <2> QED BY <2>1, <2>2
<1>4. c \in Seq(Nat)
  <2>1. CASE o.rand = Null
    BY <2>1 DEF RandOf
  <2>2. CASE o.rand # Null
    BY <2>2, OutputParts, PushIsSeq DEF RandOf, RandBytes
  <2> QED BY <2>1, <2>2
<1>5. /\ s = SubSeq(a \o b \o c \o e \o TAIL, 1, Len(a \o b \o c \o e \o TAIL) - o.cut)
      /\ o.cut \in Nat
  BY OutputParts DEF ScriptOf
<1> HIDE DEF a, b, c, e, s
<1> DEFINE all == Len(a) + Len(b) + Len(c) + Len(e) + Len(TAIL)
<1>6. FiveAt(s, a, b, c, e, TAIL, all, o.cut)
  <2> DEFINE t == TAIL  cut == o.cut
  <2>1. /\ a \in Seq(Nat) /\ b \in Seq(Nat) /\ c \in Seq(Nat) /\ e \in Seq(Nat)
        /\ t \in Seq(Nat) /\ cut \in Nat
    BY <1>1, <1>2, <1>3, <1>4, <1>5
  <2>2. s = SubSeq(a \o b \o c \o e \o t, 1, Len(a \o b \o c \o e \o t) - cut)
    BY <1>5
  <2> HIDE DEF t, cut
  <2>3. FiveAt(s, a, b, c, e, t, Len(a) + Len(b) + Len(c) + Len(e) + Len(t), cut)
    BY <2>1, <2>2, FiveParts, Zenon
  <2> QED BY <2>3 DEF t, cut
<1>7. Len(b) \in Nat /\ Len(c) \in Nat /\ Len(e) \in Nat
  BY <1>2, <1>3, <1>4
<1> DEFINE n == 2 + Len(b)  d == n + Len(c)  end == d + Len(e)
<1>8. /\ all = end + 2 /\ 1 + Len(a) = 2 /\ 1 + Len(a) + Len(b) = n
      /\ 1 + Len(a) + Len(b) + Len(c) = d /\ 1 + Len(a) + Len(b) + Len(c) + Len(e) = end
      /\ end \in Nat
  BY <1>1, <1>7, Places DEF all, n, d, end
<1> HIDE DEF all, n, d, end
<1>9. /\ Len(s) = IF o.cut <= end + 2 THEN end + 2 - o.cut ELSE 0
      /\ HasAt(s, 2, b) /\ HasAt(s, n, c) /\ HasAt(s, d, e) /\ HasAt(s, end, TAIL)
      /\ HasAt(s, 1, a)
  <2>1. /\ HasAt(s, 1, a) /\ HasAt(s, 1 + Len(a), b) /\ HasAt(s, 1 + Len(a) + Len(b), c)
        /\ HasAt(s, 1 + Len(a) + Len(b) + Len(c), e)
        /\ HasAt(s, 1 + Len(a) + Len(b) + Len(c) + Len(e), TAIL)
    BY <1>6, Zenon DEF FiveAt
  <2>2. Len(s) = IF o.cut <= all THEN all - o.cut ELSE 0
    BY <1>6, Zenon DEF FiveAt
  <2>3. HasAt(s, 2, b) /\ HasAt(s, n, c) /\ HasAt(s, d, e) /\ HasAt(s, end, TAIL)
    BY <2>1, <1>8, Zenon
  <2>4. Len(s) = IF o.cut <= end + 2 THEN end + 2 - o.cut ELSE 0
    <3>1. all = end + 2
      BY <1>8, Zenon
    <3>2. o.cut \in Nat /\ end \in Nat
      BY <1>5, <1>8, Zenon
    <3> QED BY <2>2, <3>1, <3>2
  <2> QED BY <2>1, <2>3, <2>4
<1>10. Len(s) >= 1 => s[1] = o.op
  BY <1>9, <1>1 DEF HasAt
<1>11. end <= Len(s) => s[end] = 109
  <2>1. 1 \in 1..Len(TAIL) /\ end + 1 - 1 = end
    BY <1>1, <1>8
  <2> QED BY <1>9, <2>1, <1>1 DEF HasAt
<1>12. s \in Seq(Nat)
  BY <1>6 DEF FiveAt
<1> QED BY <1>2, <1>3, <1>12, <1>7, <1>9, <1>10, <1>11, Zenon DEF a, b, c, e, s, n, d, end

LEMMA PushIsNotNull ==
  ASSUME NEW data \in Seq(Nat), NEW n \in Nat
  PROVE  [data |-> data, next |-> n] # Null
<1>1. [data |-> data, next |-> n] \in [data : Seq(Nat), next : Nat]
  OBVIOUS
<1> QED BY <1>1, NullAssumption

LEMMA ResultIsNotNull ==
  ASSUME NEW name \in Seq(Nat), NEW value \in Seq(Nat)
  PROVE  [name |-> name, value |-> value] # Null
<1>1. [name |-> name, value |-> value] \in [name : Seq(Nat), value : Seq(Nat)]
  OBVIOUS
<1> QED BY <1>1, NullAssumption

LEMMA ParseUnfolds ==
  ASSUME NEW s, NEW name \in Seq(0..127), NEW n \in Nat, NEW second, NEW pos,
         ReadPushData(s, 2) = [data |-> name, next |-> n],
         second = ReadPushData(s, n),
         pos = IF /\ s[1] = OP_NAME_FIRSTUPDATE
                  /\ second # Null
                  /\ Len(second.data) = RAND_LEN
               THEN second.next ELSE n
  PROVE  ParseNameScript(s) =
           IF Len(s) < 4 \/ s[1] \notin NameOps \/ ReadPushData(s, pos) = Null THEN Null
           ELSE [name |-> name, value |-> ReadPushData(s, pos).data]
<1>1. FromBytes(name) = name /\ name \in Seq(Nat)
  BY Ascii
<1>2. [data |-> name, next |-> n] # Null
  BY <1>1, PushIsNotNull, Zenon
<1>3. CASE Len(s) < 4 \/ s[1] \notin NameOps
  BY <1>3 DEF ParseNameScript, NameOps
<1>4. CASE ~(Len(s) < 4 \/ s[1] \notin NameOps)
  <2> DEFINE first == ReadPushData(s, 2)
  <2>1. first # Null /\ first.data = name /\ first.next = n
    BY <1>2
  <2> HIDE DEF first
  <2>2. ParseNameScript(s) =
          IF first = Null \/ ReadPushData(s, pos) = Null THEN Null
          ELSE [name |-> FromBytes(first.data), value |-> ReadPushData(s, pos).data]
    BY <1>4, <2>1 DEF ParseNameScript, NameOps, first
  <2> QED BY <1>1, <1>4, <2>1, <2>2
<1> QED BY <1>3, <1>4

LEMMA NoFirstPush ==
  ASSUME NEW s, ReadPushData(s, 2) = Null
  PROVE  ParseNameScript(s) = Null
BY DEF ParseNameScript

\* What is read at each place of a script.
ReadsAre(o, s, n, d, end) ==
  /\ n \in Nat /\ d \in Nat /\ end \in Nat /\ Len(s) \in Nat
  /\ 3 <= n /\ n <= d /\ d + 2 <= end
  /\ o.cut <= 3 <=> end <= Len(s) + 1
  /\ Len(s) >= 1 => s[1] = o.op
  /\ ReadPushData(s, 2) = IF n <= Len(s) + 1 THEN [data |-> o.name, next |-> n] ELSE Null
  /\ o.rand = Null => n = d
  /\ o.rand # Null =>
       ReadPushData(s, n) = IF d <= Len(s) + 1 THEN [data |-> RandBytes(o), next |-> d] ELSE Null
  /\ ReadPushData(s, d) =
       IF end <= Len(s) + 1 THEN [data |-> Encoded(o.doc), next |-> end] ELSE Null
  /\ ReadPushData(s, end) = Null

LEMMA Reads ==
  ASSUME NEW o \in Outputs
  PROVE  \E n, d, end : ReadsAre(o, ScriptOf(o), n, d, end)
<1> DEFINE s   == ScriptOf(o)
           lb  == Len(PushData(o.name))
           lc  == Len(RandOf(o))
           le  == Len(PushData(Encoded(o.doc)))
           n   == 2 + lb
           d   == n + lc
           end == d + le
<1>1. /\ s \in Seq(Nat)
      /\ lb \in Nat /\ lb >= 1 /\ le \in Nat /\ le >= 2 /\ lc \in Nat
      /\ Len(s) = IF o.cut <= end + 2 THEN end + 2 - o.cut ELSE 0
      /\ Len(s) >= 1 => s[1] = o.op
      /\ HasAt(s, 2, PushData(o.name))
      /\ HasAt(s, n, RandOf(o))
      /\ HasAt(s, d, PushData(Encoded(o.doc)))
      /\ end <= Len(s) => s[end] = 109
  BY ScriptParts
<1> HIDE DEF s
<1>2. o.cut \in Nat /\ Len(s) \in Nat
  BY <1>1, OutputParts
<1>3. o.rand = Null => lc = 0
  BY DEF RandOf
<1>4. o.rand # Null => RandOf(o) = PushData(RandBytes(o))
  BY DEF RandOf, RandBytes
<1>5. ReadPushData(s, 2) = IF n <= Len(s) + 1 THEN [data |-> o.name, next |-> n] ELSE Null
  <2>1. 2 \in Nat \ {0} /\ o.name \in Seq(Nat) /\ Fits(Len(o.name))
    BY OutputParts
  <2> QED BY <2>1, <1>1, ReadBack
<1> HIDE DEF lb, lc, le
<1>6. n \in Nat \ {0} /\ d \in Nat \ {0} /\ end \in Nat /\ 3 <= n /\ n <= d /\ d + 2 <= end
  BY <1>1
<1>7. o.rand = Null => n = d
  BY <1>1, <1>3
<1>8. ASSUME o.rand # Null
      PROVE  ReadPushData(s, n) =
               IF d <= Len(s) + 1 THEN [data |-> RandBytes(o), next |-> d] ELSE Null
  <2>1. RandBytes(o) \in Seq(Nat) /\ Fits(Len(RandBytes(o)))
    BY <1>8, OutputParts
  <2>2. HasAt(s, n, PushData(RandBytes(o))) /\ d = n + Len(PushData(RandBytes(o)))
    BY <1>1, <1>4, <1>8 DEF lc
  <2> HIDE DEF n, d
  <2> QED BY <1>1, <1>6, <2>1, <2>2, ReadBack
<1>9. ReadPushData(s, d) =
        IF end <= Len(s) + 1 THEN [data |-> Encoded(o.doc), next |-> end] ELSE Null
  <2>1. Encoded(o.doc) \in Seq(Nat) /\ Fits(Len(Encoded(o.doc)))
    BY OutputParts
  <2>2. end = d + Len(PushData(Encoded(o.doc)))
    BY DEF le
  <2> HIDE DEF d, end
  <2> QED BY <1>1, <1>6, <2>1, <2>2, ReadBack
<1> HIDE DEF n, d, end
<1>10. ReadPushData(s, end) = Null
  <2>1. end > Len(s) \/ s[end] = 109
    BY <1>1, <1>2, <1>6
  <2> QED BY <2>1 DEF ReadPushData, OP_PUSHDATA4
<1>11. o.cut <= 3 <=> end <= Len(s) + 1
  BY <1>1, <1>2, <1>6
<1>12. ReadsAre(o, s, n, d, end)
  <2>1. Len(s) >= 1 => s[1] = o.op
    BY <1>1, Zenon
  <2>2. n \in Nat /\ d \in Nat /\ end \in Nat
    BY <1>6
  <2> QED BY <2>1, <2>2, <1>2, <1>5, <1>6, <1>7, <1>8, <1>9, <1>10, <1>11, Zenon DEF ReadsAre
<1> QED BY <1>12 DEF s

Said(o)    == [name |-> o.name, value |-> Encoded(o.doc)]
Misread(o) == [name |-> o.name, value |-> RandBytes(o)]

\* An operation is read as it was written; a push that does not belong there
\* can be taken for the value, and anything else is no operation.
LEMMA ScriptIsRead ==
  ASSUME NEW o \in Outputs
  PROVE  LET p == ParseNameScript(ScriptOf(o))
         IN  /\ Carries(o, o.name) => p = Said(o)
             /\ ~Carries(o, o.name) => p = Null \/ (Misshapen(o, o.name) /\ p = Misread(o))
<1> DEFINE s == ScriptOf(o)  p == ParseNameScript(s)
<1>1. PICK n, d, end : ReadsAre(o, s, n, d, end)
  BY Reads
<1> HIDE DEF s, p
<1> SUFFICES /\ Carries(o, o.name) => p = Said(o)
             /\ ~Carries(o, o.name) => p = Null \/ (Misshapen(o, o.name) /\ p = Misread(o))
  BY DEF s, p
<1>2. /\ n \in Nat /\ d \in Nat /\ end \in Nat /\ Len(s) \in Nat
      /\ 3 <= n /\ n <= d /\ d + 2 <= end
      /\ o.cut <= 3 <=> end <= Len(s) + 1
      /\ Len(s) >= 1 => s[1] = o.op
      /\ o.rand = Null => n = d
  BY <1>1 DEF ReadsAre
<1>3. /\ ReadPushData(s, 2) = IF n <= Len(s) + 1 THEN [data |-> o.name, next |-> n] ELSE Null
      /\ o.rand # Null =>
           ReadPushData(s, n) =
             IF d <= Len(s) + 1 THEN [data |-> RandBytes(o), next |-> d] ELSE Null
      /\ ReadPushData(s, d) =
           IF end <= Len(s) + 1 THEN [data |-> Encoded(o.doc), next |-> end] ELSE Null
      /\ ReadPushData(s, end) = Null
  BY <1>1, Zenon DEF ReadsAre
<1>4. Len(TAIL) = 3
  BY DEF TAIL
<1>5. Carries(o, o.name) => end <= Len(s) + 1 /\ Len(s) >= 4 /\ o.op \in NameOps
  BY <1>2, <1>4 DEF Carries
<1>6. /\ o.name \in Seq(Nat) /\ o.name \in Seq(0..127)
      /\ Encoded(o.doc) \in Seq(Nat) /\ Len(Encoded(o.doc)) = o.doc.size
      /\ o.rand # Null => RandBytes(o) \in Seq(Nat) /\ Len(RandBytes(o)) = o.rand
  BY OutputParts, Zenon
<1>7. CASE n > Len(s) + 1
  <2>1. ReadPushData(s, 2) = Null
    BY <1>2, <1>3, <1>7
  <2>2. p = Null
    BY <2>1, NoFirstPush, Zenon DEF p
  <2>3. ~Carries(o, o.name)
    BY <1>2, <1>5, <1>7
  <2> QED BY <2>2, <2>3
<1>8. CASE n <= Len(s) + 1 /\ (Len(s) < 4 \/ o.op \notin NameOps)
  <2>1. p = Null
    <3>1. Len(s) < 4 \/ s[1] \notin NameOps
      BY <1>2, <1>8
    <3> QED BY <3>1 DEF p, ParseNameScript, NameOps
  <2>2. ~Carries(o, o.name)
    BY <1>2, <1>5, <1>8
  <2> QED BY <2>1, <2>2
<1>9. CASE n <= Len(s) + 1 /\ Len(s) >= 4 /\ o.op \in NameOps
  <2> DEFINE second == ReadPushData(s, n)
             skip   == o.op = OP_NAME_FIRSTUPDATE /\ second # Null /\ Len(second.data) = RAND_LEN
             pos    == IF skip THEN second.next ELSE n
  <2>1. s[1] = o.op
    BY <1>2, <1>9
  <2>2. ReadPushData(s, 2) = [data |-> o.name, next |-> n]
    BY <1>3, <1>9
  <2>3. p = IF ReadPushData(s, pos) = Null THEN Null
            ELSE [name |-> o.name, value |-> ReadPushData(s, pos).data]
    <3>1. p = IF Len(s) < 4 \/ s[1] \notin NameOps \/ ReadPushData(s, pos) = Null THEN Null
              ELSE [name |-> o.name, value |-> ReadPushData(s, pos).data]
      <4>1. pos = IF /\ s[1] = OP_NAME_FIRSTUPDATE
                     /\ second # Null
                     /\ Len(second.data) = RAND_LEN
                  THEN second.next ELSE n
        BY <2>1
      <4>2. second = ReadPushData(s, n)
        OBVIOUS
      <4>3. n \in Nat /\ o.name \in Seq(0..127)
        BY <1>2, <1>6
      <4> HIDE DEF pos, second
      <4>4. ParseNameScript(s) =
              IF Len(s) < 4 \/ s[1] \notin NameOps \/ ReadPushData(s, pos) = Null THEN Null
              ELSE [name |-> o.name, value |-> ReadPushData(s, pos).data]
        BY <2>2, <4>1, <4>2, <4>3, ParseUnfolds, Zenon
      <4> QED BY <4>4 DEF p
    <3>2. ~(Len(s) < 4) /\ s[1] \in NameOps
      BY <1>2, <1>9, <2>1
    <3> HIDE DEF pos
    <3> QED BY <3>1, <3>2
  <2>4. CASE o.rand = Null /\ end > Len(s) + 1
    <3>1. second = Null /\ pos = n
      BY <1>2, <1>3, <2>4
    <3>2. p = Null
      BY <2>3, <3>1
    <3>3. ~Carries(o, o.name)
      BY <1>2, <1>5, <2>4
    <3> QED BY <3>2, <3>3
  <2>5. CASE o.rand = Null /\ end <= Len(s) + 1
    <3>1. /\ second = [data |-> Encoded(o.doc), next |-> end]
          /\ second # Null /\ second.data = Encoded(o.doc) /\ second.next = end
      <4>1. second = [data |-> Encoded(o.doc), next |-> end]
        BY <1>2, <1>3, <2>5
      <4>2. [data |-> Encoded(o.doc), next |-> end] # Null
        BY <1>2, <1>6, PushIsNotNull, Zenon
      <4> HIDE DEF second
      <4> QED BY <4>1, <4>2
    <3>2. skip <=> o.op = OP_NAME_FIRSTUPDATE /\ o.doc.size = RAND_LEN
      BY <3>1, <1>6
    <3>3. CASE skip
      <4>1. p = Null
        BY <1>3, <2>3, <3>1, <3>3
      <4>2. ~Carries(o, o.name)
        BY <2>5, <3>2, <3>3, NullAssumption DEF Carries, OP_NAME_FIRSTUPDATE, OP_NAME_UPDATE, RAND_LEN
      <4> QED BY <4>1, <4>2
    <3>4. CASE ~skip
      <4>1. p = Said(o)
        BY <2>3, <3>1, <3>4 DEF Said
      <4>2. Carries(o, o.name)
        BY <1>2, <1>4, <1>9, <2>5, <3>2, <3>4 DEF Carries, NameOps
      <4> QED BY <4>1, <4>2
    <3> QED BY <3>3, <3>4
  <2>6. CASE o.rand # Null /\ d > Len(s) + 1
    <3>1. second = Null /\ pos = n
      BY <1>2, <1>3, <2>6
    <3>2. p = Null
      BY <2>3, <3>1
    <3>3. ~Carries(o, o.name)
      BY <1>2, <1>5, <2>6
    <3> QED BY <3>2, <3>3
  <2>7. CASE o.rand # Null /\ d <= Len(s) + 1
    <3>1. /\ second = [data |-> RandBytes(o), next |-> d]
          /\ second # Null /\ second.data = RandBytes(o) /\ second.next = d
      <4>1. second = [data |-> RandBytes(o), next |-> d]
        BY <1>2, <1>3, <2>7
      <4>2. [data |-> RandBytes(o), next |-> d] # Null
        BY <1>2, <1>6, <2>7, PushIsNotNull, Zenon
      <4> HIDE DEF second
      <4> QED BY <4>1, <4>2
    <3>2. skip <=> o.op = OP_NAME_FIRSTUPDATE /\ o.rand = RAND_LEN
      BY <3>1, <1>6, <2>7
    <3>3. CASE skip
      <4>1. pos = d
        BY <3>1, <3>3
      <4>2. CASE end <= Len(s) + 1
        <5>1. /\ ReadPushData(s, d) # Null /\ ReadPushData(s, d).data = Encoded(o.doc)
          <6>1. ReadPushData(s, d) = [data |-> Encoded(o.doc), next |-> end]
            BY <1>3, <4>2
          <6>2. [data |-> Encoded(o.doc), next |-> end] # Null
            BY <1>2, <1>6, PushIsNotNull, Zenon
          <6> QED BY <6>1, <6>2
        <5>2. p = Said(o)
          BY <2>3, <4>1, <5>1 DEF Said
        <5>3. Carries(o, o.name)
          BY <1>2, <1>4, <1>9, <3>2, <3>3, <4>2 DEF Carries, NameOps
        <5> QED BY <5>2, <5>3
      <4>3. CASE end > Len(s) + 1
        <5>1. p = Null
          BY <1>2, <1>3, <2>3, <4>1, <4>3
        <5>2. ~Carries(o, o.name)
          BY <1>2, <1>5, <4>3
        <5> QED BY <5>1, <5>2
      <4> QED BY <4>2, <4>3, <1>2
    <3>4. CASE ~skip
      <4>1. p = Misread(o)
        BY <2>3, <3>1, <3>4 DEF Misread
      <4>2. ~Carries(o, o.name) /\ Misshapen(o, o.name)
        BY <1>9, <2>7, <3>2, <3>4 DEF Carries, Misshapen, NameOps
      <4> QED BY <4>1, <4>2
    <3> QED BY <3>3, <3>4
  <2> QED BY <2>4, <2>5, <2>6, <2>7, <1>2
<1> QED BY <1>7, <1>8, <1>9, <1>2

-----------------------------------------------------------------------------
(* What a transaction says. *)

LEMMA MinIs ==
  ASSUME NEW S \in SUBSET Nat, S # {}
  PROVE  Min(S) \in S
<1>1. PICK m \in S : \A n \in S : <<n, m>> \notin OpToRel(<, Nat)
  BY NatLessThanWellFounded, WFMin
<1>2. \A n \in S : m <= n
  <2>1. \A n \in S : ~(n < m)
    BY <1>1 DEF OpToRel
  <2> QED BY <2>1
<1> QED BY <1>2 DEF Min

ParsedOutput(o) == ParseNameScript(ScriptOf(o))

Ours(outs, name) ==
  {i \in DOMAIN outs : ParsedOutput(outs[i]) # Null /\ ParsedOutput(outs[i]).name = name}

Carrying(outs, name) == {i \in DOMAIN outs : Carries(outs[i], name)}

\* What the transaction with these outputs says of a name.
ValueIn(outs, name) ==
  IF Ours(outs, name) = {} THEN Null
  ELSE ParsedOutput(outs[Min(Ours(outs, name))]).value

LEMMA OursAre ==
  ASSUME NEW outs \in Seq(Outputs), NEW name
  PROVE  /\ DOMAIN outs \in SUBSET Nat
         /\ Carrying(outs, name) \subseteq Ours(outs, name)
         /\ \A i \in Carrying(outs, name) : ParsedOutput(outs[i]) = Said(outs[i])
         /\ \A i \in Ours(outs, name) :
              /\ outs[i] \in Outputs /\ outs[i].name = name
              /\ i \notin Carrying(outs, name) =>
                   Misshapen(outs[i], name) /\ ParsedOutput(outs[i]) = Misread(outs[i])
<1>1. /\ DOMAIN outs \in SUBSET Nat
      /\ \A i \in DOMAIN outs : outs[i] \in Outputs
  OBVIOUS
<1>2. ASSUME NEW i \in DOMAIN outs, Carries(outs[i], name)
      PROVE  /\ ParsedOutput(outs[i]) = Said(outs[i])
             /\ ParsedOutput(outs[i]) # Null /\ ParsedOutput(outs[i]).name = name
  <2> DEFINE o == outs[i]
  <2>1. o \in Outputs /\ o.name = name /\ Carries(o, o.name)
    BY <1>1, <1>2 DEF Carries
  <2> HIDE DEF o
  <2>2. ParsedOutput(o) = Said(o)
    BY <2>1, ScriptIsRead DEF ParsedOutput
  <2>3. Said(o) # Null /\ Said(o).name = name
    <3>1. o.name \in Seq(Nat) /\ Encoded(o.doc) \in Seq(Nat)
      BY <2>1, OutputParts, Zenon
    <3>2. [name |-> o.name, value |-> Encoded(o.doc)] # Null
      BY <3>1, ResultIsNotNull, Zenon
    <3> QED BY <3>2, <2>1 DEF Said
  <2> QED BY <2>2, <2>3 DEF o
<1>3. ASSUME NEW i \in DOMAIN outs,
             ParsedOutput(outs[i]) # Null, ParsedOutput(outs[i]).name = name
      PROVE  /\ outs[i].name = name
             /\ ~Carries(outs[i], name) =>
                  Misshapen(outs[i], name) /\ ParsedOutput(outs[i]) = Misread(outs[i])
  <2> DEFINE o == outs[i]
  <2>1. o \in Outputs
    BY <1>1
  <2> HIDE DEF o
  <2>2. \/ Carries(o, o.name) /\ ParsedOutput(o) = Said(o)
        \/ ~Carries(o, o.name) /\ Misshapen(o, o.name) /\ ParsedOutput(o) = Misread(o)
    <3>1. ParsedOutput(o) # Null
      BY <1>3 DEF o
    <3> QED BY <2>1, <3>1, ScriptIsRead DEF ParsedOutput
  <2>3. ParsedOutput(o).name = o.name
    BY <2>2 DEF Said, Misread
  <2>4. o.name = name
    BY <2>3, <1>3 DEF o
  <2> QED BY <2>2, <2>4 DEF o
<1> QED BY <1>1, <1>2, <1>3, Zenon DEF Ours, Carrying

\* The lookup finds what the transaction says: a name that an output carries
\* is listed under its script.
LEMMA ValueIsIn ==
  ASSUME vout \in Seq(Outputs), NEW name
  PROVE  ValueOf(name) = ValueIn(vout, name)
<1> DEFINE scripts == [i \in DOMAIN vout |-> Scripts[vout[i]]]
           listed == Listed(BuildNameIndexScript(ToBytes(name)))
<1>1. ValueOf(name) = IF listed THEN ParseNameFromTx(scripts, name) ELSE Null
  BY Zenon DEF ValueOf
<1>2. \A i \in DOMAIN vout : vout[i] \in Outputs
  OBVIOUS
<1>3. /\ DOMAIN scripts = DOMAIN vout
      /\ \A i \in DOMAIN vout : scripts[i] = ScriptOf(vout[i])
  BY <1>2 DEF Scripts
<1> HIDE DEF scripts, listed
<1>4. ParseNameFromTx(scripts, name) = ValueIn(vout, name)
  <2> DEFINE parsed == [i \in DOMAIN scripts |-> ParseNameScript(scripts[i])]
             ours   == {i \in DOMAIN scripts : parsed[i] # Null /\ parsed[i].name = name}
  <2>1. \A i \in DOMAIN vout : parsed[i] = ParsedOutput(vout[i])
    BY <1>3 DEF ParsedOutput
  <2>2. ours = Ours(vout, name)
    <3> HIDE DEF parsed
    <3> QED BY <1>3, <2>1 DEF Ours
  <2>3. ours # {} => parsed[Min(ours)] = ParsedOutput(vout[Min(ours)])
    <3>1. ours \in SUBSET Nat
      BY <1>3
    <3>2. ours \subseteq DOMAIN vout
      BY <1>3
    <3> HIDE DEF ours, parsed
    <3>3. ASSUME ours # {} PROVE Min(ours) \in DOMAIN vout
      BY <3>1, <3>2, <3>3, MinIs
    <3> QED BY <3>3, <2>1
  <2>4. ParseNameFromTx(scripts, name) =
          IF ours = {} THEN Null ELSE parsed[Min(ours)].value
    BY Zenon DEF ParseNameFromTx
  <2> HIDE DEF ours, parsed
  <2> QED BY <2>2, <2>3, <2>4 DEF ValueIn
<1>5. ASSUME ~listed PROVE Ours(vout, name) = {}
  <2>1. SUFFICES ASSUME NEW i \in Ours(vout, name) PROVE FALSE
    OBVIOUS
  <2>2. i \in DOMAIN vout /\ vout[i] \in Outputs /\ vout[i].name = name
    <3>1. i \in DOMAIN vout
      BY DEF Ours
    <3> QED BY <3>1, OursAre
  <2>3. ToBytes(name) = vout[i].name
    BY <2>2, OutputParts, Ascii
  <2> QED BY <1>5, <2>2, <2>3 DEF listed, Listed
<1> QED BY <1>1, <1>4, <1>5 DEF ValueIn

\* The bytes of a rand are no document, and each document has its own.
LEMMA RandIsNoDocument ==
  ASSUME NEW o \in Outputs, o.rand # Null
  PROVE  Json(RandBytes(o)) = Null
<1>1. SUFFICES ASSUME NEW d \in Documents, Encoded(d) = RandBytes(o) PROVE FALSE
  BY DEF Json
<1>2. d.size \in Nat \ {0} /\ d.mark # RAND_BYTE
  BY OutputsAssumption
<1>3. o.rand \in Nat
  BY OutputParts, Zenon
<1>4. DOMAIN Encoded(d) = 1..d.size /\ 1 \in 1..d.size
  BY <1>2 DEF Encoded
<1>5. Encoded(d)[1] = d.mark
  BY <1>4 DEF Encoded
<1>6. RandBytes(o)[1] = RAND_BYTE
  BY <1>1, <1>4 DEF RandBytes
<1> QED BY <1>1, <1>2, <1>5, <1>6

LEMMA DocumentIsRead ==
  ASSUME NEW d \in Documents
  PROVE  Json(Encoded(d)) = d
<1>1. ASSUME NEW e \in Documents, Encoded(e) = Encoded(d) PROVE e = d
  <2>1. e.size \in Nat \ {0} /\ d.size \in Nat \ {0}
    BY OutputsAssumption
  <2>2. /\ Len(Encoded(e)) = e.size /\ Encoded(e)[1] = e.mark
        /\ Len(Encoded(d)) = d.size /\ Encoded(d)[1] = d.mark
    BY <2>1 DEF Encoded
  <2>3. e.size = d.size /\ e.mark = d.mark
    BY <1>1, <2>2
  <2> QED BY <2>3, OutputsAssumption
<1> DEFINE same == {e \in Documents : Encoded(e) = Encoded(d)}
<1>2. Json(Encoded(d)) = CHOOSE e \in Documents : Encoded(e) = Encoded(d)
  BY DEF Json
<1> QED BY <1>1, <1>2

LEMMA ValueInIsTheOwners ==
  ASSUME NEW outs \in Seq(Outputs), NEW name
  PROVE  LET value == ValueIn(outs, name)
             carrying == Carrying(outs, name)
         IN  /\ value # Null /\ Json(value) # Null =>
                  \E i \in carrying : Encoded(outs[i].doc) = value
             /\ (\A i \in DOMAIN outs : ~Misshapen(outs[i], name)) =>
                  value = IF carrying = {} THEN Null
                          ELSE Encoded(outs[Min(carrying)].doc)
<1> DEFINE value == ValueIn(outs, name)
           carrying == Carrying(outs, name)
           ours == Ours(outs, name)
<1>1. /\ carrying \subseteq ours /\ ours \subseteq DOMAIN outs /\ ours \in SUBSET Nat
      /\ carrying \in SUBSET Nat
  BY OursAre DEF Ours, Carrying
<1>2. \A i \in carrying : ParsedOutput(outs[i]).value = Encoded(outs[i].doc)
  <2>1. \A i \in carrying : ParsedOutput(outs[i]) = Said(outs[i])
    BY OursAre
  <2>2. \A o : Said(o).value = Encoded(o.doc)
    BY DEF Said
  <2> QED BY <2>1, <2>2, Zenon
<1>3. \A i \in ours : i \notin carrying =>
        /\ Misshapen(outs[i], name) /\ outs[i] \in Outputs
        /\ ParsedOutput(outs[i]).value = RandBytes(outs[i])
  <2>1. \A i \in ours : i \notin carrying =>
          /\ Misshapen(outs[i], name) /\ outs[i] \in Outputs
          /\ ParsedOutput(outs[i]) = Misread(outs[i])
    BY OursAre
  <2>2. \A o : Misread(o).value = RandBytes(o)
    BY DEF Misread
  <2> QED BY <2>1, <2>2, Zenon
<1>4. value = IF ours = {} THEN Null ELSE ParsedOutput(outs[Min(ours)]).value
  BY DEF ValueIn
<1> HIDE DEF value, carrying, ours
<1>5. ours # {} => Min(ours) \in ours
  BY <1>1, MinIs
<1>6. ASSUME value # Null, Json(value) # Null
      PROVE  \E i \in carrying : Encoded(outs[i].doc) = value
  <2> DEFINE m == Min(ours)
  <2>1. m \in ours /\ value = ParsedOutput(outs[m]).value
    BY <1>4, <1>5, <1>6
  <2> HIDE DEF m
  <2>2. CASE m \in carrying
    BY <1>2, <2>1, <2>2
  <2>3. CASE m \notin carrying
    <3>1. outs[m] \in Outputs /\ outs[m].rand # Null /\ value = RandBytes(outs[m])
      BY <1>3, <2>1, <2>3 DEF Misshapen
    <3> QED BY <3>1, <1>6, RandIsNoDocument
  <2> QED BY <2>2, <2>3
<1>7. ASSUME \A i \in DOMAIN outs : ~Misshapen(outs[i], name)
      PROVE  value = IF carrying = {} THEN Null ELSE Encoded(outs[Min(carrying)].doc)
  <2>1. ours = carrying
    BY <1>1, <1>3, <1>7
  <2> QED BY <2>1, <1>2, <1>4, <1>5
<1> QED BY <1>6, <1>7 DEF value, carrying

-----------------------------------------------------------------------------
(* A resolve. *)

AnswerFor(parsed, value) ==
  LET doc == IF value = Null THEN Null ELSE Json(value)
      key == ExtractFromValue(doc, parsed.localPart, parsed.namecoinName)
  IN  IF key # Null THEN key
      ELSE IF ClassifyParseFailure(doc) THEN "parse-failure"
      ELSE "success-negative"

ValueFor(id, outs) == ValueIn(outs, ParseIdentifier(id).namecoinName)

Asked(id, outs, answer) ==
  [id |-> id, parsed |-> ParseIdentifier(id), value |-> ValueFor(id, outs), answer |-> answer]

Rejected(id) == [id |-> id, parsed |-> Null, value |-> Null, answer |-> "not namecoin"]

\* How far the resolve has come, it has from the identifier and from the
\* transaction, which is not written any more once it is looked up.
LookupInv ==
  /\ vout \in Seq(Outputs)
  /\ \/ lookup = Unasked
     \/ \E id \in Identifiers : lookup = Rejected(id)
     \/ \E id \in Identifiers :
          /\ ParseIdentifier(id) # Null
          /\ lookup \in {Asked(id, vout, Null),
                         Asked(id, vout, AnswerFor(ParseIdentifier(id), ValueFor(id, vout)))}

\* LookupInv holds throughout.
THEOREM LookupIsFollowed == ResolutionSpec => []LookupInv
<1>1. ResolutionInit => LookupInv
  BY DEF ResolutionInit, LookupInv
<1>2. LookupInv /\ [ResolutionNext]_<<vout, lookup>> => LookupInv'
  <2> SUFFICES ASSUME LookupInv, [ResolutionNext]_<<vout, lookup>> PROVE LookupInv'
    OBVIOUS
  <2>1. vout \in Seq(Outputs)
    BY DEF LookupInv
  <2>2. ASSUME NEW o \in Outputs, Pay(o) PROVE LookupInv'
    <3>1. vout' \in Seq(Outputs)
      BY <2>1, <2>2 DEF Pay
    <3>2. lookup' = Unasked
      BY <2>2 DEF Pay
    <3> QED BY <3>1, <3>2 DEF LookupInv, Unasked
  <2>3. ASSUME NEW id \in Identifiers, Resolve(id) PROVE LookupInv'
    <3>1. vout' = vout
      BY <2>3 DEF Resolve
    <3>2. CASE ParseIdentifier(id) = Null
      <4>1. lookup' = Rejected(id)
        BY <2>3, <3>2 DEF Resolve, Unasked, Rejected
      <4> QED BY <2>1, <3>1, <4>1, Zenon DEF LookupInv
    <3>3. CASE ParseIdentifier(id) # Null
      <4>1. lookup' = Asked(id, vout, Null)
        <5>1. ValueOf(ParseIdentifier(id).namecoinName) = ValueFor(id, vout)
          BY <2>1, ValueIsIn DEF ValueFor
        <5> QED BY <2>3, <3>3, <5>1 DEF Resolve, Asked
      <4> QED BY <2>1, <3>1, <3>3, <4>1, Zenon DEF LookupInv
    <3> QED BY <3>2, <3>3
  <2>4. ASSUME Conclude PROVE LookupInv'
    <3>1. vout' = vout /\ lookup.id # Null /\ lookup.answer = Null
      BY <2>4 DEF Conclude
    <3>2. PICK id \in Identifiers :
            /\ ParseIdentifier(id) # Null
            /\ lookup \in {Asked(id, vout, Null),
                           Asked(id, vout, AnswerFor(ParseIdentifier(id), ValueFor(id, vout)))}
      <4>1. lookup # Unasked
        BY <3>1 DEF Unasked
      <4>2. \A id \in Identifiers : lookup # Rejected(id)
        <5>1. \A i : Rejected(i).answer = "not namecoin"
          BY DEF Rejected
        <5>2. Null # "not namecoin"
          BY AnswersAssumption
        <5> QED BY <3>1, <5>1, <5>2, Zenon
      <4> QED BY <4>1, <4>2, Zenon DEF LookupInv
    <3>3. /\ lookup.parsed = ParseIdentifier(id) /\ lookup.value = ValueFor(id, vout)
          /\ \A a : [lookup EXCEPT !.answer = a] = Asked(id, vout, a)
      BY <3>2 DEF Asked
    <3>4. lookup' = [lookup EXCEPT !.answer = AnswerFor(lookup.parsed, lookup.value)]
      BY <2>4, Zenon DEF Conclude, AnswerFor
    <3>5. lookup' = Asked(id, vout, AnswerFor(ParseIdentifier(id), ValueFor(id, vout)))
      BY <3>3, <3>4, Zenon
    <3> QED BY <2>1, <3>1, <3>2, <3>5 DEF LookupInv
  <2>5. CASE UNCHANGED <<vout, lookup>>
    BY <2>5 DEF LookupInv
  <2> QED BY <2>2, <2>3, <2>4, <2>5 DEF ResolutionNext
<1> QED BY <1>1, <1>2, PTL DEF ResolutionSpec

\* What is in the lookup once the identifier is a name.
LEMMA LookupIs ==
  ASSUME LookupInv, lookup.parsed # Null
  PROVE  \E id \in Identifiers :
           /\ ParseIdentifier(id) # Null
           /\ lookup.id = id /\ lookup.parsed = ParseIdentifier(id)
           /\ lookup.value = ValueFor(id, vout)
           /\ \/ lookup.answer = Null
              \/ lookup.answer = AnswerFor(ParseIdentifier(id), ValueFor(id, vout))
<1>1. lookup # Unasked
  BY DEF Unasked
<1>2. \A id \in Identifiers : lookup # Rejected(id)
  <2>1. \A i : Rejected(i).parsed = Null
    BY DEF Rejected
  <2> QED BY <2>1, Zenon
<1>3. PICK id \in Identifiers :
        /\ ParseIdentifier(id) # Null
        /\ lookup \in {Asked(id, vout, Null),
                       Asked(id, vout, AnswerFor(ParseIdentifier(id), ValueFor(id, vout)))}
  BY <1>1, <1>2, Zenon DEF LookupInv
<1>4. \A a : /\ Asked(id, vout, a).id = id /\ Asked(id, vout, a).parsed = ParseIdentifier(id)
             /\ Asked(id, vout, a).value = ValueFor(id, vout) /\ Asked(id, vout, a).answer = a
  BY DEF Asked
<1> QED BY <1>3, <1>4

\* The value of a name is the one its owner wrote, for every transaction.
THEOREM NamesSayWhatOwnersWrote == ResolutionSpec => []ValueIsTheOwners
<1>1. LookupInv => ValueIsTheOwners
  <2> SUFFICES ASSUME LookupInv, lookup.parsed # Null PROVE ValueIsTheOwners
    BY DEF ValueIsTheOwners
  <2> DEFINE name == lookup.parsed.namecoinName
  <2>1. vout \in Seq(Outputs)
    BY DEF LookupInv
  <2>2. lookup.value = ValueIn(vout, name)
    BY LookupIs DEF ValueFor
  <2> HIDE DEF name
  <2>3. LET carrying == Carrying(vout, name)
        IN  /\ lookup.value # Null /\ Json(lookup.value) # Null =>
                 \E i \in carrying : Encoded(vout[i].doc) = lookup.value
            /\ (\A i \in DOMAIN vout : ~Misshapen(vout[i], name)) =>
                 lookup.value = IF carrying = {} THEN Null
                                ELSE Encoded(vout[Min(carrying)].doc)
    BY <2>1, <2>2, ValueInIsTheOwners
  <2> QED BY <2>3, Zenon DEF ValueIsTheOwners, Carrying, name
<1> QED BY <1>1, LookupIsFollowed, PTL

-----------------------------------------------------------------------------
(* The key that is granted. *)

\* A name of the namespace d/ is not taken for one of id/.
LEMMA OtherNamespace ==
  ASSUME NEW id \in Identifiers, ParseIdentifier(id) # Null, id.ns # "id"
  PROVE  ~IsPrefix(Prefix("id"), ParseIdentifier(id).namecoinName)
<1> DEFINE name == Prefix(id.ns) \o id.stem
<1>1. ParseIdentifier(id).namecoinName = name
  BY DEF ParseIdentifier
<1>2. Prefix(id.ns) = <<100, SLASH>> /\ Prefix("id") = <<105, 100, SLASH>>
  BY DEF Prefix
<1>3. id.stem \in Seq(Nat)
  BY AnswersAssumption
<1>4. name \in Seq(Nat) /\ name[1] = 100
  <2> DEFINE stem == id.stem
  <2> HIDE DEF stem
  <2>1. ASSUME NEW u \in Seq(Nat) PROVE <<100, SLASH>> \o u \in Seq(Nat) /\ (<<100, SLASH>> \o u)[1] = 100
    BY DEF SLASH
  <2> QED BY <1>2, <1>3, <2>1
<1> HIDE DEF name
<1>5. ASSUME IsPrefix(<<105, 100, SLASH>>, name) PROVE FALSE
  <2> DEFINE id3 == <<105, 100, SLASH>>
  <2>1. id3 \in Seq(Nat) /\ Len(id3) = 3 /\ id3[1] = 105
    BY DEF SLASH
  <2>2. 3 <= Len(name) /\ SubSeq(id3, 1, 3) = SubSeq(name, 1, 3)
    BY <1>5, <2>1 DEF IsPrefix
  <2> HIDE DEF id3
  <2>3. SubSeq(id3, 1, 3)[1] = 105
    BY <2>1
  <2>4. SubSeq(name, 1, 3)[1] = 100
    BY <1>4, <2>2
  <2> QED BY <2>2, <2>3, <2>4
<1> QED BY <1>1, <1>2, <1>5

\* What a record grants to a local part.
Grants(doc, localPart, name, key) ==
  /\ doc # Null /\ doc.nostr # Null /\ key \in GrantedKeys(doc.nostr)
  /\ doc.nostr.text = Null /\ ~IsPrefix(Prefix("id"), name) =>
       IF localPart \in DOMAIN doc.nostr.names /\ doc.nostr.names[localPart] \in Keys
       THEN key = doc.nostr.names[localPart]
       ELSE localPart = "_" /\ key = doc.nostr.pubkey

LEMMA ExtractedIs ==
  ASSUME NEW doc, NEW localPart, NEW name, NEW key,
         key = ExtractFromValue(doc, localPart, name), key # Null
  PROVE  Grants(doc, localPart, name, key)
<1> DEFINE nostr == doc.nostr
           named == IF localPart \in DOMAIN nostr.names THEN nostr.names[localPart] ELSE Null
           said  == IF nostr.text # Null THEN nostr.text
                    ELSE IF IsPrefix(Prefix("id"), name) THEN nostr.pubkey
                    ELSE IF named \in Keys THEN named
                    ELSE IF localPart = "_" THEN nostr.pubkey
                    ELSE Null
<1>1. key = IF doc # Null /\ nostr # Null /\ said \in Keys THEN said ELSE Null
  BY Zenon DEF ExtractFromValue
<1>2. key = said /\ doc # Null /\ nostr # Null /\ said \in Keys
  BY <1>1
<1>3. Null \notin Keys
  BY AnswersAssumption
<1>4. named \in Keys <=> localPart \in DOMAIN nostr.names /\ nostr.names[localPart] \in Keys
  BY <1>3
<1>5. named \in Keys => localPart \in DOMAIN nostr.names /\ named = nostr.names[localPart]
  BY <1>3
<1> HIDE DEF named
<1>6. \/ said = nostr.text
      \/ said = nostr.pubkey
      \/ said = named /\ named \in Keys
  BY <1>2, <1>3
<1>7. nostr.text = Null /\ ~IsPrefix(Prefix("id"), name) =>
        IF named \in Keys THEN said = named ELSE localPart = "_" /\ said = nostr.pubkey
  BY <1>2, <1>3
<1> HIDE DEF said, nostr
<1>8. key \in GrantedKeys(nostr)
  BY <1>2, <1>5, <1>6 DEF GrantedKeys
<1>9. nostr.text = Null /\ ~IsPrefix(Prefix("id"), name) =>
        IF localPart \in DOMAIN nostr.names /\ nostr.names[localPart] \in Keys
        THEN key = nostr.names[localPart]
        ELSE localPart = "_" /\ key = nostr.pubkey
  BY <1>2, <1>4, <1>5, <1>7
<1> QED BY <1>2, <1>8, <1>9, Zenon DEF Grants, nostr

\* Nobody is given a key that the name's own record does not grant, for every
\* transaction, record and identifier.
THEOREM KeysAreGranted == ResolutionSpec => []KeyIsGranted
<1>1. LookupInv => KeyIsGranted
  <2> SUFFICES ASSUME LookupInv, lookup.answer \in Keys \cup {"success-negative"}
               PROVE  KeyIsGranted
    BY DEF KeyIsGranted
  <2> DEFINE name   == Prefix(lookup.id.ns) \o lookup.id.stem
             local  == IF lookup.id.local \in {Null, ""} THEN "_" ELSE lookup.id.local
             docs   == {vout[i].doc : i \in {j \in DOMAIN vout : Carries(vout[j], name)}}
             nostrs == {d.nostr : d \in docs} \ {Null}
             value  == lookup.value
             doc    == IF value = Null THEN Null ELSE Json(value)
             key    == ExtractFromValue(doc, local, name)
  <2>1. /\ Null \notin Keys /\ "not namecoin" \notin Keys /\ "parse-failure" \notin Keys
        /\ "success-negative" \notin Keys
    BY AnswersAssumption
  <2>2. lookup.answer # Null /\ lookup.answer # "not namecoin"
    BY <2>1, AnswersAssumption
  <2>3. lookup.parsed # Null
    <3>1. lookup # Unasked
      <4>1. Unasked.answer = Null
        BY DEF Unasked
      <4> QED BY <2>2, <4>1, Zenon
    <3>2. \A id \in Identifiers : lookup # Rejected(id)
      <4>1. \A id : Rejected(id).answer = "not namecoin"
        BY DEF Rejected
      <4> QED BY <2>2, <4>1, Zenon
    <3>3. PICK id \in Identifiers :
        /\ ParseIdentifier(id) # Null
        /\ lookup \in {Asked(id, vout, Null),
                       Asked(id, vout, AnswerFor(ParseIdentifier(id), ValueFor(id, vout)))}
      BY <3>1, <3>2, Zenon DEF LookupInv
    <3>4. \A a : Asked(id, vout, a).parsed = ParseIdentifier(id)
      BY DEF Asked
    <3> QED BY <3>3, <3>4
  <2>4. PICK id \in Identifiers :
          /\ ParseIdentifier(id) # Null
          /\ lookup.id = id /\ lookup.parsed = ParseIdentifier(id)
          /\ lookup.value = ValueFor(id, vout)
          /\ lookup.answer = AnswerFor(ParseIdentifier(id), ValueFor(id, vout))
    BY <2>2, <2>3, LookupIs, Zenon
  <2>5. ParseIdentifier(id) = [namecoinName |-> name, localPart |-> local]
    BY <2>4 DEF ParseIdentifier
  <2> HIDE DEF name, local
  <2>6. lookup.answer = IF key # Null THEN key
                        ELSE IF ClassifyParseFailure(doc) THEN "parse-failure"
                        ELSE "success-negative"
    <3>1. /\ ParseIdentifier(id).namecoinName = name /\ ParseIdentifier(id).localPart = local
          /\ ValueFor(id, vout) = value
      BY <2>4, <2>5
    <3> HIDE DEF value
    <3> QED BY <2>4, <3>1 DEF AnswerFor
  <2>7. vout \in Seq(Outputs) /\ value = ValueIn(vout, name)
    <3>1. vout \in Seq(Outputs)
      BY DEF LookupInv
    <3>2. ParseIdentifier(id).namecoinName = name
      BY <2>5
    <3> QED BY <2>4, <3>1, <3>2 DEF ValueFor
  <2>8. lookup.id.ns # "id" => ~IsPrefix(Prefix("id"), name)
    <3>1. ParseIdentifier(id).namecoinName = name
      BY <2>5
    <3> QED BY <2>4, <3>1, OtherNamespace
  <2> HIDE DEF value
  <2>9. ASSUME doc # Null, doc.nostr # Null PROVE doc.nostr \in nostrs
    <3>1. value # Null /\ Json(value) # Null /\ doc = Json(value)
      BY <2>9
    <3>2. PICK i \in Carrying(vout, name) : Encoded(vout[i].doc) = value
      BY <2>7, <3>1, ValueInIsTheOwners
    <3>3. i \in DOMAIN vout /\ Carries(vout[i], name) /\ vout[i] \in Outputs
      BY <2>7, <3>2 DEF Carrying
    <3>4. vout[i].doc \in Documents
      BY <3>3, OutputParts, Zenon
    <3>5. doc = vout[i].doc
      BY <3>1, <3>2, <3>4, DocumentIsRead
    <3> HIDE DEF doc
    <3>6. doc \in docs
      BY <3>3, <3>5
    <3> HIDE DEF docs
    <3> QED BY <2>9, <3>6
  <2> HIDE DEF docs
  <2>10. ASSUME lookup.answer \in Keys
         PROVE  \E nostr \in nostrs :
                  /\ lookup.answer \in GrantedKeys(nostr)
                  /\ nostr.text = Null /\ lookup.id.ns # "id" =>
                       IF local \in DOMAIN nostr.names /\ nostr.names[local] \in Keys
                       THEN lookup.answer = nostr.names[local]
                       ELSE local = "_" /\ lookup.answer = nostr.pubkey
    <3>1. key # Null /\ lookup.answer = key
      BY <2>1, <2>6, <2>10
    <3>2. key = ExtractFromValue(doc, local, name)
      OBVIOUS
    <3> HIDE DEF doc, key
    <3>3. Grants(doc, local, name, key)
      BY <3>1, <3>2, ExtractedIs, Zenon
    <3>4. /\ doc # Null /\ doc.nostr # Null /\ key \in GrantedKeys(doc.nostr)
          /\ doc.nostr.text = Null /\ ~IsPrefix(Prefix("id"), name) =>
               IF local \in DOMAIN doc.nostr.names /\ doc.nostr.names[local] \in Keys
               THEN key = doc.nostr.names[local]
               ELSE local = "_" /\ key = doc.nostr.pubkey
      BY <3>3, Zenon DEF Grants
    <3> HIDE DEF nostrs
    <3> QED BY <2>8, <2>9, <3>1, <3>4
  <2>11. ASSUME lookup.answer = "success-negative" PROVE nostrs # {}
    <3>1. key = Null
      <4>1. ASSUME key # Null PROVE FALSE
        <5>1. key \in Keys
          <6> HIDE DEF doc
          <6> QED BY <4>1 DEF ExtractFromValue
        <5>2. lookup.answer = key
          BY <2>6, <4>1
        <5> QED BY <2>1, <2>11, <5>1, <5>2
      <4> QED BY <4>1
    <3>2. ~ClassifyParseFailure(doc)
      BY <2>6, <2>11, <3>1
    <3>3. doc # Null /\ doc.nostr # Null
      BY <3>2 DEF ClassifyParseFailure
    <3> QED BY <2>9, <3>3
  <2> HIDE DEF nostrs
  <2> QED BY <2>10, <2>11, Zenon DEF KeyIsGranted, nostrs, docs, name, local
<1> QED BY <1>1, LookupIsFollowed, PTL

\* A behaviour of the run writes a document or a transaction: what is proved
\* of either holds of it.
THEOREM InputsAreApart == InputsSpec => TagsSpec /\ ResolutionSpec
<1>1. InputsInit => TagsInit /\ ResolutionInit
  BY DEF InputsInit
<1>2. [InputsNext]_<<tagsVars, vout, lookup>> =>
        [TagsNext]_tagsVars /\ [ResolutionNext]_<<vout, lookup>>
  BY DEF InputsNext
<1> QED BY <1>1, <1>2, PTL DEF InputsSpec, TagsSpec, ResolutionSpec

-----------------------------------------------------------------------------
(* The rate limiter. *)

USE TokenBucketAssumption DEF TokenBucketAssumption

\* A refill never leaves more than the bucket holds.
LEMMA RefilledBounds ==
  ASSUME tokens \in 0..CAPACITY, accrued \in 0..CAPACITY
  PROVE  Refilled \in 0..CAPACITY
  BY DEF Refilled, AtMost

LEMMA WaitForInt ==
  ASSUME tokens \in 0..CAPACITY, accrued \in 0..CAPACITY, NEW waited \in Nat
  PROVE  WaitFor(waited) \in Int
<1>1. (TOKEN - Refilled + RPS - 1) \div RPS \in Int
  BY RefilledBounds
<1> QED BY <1>1 DEF WaitFor, WaitForToken, AtLeast, AtMost

LEMMA GrantedType ==
  ASSUME TypeOK, NEW c \in Callers, NEW since \in Acquire
  PROVE  Granted(c, since) \in [Callers -> Acquire]
<1>1. [since EXCEPT !.pc = "granted", !.sleep = 0] \in Acquire
  <2>1. [since EXCEPT !.pc = "granted"] \in Acquire
    BY DEF Acquire
  <2>2. ASSUME NEW n \in Int
        PROVE  [since EXCEPT !.pc = "granted", !.sleep = n] \in Acquire
    BY <2>1 DEF Acquire
  <2>3. 0 \in Int
    OBVIOUS
  <2> QED BY <2>2, <2>3, Zenon
<1>2. ASSUME NEW d \in Callers
      PROVE  acq[d] \in Acquire /\ [acq[d] EXCEPT !.outbid = @ + 1] \in Acquire
  <2>1. acq[d] \in Acquire
    BY DEF TypeOK
  <2>2. acq[d].outbid + 1 \in Nat
    BY <2>1 DEF Acquire
  <2> QED BY <2>1, <2>2 DEF Acquire
<1> QED BY <1>1, <1>2 DEF Granted

LEMMA DeniedType ==
  ASSUME TypeOK, NEW c \in Callers, NEW since \in Acquire
  PROVE  Denied(c, since) \in [Callers -> Acquire]
<1>1. WaitFor(since.waited) \in Int
  BY WaitForInt DEF TypeOK, Acquire
<1>2. /\ [since EXCEPT !.pc = "refused", !.sleep = 0] \in Acquire
      /\ [since EXCEPT !.pc = "waiting", !.sleep = WaitFor(since.waited)] \in Acquire
  <2>1. /\ [since EXCEPT !.pc = "refused"] \in Acquire
        /\ [since EXCEPT !.pc = "waiting"] \in Acquire
    BY DEF Acquire
  <2>2. ASSUME NEW n \in Int
        PROVE  /\ [since EXCEPT !.pc = "refused", !.sleep = n] \in Acquire
               /\ [since EXCEPT !.pc = "waiting", !.sleep = n] \in Acquire
    BY <2>1 DEF Acquire
  <2>3. 0 \in Int
    OBVIOUS
  <2> QED BY <1>1, <2>2, <2>3, Zenon
<1> QED BY <1>2 DEF Denied, TypeOK

LEMMA LookType ==
  ASSUME TypeOK, NEW c \in Callers, NEW since \in Acquire, Look(c, since)
  PROVE  TypeOK'
<1>1. Refilled \in 0..CAPACITY
  BY RefilledBounds DEF TypeOK
<1>2. accrued' = 0
  BY DEF Look
<1>3. CASE Take(c, since)
  BY <1>1, <1>2, <1>3, GrantedType DEF Take, TypeOK
<1>4. CASE Miss(c, since)
  BY <1>1, <1>2, <1>4, DeniedType DEF Miss, TypeOK
<1> QED BY <1>3, <1>4 DEF Look

\* Type correctness: the bucket never runs below empty or above the burst,
\* with callers looking at it in any order.
THEOREM TypeCorrect == Spec => []TypeOK
<1>1. Init => TypeOK
  BY DEF Init, TypeOK, Acquire
<1>2. TypeOK /\ [Next]_vars => TypeOK'
  <2> SUFFICES ASSUME TypeOK, [Next]_vars PROVE TypeOK'
    OBVIOUS
  <2>1. ASSUME NEW c \in Callers, Call(c) PROVE TypeOK'
    <3>1. [acq[c] EXCEPT !.waited = 0, !.outbid = 0] \in Acquire
      BY DEF TypeOK, Acquire
    <3> QED BY <2>1, <3>1, LookType DEF Call
  <2>2. ASSUME NEW c \in Callers, Poll(c) PROVE TypeOK'
    <3>1. acq[c] \in Acquire
      BY DEF TypeOK
    <3> QED BY <2>2, <3>1, LookType DEF Poll
  <2>3. CASE Tick
    <3>1. acq' \in [Callers -> Acquire]
      <4>1. ASSUME NEW c \in Callers PROVE acq'[c] \in Acquire
        <5>1. acq[c] \in Acquire
          BY DEF TypeOK
        <5>2. acq[c].sleep - 1 \in Int /\ acq[c].waited + 1 \in Nat
          BY <5>1 DEF Acquire
        <5>3. [acq[c] EXCEPT !.sleep = @ - 1, !.waited = @ + 1] \in Acquire
          BY <5>1, <5>2 DEF Acquire
        <5> QED BY <2>3, <5>1, <5>3 DEF Tick
      <4> QED BY <2>3, <4>1 DEF Tick
    <3>2. /\ tokens' \in 0..CAPACITY
          /\ accrued' \in 0..CAPACITY
          /\ worst' \in Nat
      <4>1. tokens \in 0..CAPACITY /\ accrued \in 0..CAPACITY /\ worst \in Nat
        BY DEF TypeOK
      <4>2. /\ tokens' = tokens
            /\ accrued' = IF accrued + RPS < CAPACITY THEN accrued + RPS ELSE CAPACITY
            /\ worst' = IF worst - RPS > 0 THEN worst - RPS ELSE 0
        BY <2>3 DEF Tick, AtMost, AtLeast
      <4>3. tokens' \in 0..CAPACITY
        BY <4>1, <4>2
      <4>4. accrued' \in 0..CAPACITY
        BY <4>1, <4>2
      <4>5. worst' \in Nat
        <5>1. CASE worst - RPS > 0
          BY <4>1, <4>2, <5>1
        <5>2. CASE ~(worst - RPS > 0)
          BY <4>2, <5>2
        <5> QED BY <5>1, <5>2
      <4> QED BY <4>3, <4>4, <4>5
    <3> QED BY <3>1, <3>2 DEF TypeOK
  <2>4. CASE UNCHANGED vars
    BY <2>4 DEF vars, TypeOK
  <2> QED BY <2>1, <2>2, <2>3, <2>4 DEF Next
<1> QED BY <1>1, <1>2, PTL DEF Spec

\* One unit of time: the excess w and the level r become w2 and r2.
LEMMA TickArithmetic ==
  ASSUME NEW w \in Nat, NEW r \in 0..CAPACITY, w + r <= CAPACITY,
         NEW w2, w2 = IF w - RPS > 0 THEN w - RPS ELSE 0,
         NEW r2 \in Int, r2 <= r + RPS, r2 <= CAPACITY
  PROVE  w2 + r2 <= CAPACITY
<1>1. CASE w - RPS > 0
  BY <1>1
<1>2. CASE ~(w - RPS > 0)
  BY <1>2
<1> QED BY <1>1, <1>2

LEMMA LookKeepsRate ==
  ASSUME TypeOK, RateIInv, NEW c \in Callers, NEW since, Look(c, since)
  PROVE  RateIInv'
<1>1. Refilled \in 0..CAPACITY /\ worst \in Nat
  BY RefilledBounds DEF TypeOK
<1>2. accrued' = 0
  BY DEF Look
<1>3. CASE Take(c, since)
  <2>1. tokens' = Refilled - TOKEN /\ worst' = worst + TOKEN /\ Refilled >= TOKEN
    BY <1>3 DEF Take
  <2>2. Refilled' = Refilled - TOKEN
    BY <1>1, <1>2, <2>1 DEF Refilled, AtMost
  <2> QED BY <1>1, <2>1, <2>2 DEF RateIInv
<1>4. CASE Miss(c, since)
  <2>1. tokens' = Refilled /\ worst' = worst
    BY <1>4 DEF Miss
  <2>2. Refilled' = Refilled
    BY <1>1, <1>2, <2>1 DEF Refilled, AtMost
  <2> QED BY <1>1, <2>1, <2>2 DEF RateIInv
<1> QED BY <1>3, <1>4 DEF Look

\* Over any stretch of time the tokens granted are at most the burst plus
\* what the time has earned: lazy refills, late timers and racing polls never
\* let an extra lookup through.
THEOREM RateIsBounded == Spec => []RateBound
<1>1. Init => RateIInv
  BY DEF Init, RateIInv, Refilled, AtMost
<1>2. TypeOK /\ RateIInv /\ [Next]_vars => RateIInv'
  <2> SUFFICES ASSUME TypeOK, RateIInv, [Next]_vars PROVE RateIInv'
    OBVIOUS
  <2>1. ASSUME NEW c \in Callers, Call(c) PROVE RateIInv'
    BY <2>1, LookKeepsRate DEF Call
  <2>2. ASSUME NEW c \in Callers, Poll(c) PROVE RateIInv'
    BY <2>2, LookKeepsRate DEF Poll
  <2>3. CASE Tick
    <3>1. /\ tokens' = tokens
          /\ accrued' = IF accrued + RPS < CAPACITY THEN accrued + RPS ELSE CAPACITY
          /\ worst' = IF worst - RPS > 0 THEN worst - RPS ELSE 0
      BY <2>3 DEF Tick, AtMost, AtLeast
    <3>2. tokens \in 0..CAPACITY /\ accrued \in 0..CAPACITY /\ worst \in Nat
      BY DEF TypeOK
    <3>3. Refilled' <= Refilled + RPS /\ Refilled' <= CAPACITY /\ Refilled' \in Int
      BY <3>1, <3>2 DEF Refilled, AtMost
    <3>4. Refilled \in 0..CAPACITY
      BY <3>2, RefilledBounds
    <3>5. worst + Refilled <= CAPACITY
      BY DEF RateIInv
    <3>6. worst' + Refilled' <= CAPACITY
      BY <3>1, <3>2, <3>3, <3>4, <3>5, TickArithmetic
    <3> QED BY <3>6 DEF RateIInv
  <2>4. CASE UNCHANGED vars
    BY <2>4 DEF vars, RateIInv, Refilled
  <2> QED BY <2>1, <2>2, <2>3, <2>4 DEF Next
<1>3. TypeOK /\ RateIInv => RateBound
  <2> SUFFICES ASSUME TypeOK, RateIInv PROVE RateBound
    OBVIOUS
  <2>1. Refilled \in 0..CAPACITY /\ worst \in Nat
    BY RefilledBounds DEF TypeOK
  <2> QED BY <2>1 DEF RateIInv, RateBound
<1> QED BY <1>1, <1>2, <1>3, TypeCorrect, PTL DEF Spec
-----------------------------------------------------------------------------
(***************************************************************************)
(* How long a caller waits, and what it may be refused for.                *)
(***************************************************************************)
\* WaitBound made inductive: a sleep ends at the deadline, or is the
\* shortest there is; no timer is more than LAG_MS late.
WaitIInv ==
  \A c \in Callers :
    /\ acq[c].pc = "waiting" =>
         acq[c].sleep + acq[c].waited < QUEUE_MS + POLL_MS /\ acq[c].sleep >= -LAG_MS
    /\ acq[c].pc = "refused" => acq[c].waited >= QUEUE_MS
    /\ acq[c].waited > 0 => acq[c].waited < QUEUE_MS + POLL_MS + LAG_MS

\* What a look does to the caller that looks and to the others.
LEMMA LookIs ==
  ASSUME TypeOK, NEW c \in Callers, NEW since \in Acquire, Look(c, since)
  PROVE  /\ \/ /\ acq'[c].pc = "granted" /\ acq'[c].waited = since.waited
            \/ /\ acq'[c].pc = "refused" /\ acq'[c].waited = since.waited
               /\ acq'[c].outbid = since.outbid
               /\ since.waited >= QUEUE_MS /\ Refilled < TOKEN
            \/ /\ acq'[c].pc = "waiting" /\ acq'[c].waited = since.waited
               /\ acq'[c].outbid = since.outbid
               /\ acq'[c].sleep = WaitFor(since.waited)
               /\ since.waited < QUEUE_MS /\ Refilled < TOKEN /\ Refilled' = Refilled
         /\ \/ /\ Refilled' = Refilled - TOKEN
               /\ \A d \in Callers \ {c} :
                    acq'[d] = IF acq[d].pc = "waiting" THEN [acq[d] EXCEPT !.outbid = @ + 1]
                              ELSE acq[d]
            \/ /\ Refilled' = Refilled
               /\ \A d \in Callers \ {c} : acq'[d] = acq[d]
<1>1. Refilled \in 0..CAPACITY /\ accrued' = 0 /\ acq \in [Callers -> Acquire]
  BY RefilledBounds DEF TypeOK, Look
<1>2. CASE Take(c, since)
  <2>1. tokens' = Refilled - TOKEN /\ Refilled >= TOKEN /\ acq' = Granted(c, since)
    BY <1>2 DEF Take
  <2>2. Refilled' = Refilled - TOKEN
    BY <1>1, <2>1 DEF Refilled, AtMost
  <2>3. \A d \in Callers : acq'[d] = IF d = c THEN [since EXCEPT !.pc = "granted", !.sleep = 0]
                                    ELSE IF acq[d].pc = "waiting" THEN [acq[d] EXCEPT !.outbid = @ + 1]
                                    ELSE acq[d]
    BY <2>1 DEF Granted
  <2>4. acq'[c].pc = "granted" /\ acq'[c].waited = since.waited
    BY <2>3 DEF Acquire
  <2> QED BY <2>2, <2>3, <2>4
<1>3. CASE Miss(c, since)
  <2>1. tokens' = Refilled /\ Refilled < TOKEN /\ acq' = Denied(c, since)
    BY <1>3 DEF Miss
  <2>2. Refilled' = Refilled
    BY <1>1, <2>1 DEF Refilled, AtMost
  <2>3. \A d \in Callers \ {c} : acq'[d] = acq[d]
    BY <1>1, <2>1 DEF Denied
  <2>4. CASE since.waited >= QUEUE_MS
    <3>1. acq'[c] = [since EXCEPT !.pc = "refused", !.sleep = 0]
      BY <1>1, <2>1, <2>4 DEF Denied
    <3>2. /\ acq'[c].pc = "refused" /\ acq'[c].waited = since.waited
          /\ acq'[c].outbid = since.outbid
      BY <3>1 DEF Acquire
    <3> QED BY <2>1, <2>2, <2>3, <2>4, <3>2
  <2>5. CASE ~(since.waited >= QUEUE_MS)
    <3>1. PICK sleep : sleep = WaitFor(since.waited)
      OBVIOUS
    <3>2. acq'[c] = [since EXCEPT !.pc = "waiting", !.sleep = sleep]
      BY <1>1, <2>1, <2>5, <3>1 DEF Denied
    <3>3. /\ acq'[c].pc = "waiting" /\ acq'[c].waited = since.waited
          /\ acq'[c].outbid = since.outbid /\ acq'[c].sleep = sleep
      BY <3>2 DEF Acquire
    <3>4. since.waited < QUEUE_MS
      BY <2>5 DEF Acquire
    <3> QED BY <2>1, <2>2, <2>3, <3>1, <3>3, <3>4
  <2> QED BY <2>4, <2>5
<1> QED BY <1>2, <1>3 DEF Look

\* A sleep of a caller that has waited less than queueMs.
LEMMA SleepBounds ==
  ASSUME TypeOK, NEW waited \in Nat, waited < QUEUE_MS
  PROVE  /\ WaitFor(waited) \in Int /\ WaitFor(waited) >= POLL_MS
         /\ WaitFor(waited) + waited < QUEUE_MS + POLL_MS
         /\ WaitFor(waited) = POLL_MS \/ WaitFor(waited) <= WaitForToken
<1>1. WaitForToken \in Int
  BY RefilledBounds DEF WaitForToken, TypeOK
<1> QED BY <1>1 DEF WaitFor, AtLeast, AtMost

LEMMA LookKeepsWait ==
  ASSUME TypeOK, WaitIInv, NEW c \in Callers, NEW since \in Acquire, Look(c, since),
         since.waited > 0 => since.waited < QUEUE_MS + POLL_MS + LAG_MS
  PROVE  WaitIInv'
<1>1. since.waited \in Nat /\ \A d \in Callers : acq[d] \in Acquire
  BY DEF TypeOK, Acquire
<1>2. /\ acq'[c].pc = "waiting" =>
           acq'[c].sleep + acq'[c].waited < QUEUE_MS + POLL_MS /\ acq'[c].sleep >= -LAG_MS
      /\ acq'[c].pc = "refused" => acq'[c].waited >= QUEUE_MS
      /\ acq'[c].waited = since.waited
  <2>1. CASE acq'[c].pc = "waiting"
    <3>1. /\ acq'[c].waited = since.waited /\ acq'[c].sleep = WaitFor(since.waited)
          /\ since.waited < QUEUE_MS
      BY <2>1, LookIs
    <3>2. /\ WaitFor(since.waited) \in Int /\ WaitFor(since.waited) >= POLL_MS
          /\ WaitFor(since.waited) + since.waited < QUEUE_MS + POLL_MS
      BY <1>1, <3>1, SleepBounds
    <3> QED BY <2>1, <3>1, <3>2
  <2>2. CASE acq'[c].pc # "waiting"
    BY <2>2, LookIs
  <2> QED BY <2>1, <2>2
<1>3. ASSUME NEW d \in Callers \ {c}
      PROVE  acq'[d].pc = acq[d].pc /\ acq'[d].sleep = acq[d].sleep /\ acq'[d].waited = acq[d].waited
  <2>1. acq'[d] = acq[d] \/ acq'[d] = [acq[d] EXCEPT !.outbid = @ + 1]
    BY LookIs
  <2> QED BY <1>1, <2>1 DEF Acquire
<1>4. ASSUME NEW d \in Callers
      PROVE  /\ acq'[d].pc = "waiting" =>
                  acq'[d].sleep + acq'[d].waited < QUEUE_MS + POLL_MS /\ acq'[d].sleep >= -LAG_MS
             /\ acq'[d].pc = "refused" => acq'[d].waited >= QUEUE_MS
             /\ acq'[d].waited > 0 => acq'[d].waited < QUEUE_MS + POLL_MS + LAG_MS
  <2>1. CASE d = c
    BY <1>2, <2>1
  <2>2. CASE d # c
    BY <1>3, <2>2 DEF WaitIInv
  <2> QED BY <2>1, <2>2
<1> QED BY <1>4 DEF WaitIInv

\* One unit of time, for one caller.
LEMMA TickIs ==
  ASSUME TypeOK, Tick, NEW c \in Callers
  PROVE  /\ acq[c].pc = "waiting" =>
              /\ acq'[c].pc = "waiting" /\ acq'[c].outbid = acq[c].outbid
              /\ acq'[c].sleep = acq[c].sleep - 1 /\ acq'[c].waited = acq[c].waited + 1
              /\ acq[c].sleep > -LAG_MS
         /\ acq[c].pc # "waiting" => acq'[c] = acq[c]
<1>1. acq[c] \in Acquire
  BY DEF TypeOK
<1>2. acq'[c] = IF acq[c].pc = "waiting"
                THEN [acq[c] EXCEPT !.sleep = @ - 1, !.waited = @ + 1] ELSE acq[c]
  BY DEF Tick
<1>3. acq[c].pc = "waiting" => acq[c].sleep > -LAG_MS
  BY DEF Tick
<1> QED BY <1>1, <1>2, <1>3 DEF Acquire

LEMMA TickKeepsWait ==
  ASSUME TypeOK, WaitIInv, Tick
  PROVE  WaitIInv'
<1>1. ASSUME NEW c \in Callers
      PROVE  /\ acq'[c].pc = "waiting" =>
                  acq'[c].sleep + acq'[c].waited < QUEUE_MS + POLL_MS /\ acq'[c].sleep >= -LAG_MS
             /\ acq'[c].pc = "refused" => acq'[c].waited >= QUEUE_MS
             /\ acq'[c].waited > 0 => acq'[c].waited < QUEUE_MS + POLL_MS + LAG_MS
  <2>1. acq[c].sleep \in Int /\ acq[c].waited \in Nat
    BY DEF TypeOK, Acquire
  <2>2. CASE acq[c].pc = "waiting"
    <3>1. acq[c].sleep + acq[c].waited < QUEUE_MS + POLL_MS
      BY <2>2 DEF WaitIInv
    <3> QED BY <2>1, <2>2, <3>1, TickIs
  <2>3. CASE acq[c].pc # "waiting"
    BY <2>3, TickIs DEF WaitIInv
  <2> QED BY <2>2, <2>3
<1> QED BY <1>1 DEF WaitIInv

\* "Rate limited" is said only after queueMs, and no later than the shortest
\* sleep and a late timer after that, whoever else polls the bucket.
THEOREM WaitIsBounded == Spec => []WaitBound
<1>1. Init => WaitIInv
  <2> SUFFICES ASSUME Init PROVE WaitIInv
    OBVIOUS
  <2>1. \A c \in Callers : acq[c].pc = "idle" /\ acq[c].waited = 0
    BY DEF Init
  <2>2. ASSUME NEW c \in Callers
        PROVE  acq[c].pc # "waiting" /\ acq[c].pc # "refused" /\ ~(acq[c].waited > 0)
    BY <2>1
  <2> QED BY <2>2, Zenon DEF WaitIInv
<1>2. TypeOK /\ WaitIInv /\ [Next]_vars => WaitIInv'
  <2> SUFFICES ASSUME TypeOK, WaitIInv, [Next]_vars PROVE WaitIInv'
    OBVIOUS
  <2>1. ASSUME NEW c \in Callers, Call(c) PROVE WaitIInv'
    <3>1. PICK since : since = [acq[c] EXCEPT !.waited = 0, !.outbid = 0]
      OBVIOUS
    <3>2. since \in Acquire /\ since.waited = 0 /\ Look(c, since)
      BY <2>1, <3>1 DEF TypeOK, Acquire, Call
    <3> QED BY <3>2, LookKeepsWait
  <2>2. ASSUME NEW c \in Callers, Poll(c) PROVE WaitIInv'
    <3>1. /\ acq[c] \in Acquire /\ Look(c, acq[c])
          /\ acq[c].waited > 0 => acq[c].waited < QUEUE_MS + POLL_MS + LAG_MS
      BY <2>2 DEF TypeOK, Poll, WaitIInv
    <3> QED BY <3>1, LookKeepsWait
  <2>3. CASE Tick
    BY <2>3, TickKeepsWait
  <2>4. CASE UNCHANGED vars
    BY <2>4 DEF vars, WaitIInv
  <2> QED BY <2>1, <2>2, <2>3, <2>4 DEF Next
<1>3. WaitIInv => WaitBound
  BY DEF WaitIInv, WaitBound
<1> QED BY <1>1, <1>2, <1>3, TypeCorrect, PTL DEF Spec

-----------------------------------------------------------------------------
\* Products, which the provers do not multiply out.
LEMMA OneMore ==
  ASSUME NEW a \in Int, NEW x \in Int
  PROVE  a * x \in Int /\ a * (x + 1) = a * x + a /\ a * (x - 1) = a * x - a
OBVIOUS

LEMMA Distributes ==
  ASSUME NEW a \in Int, NEW x \in Int, NEW y \in Int
  PROVE  a * (x + y) = a * x + a * y
OBVIOUS

LEMMA MoreIsMore ==
  ASSUME NEW a \in Nat, NEW x \in Int, NEW y \in Int, x <= y
  PROVE  a * x <= a * y
<1>1. a * (y - x) >= 0
  BY y - x \in Nat
<1>2. a * y = a * x + a * (y - x)
  BY Distributes
<1>3. a * x \in Int /\ a * y \in Int /\ a * (y - x) \in Int
  OBVIOUS
<1> QED BY <1>1, <1>2, <1>3

\* Rounded up, a wait earns the missing token and less than a unit more.
LEMMA RoundedUp ==
  ASSUME NEW n \in Int
  PROVE  RPS * ((n + RPS - 1) \div RPS) <= n + RPS - 1
OBVIOUS

\* The bucket has room for what is earned in one sleep.
Roomy == CAPACITY >= TOKEN + RPS * (POLL_MS + LAG_MS)

\* RefusedOnlyIfOutbid made inductive: who waits found less than a token, and
\* what has been earned since its call is in the bucket or went to others;
\* the bucket will not be full before it looks again.
OutbidIInv ==
  \A c \in Callers :
    /\ acq[c].pc = "waiting" =>
         /\ Refilled + TOKEN * acq[c].outbid >= RPS * acq[c].waited
         /\ Refilled + RPS * (acq[c].sleep + LAG_MS) < TOKEN + RPS * (POLL_MS + LAG_MS)
    /\ acq[c].pc = "refused" => TOKEN * (acq[c].outbid + 1) > RPS * acq[c].waited

LEMMA LookKeepsOutbid ==
  ASSUME TypeOK, OutbidIInv, NEW c \in Callers, NEW since \in Acquire, Look(c, since),
         Refilled < TOKEN => Refilled + TOKEN * since.outbid >= RPS * since.waited
  PROVE  OutbidIInv'
<1>1. /\ since.waited \in Nat /\ since.outbid \in Nat
      /\ Refilled \in 0..CAPACITY /\ \A d \in Callers : acq[d] \in Acquire
  BY RefilledBounds DEF TypeOK, Acquire
<1>2. ASSUME acq'[c].pc = "waiting"
      PROVE  /\ Refilled' + TOKEN * acq'[c].outbid >= RPS * acq'[c].waited
             /\ Refilled' + RPS * (acq'[c].sleep + LAG_MS) < TOKEN + RPS * (POLL_MS + LAG_MS)
  <2>1. PICK sleep : sleep = WaitFor(since.waited)
    OBVIOUS
  <2>2. /\ acq'[c].waited = since.waited /\ acq'[c].outbid = since.outbid
        /\ acq'[c].sleep = sleep /\ since.waited < QUEUE_MS /\ Refilled < TOKEN
        /\ Refilled' = Refilled
    BY <1>2, <2>1, LookIs
  <2>3. sleep \in Int /\ (sleep = POLL_MS \/ sleep <= WaitForToken)
    BY <1>1, <2>1, <2>2, SleepBounds
  <2>4. RPS * sleep \in Int /\ Refilled + RPS * sleep < TOKEN + RPS * POLL_MS
    <3>1. RPS * sleep \in Int /\ RPS * POLL_MS \in Int /\ RPS * POLL_MS >= RPS
      <4>1. RPS * 1 <= RPS * POLL_MS
        BY MoreIsMore
      <4> QED BY <2>3, <4>1
    <3>2. CASE sleep = POLL_MS
      BY <1>1, <2>2, <3>1, <3>2
    <3>3. CASE sleep <= WaitForToken
      <4>1. PICK n \in Int : n = TOKEN - Refilled
        BY <1>1
      <4>2. WaitForToken = (n + RPS - 1) \div RPS
        BY <4>1 DEF WaitForToken
      <4>3. WaitForToken \in Int /\ RPS * WaitForToken \in Int /\ RPS * WaitForToken <= n + RPS - 1
        BY <4>1, <4>2, RoundedUp
      <4>4. RPS * sleep <= RPS * WaitForToken
        BY <2>3, <3>3, <4>3, MoreIsMore
      <4> QED BY <1>1, <3>1, <4>1, <4>3, <4>4
    <3> QED BY <2>3, <3>2, <3>3
  <2>5. /\ RPS * (sleep + LAG_MS) = RPS * sleep + RPS * LAG_MS
        /\ RPS * (POLL_MS + LAG_MS) = RPS * POLL_MS + RPS * LAG_MS
    BY <2>3, Distributes
  <2>6. Refilled + RPS * (sleep + LAG_MS) < TOKEN + RPS * (POLL_MS + LAG_MS)
    <3>1. RPS * LAG_MS \in Int /\ RPS * POLL_MS \in Int
      OBVIOUS
    <3> QED BY <1>1, <2>4, <2>5, <3>1
  <2> QED BY <2>2, <2>6
<1>3. ASSUME acq'[c].pc = "refused"
      PROVE  TOKEN * (acq'[c].outbid + 1) > RPS * acq'[c].waited
  <2>1. /\ acq'[c].waited = since.waited /\ acq'[c].outbid = since.outbid /\ Refilled < TOKEN
    BY <1>3, LookIs
  <2>2. TOKEN * since.outbid \in Int /\ TOKEN * (since.outbid + 1) = TOKEN * since.outbid + TOKEN
    BY <1>1, OneMore
  <2>3. RPS * since.waited \in Int
    BY <1>1
  <2> QED BY <1>1, <2>1, <2>2, <2>3
<1>4. ASSUME NEW d \in Callers \ {c}
      PROVE  /\ acq'[d].pc = "waiting" =>
                  /\ Refilled' + TOKEN * acq'[d].outbid >= RPS * acq'[d].waited
                  /\ Refilled' + RPS * (acq'[d].sleep + LAG_MS) < TOKEN + RPS * (POLL_MS + LAG_MS)
             /\ acq'[d].pc = "refused" => TOKEN * (acq'[d].outbid + 1) > RPS * acq'[d].waited
  <2>1. CASE acq'[d] = acq[d] /\ Refilled' = Refilled
    BY <2>1 DEF OutbidIInv
  <2>2. CASE acq[d].pc # "waiting" /\ acq'[d] = acq[d]
    BY <2>2 DEF OutbidIInv
  <2>3. CASE /\ acq[d].pc = "waiting" /\ Refilled' = Refilled - TOKEN
             /\ acq'[d] = [acq[d] EXCEPT !.outbid = @ + 1]
    <3>1. PICK out, in, slept :
            out = acq[d].outbid /\ in = RPS * acq[d].waited /\ slept = RPS * (acq[d].sleep + LAG_MS)
      OBVIOUS
    <3>2. out \in Nat /\ in \in Int /\ slept \in Int
      <4>1. acq[d].outbid \in Nat /\ acq[d].waited \in Nat /\ acq[d].sleep \in Int
        BY <1>1 DEF Acquire
      <4> QED BY <3>1, <4>1
    <3>3. /\ acq'[d].pc = "waiting" /\ acq'[d].outbid = out + 1
          /\ acq'[d].waited = acq[d].waited /\ acq'[d].sleep = acq[d].sleep
      BY <1>1, <2>3, <3>1 DEF Acquire
    <3>4. /\ Refilled + TOKEN * out >= in
          /\ Refilled + slept < TOKEN + RPS * (POLL_MS + LAG_MS)
      BY <2>3, <3>1 DEF OutbidIInv
    <3>5. TOKEN * out \in Int /\ TOKEN * (out + 1) = TOKEN * out + TOKEN
      BY <3>2, OneMore
    <3>6. (Refilled - TOKEN) + TOKEN * (out + 1) >= in
      BY <1>1, <3>2, <3>4, <3>5
    <3>7. RPS * (POLL_MS + LAG_MS) \in Int
      OBVIOUS
    <3>8. (Refilled - TOKEN) + slept < TOKEN + RPS * (POLL_MS + LAG_MS)
      BY <1>1, <3>2, <3>4, <3>7
    <3> QED BY <2>3, <3>1, <3>3, <3>6, <3>8
  <2> QED BY <2>1, <2>2, <2>3, LookIs
<1> QED BY <1>2, <1>3, <1>4 DEF OutbidIInv

LEMMA TickKeepsOutbid ==
  ASSUME TypeOK, OutbidIInv, Roomy, Tick
  PROVE  OutbidIInv'
<1>1. ASSUME NEW c \in Callers, acq[c].pc # "waiting"
      PROVE  acq'[c] = acq[c] /\ (acq[c].pc = "refused" => TOKEN * (acq[c].outbid + 1) > RPS * acq[c].waited)
  BY <1>1, TickIs DEF OutbidIInv
<1>2. ASSUME NEW c \in Callers, acq[c].pc = "waiting"
      PROVE  /\ Refilled' + TOKEN * acq'[c].outbid >= RPS * acq'[c].waited
             /\ Refilled' + RPS * (acq'[c].sleep + LAG_MS) < TOKEN + RPS * (POLL_MS + LAG_MS)
  <2>1. PICK sleep \in Int, waited \in Nat, out \in Nat :
          sleep = acq[c].sleep /\ waited = acq[c].waited /\ out = acq[c].outbid
    BY DEF TypeOK, Acquire
  <2>2. /\ acq'[c].outbid = out /\ acq'[c].sleep = sleep - 1 /\ acq'[c].waited = waited + 1
        /\ sleep + LAG_MS >= 1
    BY <1>2, <2>1, TickIs
  <2>3. PICK e \in Int : e = RPS * (sleep + LAG_MS)
    BY <2>1
  <2>4. e >= RPS /\ RPS * (sleep - 1 + LAG_MS) = e - RPS
    <3>1. PICK span \in Int : span = sleep + LAG_MS /\ 1 <= span
      BY <2>1, <2>2
    <3>4. RPS * 1 <= RPS * span
      BY <3>1, MoreIsMore
    <3>2. RPS * ((sleep + LAG_MS) - 1) = RPS * (sleep + LAG_MS) - RPS
      BY <2>1, OneMore
    <3>3. (sleep + LAG_MS) - 1 = sleep - 1 + LAG_MS
      BY <2>1
    <3> QED BY <2>3, <3>1, <3>2, <3>3, <3>4
  <2>5. PICK room \in Int : room = RPS * (POLL_MS + LAG_MS)
    OBVIOUS
  <2>6. /\ Refilled + e < TOKEN + room
        /\ Refilled + TOKEN * out >= RPS * waited
        /\ CAPACITY >= TOKEN + room
    BY <1>2, <2>1, <2>3, <2>5 DEF OutbidIInv, Roomy
  <2>7. Refilled' = Refilled + RPS /\ Refilled \in 0..CAPACITY
    <3>1. Refilled \in 0..CAPACITY /\ tokens \in 0..CAPACITY /\ accrued \in 0..CAPACITY
      BY RefilledBounds DEF TypeOK
    <3>2. /\ tokens' = tokens
          /\ accrued' = IF accrued + RPS < CAPACITY THEN accrued + RPS ELSE CAPACITY
      BY DEF Tick, AtMost
    <3>3. Refilled + RPS < CAPACITY
      BY <2>3, <2>4, <2>5, <2>6, <3>1
    <3> QED BY <3>1, <3>2, <3>3 DEF Refilled, AtMost
  <2>8. RPS * waited \in Int /\ RPS * (waited + 1) = RPS * waited + RPS /\ TOKEN * out \in Int
    BY <2>1, OneMore
  <2>9. Refilled' + TOKEN * out >= RPS * (waited + 1)
    BY <2>6, <2>7, <2>8
  <2>10. Refilled' + RPS * (sleep - 1 + LAG_MS) < TOKEN + room
    BY <2>3, <2>4, <2>5, <2>6, <2>7
  <2> QED BY <2>2, <2>5, <2>9, <2>10
<1>3. ASSUME NEW c \in Callers
      PROVE  /\ acq'[c].pc = "waiting" =>
                  /\ Refilled' + TOKEN * acq'[c].outbid >= RPS * acq'[c].waited
                  /\ Refilled' + RPS * (acq'[c].sleep + LAG_MS) < TOKEN + RPS * (POLL_MS + LAG_MS)
             /\ acq'[c].pc = "refused" => TOKEN * (acq'[c].outbid + 1) > RPS * acq'[c].waited
  <2>1. CASE acq[c].pc = "waiting"
    BY <1>2, <2>1, TickIs
  <2>2. CASE acq[c].pc # "waiting"
    BY <1>1, <2>2
  <2> QED BY <2>1, <2>2
<1> QED BY <1>3 DEF OutbidIInv

\* Nobody is refused for nothing, however the polls of the callers interleave:
\* what the bucket earned while a refused caller waited went to others, or is
\* less than a token.  (The property itself asks for a bucket that has room
\* for one sleep.)
THEOREM RefusedForAReason == Spec => []RefusedOnlyIfOutbid
<1> DEFINE Inv == Roomy => OutbidIInv
<1>1. Init => Inv
  <2> SUFFICES ASSUME Init, NEW c \in Callers PROVE acq[c].pc = "idle"
    BY DEF OutbidIInv
  <2> QED BY DEF Init
<1>2. TypeOK /\ Inv /\ [Next]_vars => Inv'
  <2> SUFFICES ASSUME TypeOK, OutbidIInv, Roomy, [Next]_vars PROVE OutbidIInv'
    BY DEF Roomy
  <2>1. ASSUME NEW c \in Callers, Call(c) PROVE OutbidIInv'
    <3>1. PICK since : since = [acq[c] EXCEPT !.waited = 0, !.outbid = 0]
      OBVIOUS
    <3>2. since \in Acquire /\ since.waited = 0 /\ since.outbid = 0 /\ Look(c, since)
      BY <2>1, <3>1 DEF TypeOK, Acquire, Call
    <3>3. Refilled + TOKEN * since.outbid >= RPS * since.waited
      BY <3>2, RefilledBounds DEF TypeOK
    <3> QED BY <3>2, <3>3, LookKeepsOutbid
  <2>2. ASSUME NEW c \in Callers, Poll(c) PROVE OutbidIInv'
    <3>1. /\ acq[c] \in Acquire /\ Look(c, acq[c])
          /\ Refilled + TOKEN * acq[c].outbid >= RPS * acq[c].waited
      BY <2>2 DEF TypeOK, Poll, OutbidIInv
    <3> QED BY <3>1, LookKeepsOutbid
  <2>3. CASE Tick
    BY <2>3, TickKeepsOutbid
  <2>4. CASE UNCHANGED vars
    BY <2>4 DEF vars, OutbidIInv, Refilled
  <2> QED BY <2>1, <2>2, <2>3, <2>4 DEF Next
<1>3. Inv => RefusedOnlyIfOutbid
  BY DEF Roomy, OutbidIInv, RefusedOnlyIfOutbid
<1> QED BY <1>1, <1>2, <1>3, TypeCorrect, PTL DEF Spec
=============================================================================
