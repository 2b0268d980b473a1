-------------------------- MODULE HistoryWalkProofs --------------------------
(***************************************************************************)
(* A lookup serves what the chain says, for any number of lookups that     *)
(* share the cached tip, any chain, and any confirmations, walk, expiry,   *)
(* life of a tip and time a server takes.                                  *)
(***************************************************************************)
EXTENDS HistoryWalk, WellFoundedInduction, TLAPS

USE HistoryAssumption DEF HistoryAssumption, OLD, Heights

(***************************************************************************)
(* Of a bounded set of natural numbers there is a largest one: what every  *)
(* CHOOSE of the module relies on.                                         *)
(***************************************************************************)
LEMMA Smallest ==
  ASSUME NEW S \in SUBSET Nat, S # {}
  PROVE  \E m \in S : \A n \in S : m <= n
<1>1. PICK m \in S : \A n \in S : <<n, m>> \notin OpToRel(<, Nat)
  BY NatLessThanWellFounded, WFMin
<1>2. \A n \in S : ~(n < m)
  BY <1>1 DEF OpToRel
<1> QED BY <1>2

LEMMA Largest ==
  ASSUME NEW n \in Nat, NEW S \in SUBSET (0..n), S # {}
  PROVE  \E m \in S : \A s \in S : s <= m
<1> DEFINE T == {n - s : s \in S}
<1>1. \A s \in S : s \in Nat /\ n - s \in Nat /\ n - s \in T
  OBVIOUS
<1>2. T \in SUBSET Nat /\ T # {}
  BY <1>1
<1>3. PICK t \in T : \A u \in T : t <= u
  BY <1>2, Smallest
<1>4. PICK m \in S : t = n - m
  OBVIOUS
<1>5. \A s \in S : n - m <= n - s
  BY <1>1, <1>3, <1>4
<1> QED BY <1>1, <1>4, <1>5

\* The chain some time ago.
LEMMA HeightAgoIs ==
  ASSUME height \in Heights, NEW age
  PROVE  /\ HeightAgo(age) \in 0..height
         /\ HeightAgo(age) > 0 => mined[HeightAgo(age)] >= age
         /\ \A h \in 1..height : mined[h] >= age => h <= HeightAgo(age)
<1> DEFINE then == {h \in 1..height : mined[h] >= age}
<1>1. CASE then = {}
  BY <1>1 DEF HeightAgo
<1>2. CASE then # {}
  <2>1. \E m \in then : \A g \in then : g <= m
    <3>1. then \in SUBSET (0..height) /\ height \in Nat
      OBVIOUS
    <3> HIDE DEF then
    <3> QED BY <1>2, <3>1, Largest
  <2>2. /\ HeightAgo(age) \in then
        /\ \A g \in then : g <= HeightAgo(age)
    BY <1>2, <2>1 DEF HeightAgo
  <2> QED BY <2>2
<1> QED BY <1>1, <1>2

\* What a walk chooses: the highest update it finds, if it finds one.
LEMMA ChosenIs ==
  ASSUME height \in Heights, NEW walk, NEW lost,
         \A t \in walk : t.height \in 1..height
  PROVE  LET found == {t.height : t \in {u \in walk \ lost : u.named}}
             row   == Chosen(walk, lost)
         IN  /\ row \in 0..height
             /\ row > 0 => row \in found
             /\ \A h \in found : h <= row
<1> DEFINE found == {t.height : t \in {u \in walk \ lost : u.named}}
<1>1. found \in SUBSET (0..height) /\ found \subseteq 1..height /\ height \in Nat
  OBVIOUS
<1>2. CASE found = {}
  BY <1>2 DEF Chosen
<1>3. CASE found # {}
  <2>1. \E m \in found : \A g \in found : g <= m
    <3> HIDE DEF found
    <3> QED BY <1>1, <1>3, Largest
  <2>2. Chosen(walk, lost) = CHOOSE h \in found : \A g \in found : g <= h
    BY <1>3 DEF Chosen
  <2> HIDE DEF found
  <2>3. Chosen(walk, lost) \in found /\ \A g \in found : g <= Chosen(walk, lost)
    BY <2>1, <2>2
  <2>4. Chosen(walk, lost) \in 0..height
    BY <1>1, <2>3
  <2> QED BY <2>3, <2>4 DEF found
<1> QED BY <1>2, <1>3

-----------------------------------------------------------------------------
(***************************************************************************)
(* The invariant.                                                          *)
(***************************************************************************)
ChainOK ==
  /\ height \in Heights
  /\ mined \in [1..MAX_HEIGHT -> 0..OLD]
  /\ txs \in Seq(Tx)
  /\ \A h \in 1..MAX_HEIGHT : h > height => mined[h] = 0
  /\ \A i \in 1..Len(txs) : txs[i].height <= height
  /\ mempool \in BOOLEAN

\* A tip as of a time `age` ago: not behind the chain of that time.
TipOf(tip, age) ==
  /\ tip \in 0..height
  /\ \A h \in 1..height : mined[h] > age => h <= tip

TipOK ==
  /\ tipAge \in 0..OLD
  /\ cachedTip = NoTip \/ TipOf(cachedTip, tipAge)

\* A history that was read is part of the chain's.
Read(history) ==
  /\ history \in Seq(Tx)
  /\ \A i \in 1..Len(history) : \E j \in 1..Len(txs) : history[i] = txs[j]

LookupRecord == [pc : {"idle", "tip", "told"}, history : Seq(Tx), now : 0..REQUEST_MS,
                 answer : Heights \cup {NoTip}, was : Heights]

LookupOK(l) ==
  /\ l \in LookupRecord
  /\ Read(l.history)
  /\ l.was <= height
  /\ l.pc = "told" => TipOf(l.answer, l.now) /\ l.was <= l.answer

LookupsOK == \A c \in Lookups : LookupOK(lookup[c])

\* What was served in this step.
ServedOK ==
  /\ served.row \in Heights
  /\ UpdateIsServedInTime
  /\ ExpiryIsInTime
  /\ ServedIsConfirmed

IsLookups == lookup = [c \in Lookups |-> lookup[c]]

WalkInv == ChainOK /\ TipOK /\ IsLookups /\ LookupsOK /\ ServedOK

\* A lookup that ends serves the right thing, if its history was read from
\* the chain and its tip is neither ahead of the chain now nor behind that of
\* one life of a tip before it read the clock.
LEMMA ServeIs ==
  ASSUME ChainOK, NEW c \in Lookups, NEW history, NEW was, NEW tip,
         Read(history), was \in 0..height,
         tip = NoTip \/ (tip \in 0..height /\ was <= tip),
         Serve(c, history, was, tip), UNCHANGED <<height, txs>>
  PROVE  ServedOK'
<1> DEFINE walk == Walk(history, tip)
<1>1. PICK lost \in IF FETCH_FAILS THEN SUBSET walk ELSE {{}} :
        served' = [history |-> history, was |-> was, tip |-> tip, lost |-> lost,
                   row |-> Chosen(walk, lost), expired |-> Expired(tip, Chosen(walk, lost))]
  BY DEF Serve
<1> DEFINE row == Chosen(walk, lost)
           found == {t.height : t \in {u \in walk \ lost : u.named}}
<1>2. /\ history \in Seq(Tx) /\ DOMAIN history = 1..Len(history) /\ Len(history) \in Nat
      /\ height \in Heights
      /\ \A i \in 1..Len(history) : history[i] \in Tx /\ history[i].height \in 1..height
  <2>1. ASSUME NEW i \in 1..Len(history)
        PROVE  history[i] \in Tx /\ history[i].height \in 1..height
    <3>1. PICK j \in 1..Len(txs) : history[i] = txs[j]
      BY DEF Read
    <3>2. txs[j] \in Tx /\ txs[j].height <= height /\ height \in Nat
      BY DEF ChainOK
    <3> QED BY <3>1, <3>2 DEF Tx
  <2> QED BY <2>1 DEF Read, ChainOK
<1>3. \A t \in walk : \E i \in Eligible(history, tip) : t = history[i]
  BY DEF Walk
<1>4. \A i \in Eligible(history, tip) :
        /\ i \in 1..Len(history)
        /\ tip # NoTip /\ MIN_CONF > 0 => tip - history[i].height + 1 >= MIN_CONF
  BY <1>2 DEF Eligible
<1>5. /\ row \in 0..height
      /\ row > 0 => row \in found
      /\ \A h \in found : h <= row
  <2>1. \A t \in walk : t.height \in 1..height
    BY <1>2, <1>3, <1>4
  <2> HIDE DEF walk
  <2> QED BY <1>2, <2>1, ChosenIs
<1>6. row > 0 => \E i \in 1..Len(history) :
                   /\ history[i].named /\ history[i].height = row
                   /\ tip # NoTip /\ MIN_CONF > 0 => tip - row + 1 >= MIN_CONF
  BY <1>3, <1>4, <1>5
<1> HIDE DEF row, walk
<1>7. served'.row \in Heights
  BY <1>1, <1>2, <1>5 DEF row
<1>8. UpdateIsServedInTime'
  <2> SUFFICES ASSUME lost = {}
               PROVE  \A i \in DOMAIN history :
                        Due(history, i, was, tip) => row >= history[i].height
    <3>1. /\ served'.row = row /\ served'.tip = tip /\ served'.was = was
          /\ served'.history = history /\ served'.lost = lost
      BY <1>1 DEF row
    <3> QED BY <3>1 DEF UpdateIsServedInTime
  <2> SUFFICES ASSUME NEW i \in DOMAIN history, Due(history, i, was, tip)
               PROVE  row >= history[i].height
    OBVIOUS
  <2>1. i \in Eligible(history, tip)
    BY <1>2 DEF Due, Confirmed, Eligible
  <2>2. {k \in Eligible(history, tip) : k > i}
          = {j \in DOMAIN history : /\ j > i
                                    /\ tip = NoTip \/ MIN_CONF = 0 \/ Confirmed(history[j], tip)}
    BY <1>2 DEF Eligible, Confirmed
  <2>3. history[i] \in walk
    BY <2>1, <2>2 DEF walk, Walk, Due
  <2>4. history[i].height \in found
    BY <2>3 DEF Due
  <2> QED BY <1>2, <1>5, <2>4
<1>9. ExpiryIsInTime'
  <2>1. served'.row = row /\ served'.tip = tip /\ served'.was = was
        /\ served'.expired = Expired(tip, row)
    BY <1>1 DEF row
  <2> SUFFICES ASSUME row > 0, tip # NoTip
               PROVE  IF Expired(tip, row) THEN height - row >= NAME_EXPIRE_DEPTH
                                           ELSE was - row < NAME_EXPIRE_DEPTH
    BY <2>1 DEF ExpiryIsInTime
  <2> QED BY <1>2, <1>5 DEF Expired
<1>10. ServedIsConfirmed'
  <2>1. served'.row = row /\ served'.tip = tip
    BY <1>1 DEF row
  <2> SUFFICES ASSUME row > 0
               PROVE  /\ \E i \in DOMAIN txs : txs[i].named /\ txs[i].height = row
                      /\ tip # NoTip => height - row + 1 >= MIN_CONF
    BY <2>1 DEF ServedIsConfirmed
  <2>2. PICK i \in 1..Len(history) :
          /\ history[i].named /\ history[i].height = row
          /\ tip # NoTip /\ MIN_CONF > 0 => tip - row + 1 >= MIN_CONF
    BY <1>6
  <2>3. \E j \in DOMAIN txs : history[i] = txs[j]
    BY DEF Read, ChainOK
  <2>4. tip # NoTip => height - row + 1 >= MIN_CONF
    BY <1>2, <1>5, <2>2
  <2> QED BY <2>2, <2>3, <2>4
<1> QED BY <1>7, <1>8, <1>9, <1>10 DEF ServedOK

-----------------------------------------------------------------------------
(***************************************************************************)
(* Every action preserves it.                                              *)
(***************************************************************************)
\* Only what the chain and the served value are asked for.
LEMMA NothingIsServed ==
  ASSUME served' = Nothing
  PROVE  ServedOK'
<1>1. /\ served'.row = 0 /\ served'.history = <<>>
  BY DEF Nothing
<1>2. UpdateIsServedInTime'
  BY <1>1 DEF UpdateIsServedInTime
<1>3. ExpiryIsInTime' /\ ServedIsConfirmed'
  BY <1>1 DEF ExpiryIsInTime, ServedIsConfirmed
<1> QED BY <1>1, <1>2, <1>3 DEF ServedOK

\* The lookup that ends forgets what it read.
LEMMA IdleIsOK ==
  ASSUME ChainOK, Read(<<>>)
  PROVE  LookupOK(Idle)
BY DEF LookupOK, LookupRecord, Idle, ChainOK

LEMMA NothingRead == Read(<<>>)
BY DEF Read

\* What a lookup knows does not depend on the others.
LEMMA LookupSteps ==
  ASSUME WalkInv, NEW c \in Lookups, NEW l, LookupOK(l),
         lookup' = [lookup EXCEPT ![c] = l], UNCHANGED chainVars
  PROVE  IsLookups' /\ LookupsOK'
<1>1. IsLookups'
  BY DEF WalkInv, IsLookups
<1>2. ASSUME NEW d \in Lookups PROVE LookupOK(lookup'[d])
  BY DEF WalkInv, IsLookups, LookupsOK
<1> QED BY <1>1, <1>2 DEF LookupsOK, LookupOK, Read, TipOf, chainVars

\* A lookup ends.
LEMMA ServeKeepsInv ==
  ASSUME WalkInv, NEW c \in Lookups, NEW history, NEW was, NEW tip,
         Read(history), was \in 0..height,
         tip = NoTip \/ (tip \in 0..height /\ was <= tip),
         Serve(c, history, was, tip), UNCHANGED chainVars, TipOK'
  PROVE  WalkInv'
<1>1. ServedOK'
  BY ServeIs DEF WalkInv, chainVars
<1>2. IsLookups' /\ LookupsOK'
  <2>1. LookupOK(Idle)
    BY IdleIsOK, NothingRead DEF WalkInv
  <2>2. lookup' = [lookup EXCEPT ![c] = Idle]
    BY DEF Serve
  <2> QED BY <2>1, <2>2, LookupSteps
<1>3. ChainOK'
  BY DEF WalkInv, ChainOK, chainVars
<1> QED BY <1>1, <1>2, <1>3 DEF WalkInv

\* A lookup goes on.
LEMMA StepKeepsInv ==
  ASSUME WalkInv, NEW c \in Lookups, NEW l, LookupOK(l),
         lookup' = [lookup EXCEPT ![c] = l], served' = Nothing,
         UNCHANGED <<chainVars, tipVars>>
  PROVE  WalkInv'
<1>1. IsLookups' /\ LookupsOK'
  BY LookupSteps
<1>2. ServedOK'
  BY NothingIsServed
<1>3. ChainOK' /\ TipOK'
  BY DEF WalkInv, ChainOK, TipOK, TipOf, chainVars, tipVars
<1> QED BY <1>1, <1>2, <1>3 DEF WalkInv

LEMMA HistoryKeepsInv ==
  ASSUME WalkInv, NEW c \in Lookups, History(c)
  PROVE  WalkInv'
<1> DEFINE was == HeightAgo(TIP_CACHE_TTL_MS)
<1>1. Read(txs)
  BY DEF Read, WalkInv, ChainOK
<1>2. /\ was \in 0..height /\ height \in 0..MAX_HEIGHT
      /\ was > 0 => mined[was] >= TIP_CACHE_TTL_MS
  BY HeightAgoIs DEF WalkInv, ChainOK
<1>0. History(c) <=> /\ lookup[c].pc = "idle"
                     /\ txs # <<>> \/ mempool
                     /\ IF TipIsFresh
                        THEN Serve(c, txs, was, cachedTip)
                        ELSE /\ lookup' = [lookup EXCEPT ![c] =
                                  [Idle EXCEPT !.pc = "tip", !.history = txs, !.was = was]]
                             /\ served' = Nothing
                     /\ UNCHANGED <<chainVars, tipVars>>
  BY DEF History
<1> HIDE DEF was
<1>3. CASE TipIsFresh
  <2>1. cachedTip \in 0..height /\ was <= cachedTip
    <3>1. TipOf(cachedTip, tipAge) /\ tipAge < TIP_CACHE_TTL_MS /\ tipAge \in Nat
      BY <1>3 DEF TipIsFresh, WalkInv, TipOK
    <3>2. was > 0 => was \in 1..height /\ mined[was] \in 0..OLD
      BY <1>2 DEF WalkInv, ChainOK
    <3> QED BY <1>2, <3>1, <3>2 DEF TipOf
  <2>2. Serve(c, txs, was, cachedTip) /\ UNCHANGED <<chainVars, tipVars>>
    BY <1>0, <1>3
  <2>3. TipOK'
    BY <2>2 DEF WalkInv, TipOK, TipOf, chainVars, tipVars
  <2> QED BY <1>1, <1>2, <2>1, <2>2, <2>3, ServeKeepsInv
<1>4. CASE ~TipIsFresh
  <2> DEFINE l == [Idle EXCEPT !.pc = "tip", !.history = txs, !.was = was]
  <2>1. lookup' = [lookup EXCEPT ![c] = l] /\ served' = Nothing
        /\ UNCHANGED <<chainVars, tipVars>>
    BY <1>0, <1>4
  <2>2. LookupOK(l)
    <3>1. Idle \in LookupRecord /\ Idle.answer = NoTip
      BY DEF Idle, LookupRecord
    <3>2. txs \in Seq(Tx) /\ was \in Heights /\ was <= height
      BY <1>1, <1>2 DEF Read
    <3>3. l \in LookupRecord /\ l.pc = "tip" /\ l.history = txs /\ l.was = was
      BY <3>1, <3>2 DEF LookupRecord
    <3> HIDE DEF l
    <3> QED BY <1>1, <3>2, <3>3 DEF LookupOK
  <2> HIDE DEF l
  <2> QED BY <2>1, <2>2, StepKeepsInv
<1> QED BY <1>3, <1>4

\* The server reads the tip: nothing is older than what it says.
LEMMA TellKeepsInv ==
  ASSUME WalkInv, NEW c \in Lookups, Tell(c)
  PROVE  WalkInv'
<1> DEFINE l == [lookup[c] EXCEPT !.pc = "told", !.answer = height]
<1>1. lookup' = [lookup EXCEPT ![c] = l] /\ served' = Nothing
      /\ UNCHANGED <<chainVars, tipVars>>
  BY DEF Tell, WalkInv, IsLookups
<1>2. LookupOK(l)
  <2>1. LookupOK(lookup[c]) /\ height \in Heights
    BY DEF WalkInv, LookupsOK, ChainOK
  <2>2. l \in LookupRecord
    BY <2>1 DEF LookupOK, LookupRecord
  <2>3. /\ l.history = lookup[c].history /\ l.was = lookup[c].was
        /\ l.answer = height /\ l.now = lookup[c].now
    BY <2>1 DEF LookupOK, LookupRecord
  <2>4. TipOf(height, l.now)
    BY <2>1 DEF TipOf
  <2> HIDE DEF l
  <2> QED BY <2>1, <2>2, <2>3, <2>4 DEF LookupOK
<1> HIDE DEF l
<1> QED BY <1>1, <1>2, StepKeepsInv

LEMMA ToldKeepsInv ==
  ASSUME WalkInv, NEW c \in Lookups, Told(c)
  PROVE  WalkInv'
<1>1. /\ LookupOK(lookup[c]) /\ lookup[c].pc = "told" /\ height \in Heights
      /\ Serve(c, lookup[c].history, lookup[c].was, lookup[c].answer)
      /\ cachedTip' = lookup[c].answer /\ tipAge' = lookup[c].now
      /\ UNCHANGED chainVars
  BY DEF WalkInv, LookupsOK, Told, ChainOK
<1>2. /\ TipOf(lookup[c].answer, lookup[c].now) /\ lookup[c].was <= lookup[c].answer
      /\ lookup[c].answer \in 0..height /\ lookup[c].was \in 0..height
      /\ lookup[c].now \in 0..REQUEST_MS
      /\ Read(lookup[c].history)
  BY <1>1 DEF LookupOK, LookupRecord, TipOf
<1>3. TipOK'
  BY <1>1, <1>2 DEF TipOK, TipOf, chainVars
<1> QED BY <1>1, <1>2, <1>3, ServeKeepsInv

LEMMA NotToldKeepsInv ==
  ASSUME WalkInv, NEW c \in Lookups, NotTold(c)
  PROVE  WalkInv'
<1>1. /\ LookupOK(lookup[c]) /\ height \in Heights
      /\ Serve(c, lookup[c].history, lookup[c].was, NoTip)
      /\ UNCHANGED <<chainVars, tipVars>>
  BY DEF WalkInv, LookupsOK, NotTold, ChainOK
<1>2. Read(lookup[c].history) /\ lookup[c].was \in 0..height
  BY <1>1 DEF LookupOK, LookupRecord
<1>3. TipOK'
  BY <1>1 DEF WalkInv, TipOK, TipOf, chainVars, tipVars
<1> QED BY <1>1, <1>2, <1>3, ServeKeepsInv

(***************************************************************************)
(* The chain grows, and time passes.                                       *)
(***************************************************************************)
LEMMA BroadcastKeepsInv ==
  ASSUME WalkInv, Broadcast
  PROVE  WalkInv'
<1>1. ServedOK'
  BY NothingIsServed DEF Broadcast
<1>2. ChainOK' /\ TipOK' /\ IsLookups' /\ LookupsOK'
  BY DEF Broadcast, WalkInv, ChainOK, TipOK, TipOf, IsLookups, LookupsOK, LookupOK, Read, tipVars
<1> QED BY <1>1, <1>2 DEF WalkInv

\* A tip as of some time ago stays one when a block is found ...
LEMMA TipOfMine ==
  ASSUME ChainOK, NEW tip, NEW age \in Nat, TipOf(tip, age),
         height < MAX_HEIGHT, height' = height + 1, UNCHANGED mined
  PROVE  TipOf(tip, age)'
<1>1. tip \in 0..height'
  BY DEF ChainOK, TipOf
<1>2. ASSUME NEW h \in 1..height', mined[h] > age
      PROVE  h <= tip
  BY <1>2 DEF ChainOK, TipOf
<1> QED BY <1>1, <1>2 DEF TipOf

\* ... and when time passes.
LEMMA TipOfTick ==
  ASSUME ChainOK, NEW tip, NEW age \in 0..OLD, TipOf(tip, age), Tick
  PROVE  TipOf(tip, Older(age))' /\ Older(age) \in 0..OLD
<1>1. Older(age) \in 0..OLD
  BY DEF Older
<1>2. ASSUME NEW h \in 1..height, mined'[h] > Older(age)
      PROVE  mined[h] > age
  <2>1. mined'[h] = Older(mined[h]) /\ mined[h] \in 0..OLD
    BY DEF Tick, ChainOK
  <2> QED BY <1>2, <2>1 DEF Older
<1> QED BY <1>1, <1>2 DEF TipOf, Tick

\* What was read stays part of a chain that grows.
LEMMA ReadStays ==
  ASSUME NEW history, Read(history), txs \in Seq(Tx), NEW t,
         txs' = txs \/ txs' = Append(txs, t)
  PROVE  Read(history)'
<1>1. \A j \in 1..Len(txs) : j \in 1..Len(txs') /\ txs'[j] = txs[j]
  OBVIOUS
<1> QED BY <1>1 DEF Read

LEMMA MineKeepsInv ==
  ASSUME WalkInv, Mine
  PROVE  WalkInv'
<1>1. PICK named \in BOOLEAN :
        txs' = txs \/ txs' = Append(txs, [height |-> height + 1, named |-> named])
  BY DEF Mine
<1> DEFINE t == [height |-> height + 1, named |-> named]
<1>2. /\ height \in Heights /\ height < MAX_HEIGHT /\ height' = height + 1
      /\ UNCHANGED <<mined, tipVars, lookup>> /\ served' = Nothing
      /\ mempool' \in BOOLEAN
  BY DEF Mine, WalkInv, ChainOK
<1>3. ServedOK'
  BY <1>2, NothingIsServed
<1>4. ChainOK'
  <2>1. txs \in Seq(Tx) /\ t \in Tx
    BY <1>2 DEF WalkInv, ChainOK, Tx
  <2>2. txs' \in Seq(Tx)
    BY <1>1, <2>1
  <2>3. ASSUME NEW i \in 1..Len(txs') PROVE txs'[i].height <= height'
    <3>1. CASE txs' = txs
      <4>1. txs[i] \in Tx /\ txs[i].height <= height
        BY <2>1, <2>3, <3>1 DEF WalkInv, ChainOK
      <4> QED BY <1>2, <3>1, <4>1 DEF Tx
    <3>2. CASE txs' = Append(txs, t)
      <4>1. (i \in 1..Len(txs) /\ txs'[i] = txs[i]) \/ txs'[i] = t
        BY <2>1, <2>3, <3>2
      <4>2. CASE i \in 1..Len(txs) /\ txs'[i] = txs[i]
        <5>1. txs[i] \in Tx /\ txs[i].height <= height
          BY <2>1, <4>2 DEF WalkInv, ChainOK
        <5> QED BY <1>2, <4>2, <5>1 DEF Tx
      <4> QED BY <1>2, <4>1, <4>2
    <3> QED BY <1>1, <3>1, <3>2
  <2>4. \A h \in 1..MAX_HEIGHT : h > height' => mined'[h] = 0
    BY <1>2 DEF WalkInv, ChainOK
  <2>5. height' \in Heights /\ mined' \in [1..MAX_HEIGHT -> 0..OLD]
    BY <1>2 DEF WalkInv, ChainOK
  <2> QED BY <1>2, <2>2, <2>3, <2>4, <2>5 DEF ChainOK
<1>5. TipOK'
  <2>1. CASE cachedTip = NoTip
    BY <1>2, <2>1 DEF WalkInv, TipOK, tipVars
  <2>2. CASE TipOf(cachedTip, tipAge)
    <3>1. TipOf(cachedTip, tipAge)'
      BY <1>2, <2>2, TipOfMine DEF WalkInv, TipOK, TipOf, tipVars
    <3> QED BY <1>2, <3>1 DEF WalkInv, TipOK, tipVars
  <2> QED BY <2>1, <2>2 DEF WalkInv, TipOK
<1>6. IsLookups' /\ LookupsOK'
  <2>1. ASSUME NEW c \in Lookups PROVE LookupOK(lookup[c])'
    <3>1. LookupOK(lookup[c]) /\ lookup'[c] = lookup[c]
      BY <1>2 DEF WalkInv, LookupsOK
    <3>2. Read(lookup[c].history)'
      BY <1>1, <1>2, <3>1, ReadStays DEF LookupOK, WalkInv, ChainOK
    <3>3. lookup[c].was <= height' /\ lookup[c] \in LookupRecord /\ lookup[c].now \in Nat
      BY <1>2, <3>1 DEF LookupOK, LookupRecord
    <3>4. lookup[c].pc = "told" => TipOf(lookup[c].answer, lookup[c].now)'
      BY <1>2, <3>1, <3>3, TipOfMine DEF LookupOK, WalkInv
    <3>5. lookup[c].pc = "told" => lookup[c].was <= lookup[c].answer
      BY <3>1 DEF LookupOK
    <3> QED BY <3>1, <3>2, <3>3, <3>4, <3>5 DEF LookupOK
  <2> QED BY <1>2, <2>1 DEF WalkInv, LookupsOK, IsLookups
<1> QED BY <1>3, <1>4, <1>5, <1>6 DEF WalkInv

LEMMA TickKeepsInv ==
  ASSUME WalkInv, Tick
  PROVE  WalkInv'
<1>1. UNCHANGED <<height, txs, mempool, cachedTip>> /\ tipAge' = Older(tipAge)
  BY DEF Tick
<1>2. ServedOK'
  BY NothingIsServed DEF Tick
<1>3. ChainOK'
  <2>1. mined' \in [1..MAX_HEIGHT -> 0..OLD] /\ \A h \in 1..MAX_HEIGHT : h > height => mined'[h] = 0
    BY DEF Tick, Older, WalkInv, ChainOK
  <2> QED BY <1>1, <2>1 DEF WalkInv, ChainOK
<1>4. TipOK'
  <2>1. PICK age \in 0..OLD : age = tipAge
    BY DEF WalkInv, TipOK
  <2>2. PICK tip : tip = cachedTip
    OBVIOUS
  <2>3. tipAge' = Older(age) /\ cachedTip' = tip /\ Older(age) \in 0..OLD
    BY <1>1, <2>1, <2>2 DEF Older
  <2>4. tip # NoTip => TipOf(tip, Older(age))'
    BY <2>1, <2>2, TipOfTick DEF WalkInv, TipOK
  <2> QED BY <2>3, <2>4 DEF TipOK, TipOf
<1>5. ASSUME NEW c \in Lookups PROVE LookupOK(lookup[c])'
  <2>1. PICK l, m : l = lookup[c] /\ m = lookup'[c]
    OBVIOUS
  <2>2. /\ l \in LookupRecord /\ Read(l.history) /\ l.was <= height
        /\ l.pc = "told" => TipOf(l.answer, l.now)
        /\ l.pc = "told" => l.was <= l.answer
    BY <2>1 DEF WalkInv, LookupsOK, LookupOK
  <2>3. Read(l.history)'
    BY <1>1, <2>2 DEF Read
  <2>4. CASE l.pc = "idle"
    <3>1. m = l
      BY <2>1, <2>4 DEF Tick
    <3> QED BY <1>1, <2>1, <2>2, <2>3, <2>4, <3>1 DEF LookupOK
  <2>5. CASE l.pc # "idle"
    <3>1. m = [l EXCEPT !.now = @ + 1] /\ l.now < REQUEST_MS /\ l.now \in 0..REQUEST_MS
      BY <2>1, <2>2, <2>5 DEF Tick, LookupRecord
    <3>2. /\ m.pc = l.pc /\ m.history = l.history /\ m.was = l.was /\ m.answer = l.answer
          /\ m.now = l.now + 1 /\ m \in LookupRecord
      BY <2>2, <3>1 DEF LookupRecord
    <3>3. ASSUME l.pc = "told"
          PROVE  TipOf(l.answer, l.now + 1)'
      <4>1. TipOf(l.answer, Older(l.now))'
        BY <2>2, <3>1, <3>3, TipOfTick DEF WalkInv
      <4>2. Older(l.now) = l.now + 1
        BY <3>1 DEF Older
      <4> QED BY <4>1, <4>2
    <3>4. LookupOK(m)'
      BY <1>1, <2>2, <2>3, <3>2, <3>3 DEF LookupOK
    <3> QED BY <2>1, <3>4 DEF LookupOK
  <2> QED BY <2>4, <2>5
<1>6. IsLookups' /\ LookupsOK'
  BY <1>5 DEF Tick, IsLookups, LookupsOK
<1> QED BY <1>2, <1>3, <1>4, <1>6 DEF WalkInv

\* The invariant of the lookups: whatever the cached tip and the tips that are
\* on their way are, none is behind the chain of the time it is stamped with,
\* and every history was read from the chain.
THEOREM WalkInvariant == Spec => []WalkInv
<1>1. Init => WalkInv
  <2> SUFFICES ASSUME Init PROVE WalkInv
    OBVIOUS
  <2>1. ChainOK
    <3>1. /\ height = 0 /\ txs = <<>> /\ mempool = FALSE
          /\ mined = [h \in 1..MAX_HEIGHT |-> 0]
      BY DEF Init
    <3>2. txs \in Seq(Tx) /\ Len(txs) = 0
      BY <3>1
    <3>3. \A i \in 1..Len(txs) : txs[i].height <= height
      BY <3>2
    <3>4. mined \in [1..MAX_HEIGHT -> 0..OLD]
      BY <3>1
    <3>5. \A h \in 1..MAX_HEIGHT : h > height => mined[h] = 0
      BY <3>1
    <3>6. height \in Heights
      BY <3>1
    <3>7. mempool \in BOOLEAN
      BY <3>1
    <3> QED BY <3>2, <3>3, <3>4, <3>5, <3>6, <3>7 DEF ChainOK
  <2>2. TipOK /\ IsLookups
    BY DEF Init, TipOK, IsLookups
  <2>3. LookupsOK
    BY <2>1, IdleIsOK, NothingRead DEF Init, LookupsOK
  <2>4. served.row = 0 /\ served.history = <<>>
    BY DEF Init, Nothing
  <2>5. ServedOK
    BY <2>4 DEF ServedOK, UpdateIsServedInTime, ExpiryIsInTime, ServedIsConfirmed
  <2> QED BY <2>1, <2>2, <2>3, <2>5 DEF WalkInv
<1>2. WalkInv /\ [Next]_vars => WalkInv'
  <2> SUFFICES ASSUME WalkInv, [Next]_vars PROVE WalkInv'
    OBVIOUS
  <2>1. CASE Next
    BY <2>1, HistoryKeepsInv, TellKeepsInv, ToldKeepsInv, NotToldKeepsInv,
       BroadcastKeepsInv, MineKeepsInv, TickKeepsInv DEF Next
  <2>2. CASE UNCHANGED vars
    BY <2>2 DEF vars, chainVars, tipVars, WalkInv, ChainOK, TipOK, TipOf, IsLookups,
                LookupsOK, LookupOK, Read, ServedOK, UpdateIsServedInTime,
                ExpiryIsInTime, ServedIsConfirmed
  <2> QED BY <2>1, <2>2
<1> QED BY <1>1, <1>2, PTL DEF Spec

-----------------------------------------------------------------------------
\* Lookups that overlap overwrite each other's tip in any order, and the
\* cached tip is never behind the chain of the time it is stamped with.
THEOREM TipIsAsOfItsStamp == Spec => []TipIsNotBehindItsStamp
<1>1. WalkInv => TipIsNotBehindItsStamp
  <2> SUFFICES ASSUME WalkInv PROVE TipIsNotBehindItsStamp
    OBVIOUS
  <2>1. TypeOK
    BY DEF WalkInv, ChainOK, TipOK, TipOf, LookupsOK, LookupOK, LookupRecord, ServedOK, TypeOK
  <2>2. ASSUME cachedTip # NoTip PROVE cachedTip >= HeightAgo(tipAge + 1)
    <3>1. TipOf(cachedTip, tipAge) /\ tipAge \in Nat /\ height \in Heights
      BY <2>2 DEF WalkInv, ChainOK, TipOK
    <3> DEFINE ago == HeightAgo(tipAge + 1)
    <3>2. /\ ago \in 0..height
          /\ ago > 0 => mined[ago] >= tipAge + 1
      BY <3>1, HeightAgoIs
    <3>3. ago > 0 => mined[ago] \in Nat
      BY <3>1, <3>2 DEF WalkInv, ChainOK
    <3> HIDE DEF ago
    <3>4. cachedTip >= ago
      BY <3>1, <3>2, <3>3 DEF TipOf
    <3> QED BY <3>4 DEF ago
  <2> QED BY <2>1, <2>2 DEF TipIsNotBehindItsStamp
<1> QED BY <1>1, WalkInvariant, PTL

\* An update is served as soon as it has had enough confirmations for the
\* life of a cached tip, unless the walk cannot get to it or a fetch fails.
THEOREM UpdatesAreServedInTime == Spec => []UpdateIsServedInTime
<1>1. WalkInv => UpdateIsServedInTime
  BY DEF WalkInv, ServedOK
<1> QED BY <1>1, WalkInvariant, PTL

\* A name is called expired only if it is, and taken for alive no longer than
\* for the life of a cached tip after it expired.
THEOREM NamesExpireInTime == Spec => []ExpiryIsInTime
<1>1. WalkInv => ExpiryIsInTime
  BY DEF WalkInv, ServedOK
<1> QED BY <1>1, WalkInvariant, PTL

\* What is served is an update of the name that is mined and, if the lookup
\* has a tip, confirmed.
THEOREM NothingElseIsServed == Spec => []ServedIsConfirmed
<1>1. WalkInv => ServedIsConfirmed
  BY DEF WalkInv, ServedOK
<1> QED BY <1>1, WalkInvariant, PTL
=============================================================================
