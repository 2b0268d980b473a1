---------------------------- MODULE PolicyProofs ----------------------------
(***************************************************************************)
(* The rules loader neither rolls back nor depends on the order of         *)
(* arrival, for every set of documents and of sources; what the policy     *)
(* accepts is justified by the chain and by the rules, for any number of   *)
(* lines, identifiers, authors and documents, any traffic, and all times   *)
(* to live.                                                                *)
(***************************************************************************)
EXTENDS Policy, RulesTags, FiniteSetTheorems, TLAPS, WellFoundedInduction

-----------------------------------------------------------------------------
(***************************************************************************)
(* The rules loader.                                                       *)
(***************************************************************************)
USE RulesAssumption DEF RulesAssumption

LEMMA KeyOfDoc == ASSUME NEW d \in Docs PROVE KeyOf(d) \in Keys
  BY DEF Keys

\* The pick is one of the candidates, and none of them is newer: a newer one
\* would survive the ratchets the pick survives.
LEMMA PickedIsNewest ==
  ASSUME NEW candidates, candidates \subseteq Docs,
         NEW d \in Docs, Picked(candidates, d)
  PROVE  d \in candidates /\ \A c \in candidates : c.createdAt <= d.createdAt
<1> DEFINE alive == Survivors(candidates)
<1>1. d # NoDoc
  OBVIOUS
<1>2. d \in alive /\ \A e \in alive : e.createdAt <= d.createdAt
  BY <1>1 DEF Picked
<1>3. d \in candidates /\ \A c \in candidates : d.createdAt >= c.minRulesCreatedAt
  BY <1>2 DEF Survivors
<1>4. ASSUME NEW c \in candidates PROVE c.createdAt <= d.createdAt
  <2>1. SUFFICES ASSUME ~(c.createdAt <= d.createdAt) PROVE FALSE
    OBVIOUS
  <2>2. c \in Docs /\ c.createdAt \in Nat /\ d.createdAt \in Nat
    OBVIOUS
  <2>3. ASSUME NEW b \in candidates PROVE c.createdAt >= b.minRulesCreatedAt
    <3>1. b.minRulesCreatedAt \in Nat /\ d.createdAt >= b.minRulesCreatedAt
      BY <1>3
    <3> QED BY <2>1, <2>2, <3>1
  <2>4. c \in alive
    BY <2>3 DEF Survivors
  <2> QED BY <1>2, <2>1, <2>4
<1> QED BY <1>3, <1>4

LEMMA CandidatesAreDocs ==
  ASSUME NEW byKey \in [Keys -> Docs \cup {NoDoc}]
  PROVE  Candidates(byKey) \subseteq Docs
  BY DEF Candidates

LEMMA OfferType ==
  ASSUME LoaderTypeOK, NEW d \in Docs, Offer(d)
  PROVE  /\ rulesByKey' \in [Keys -> Docs \cup {NoDoc}]
         /\ active' \in Docs \cup {NoDoc}
         /\ offered' \subseteq Docs
         /\ newest' \in Nat
<1>1. rulesByKey' \in [Keys -> Docs \cup {NoDoc}]
  BY KeyOfDoc DEF LoaderTypeOK, Offer
<1>2. active' \in Docs \cup {NoDoc}
  BY DEF LoaderTypeOK, Offer
<1>3. offered' \subseteq Docs
  BY DEF LoaderTypeOK, Offer, Note
<1>4. newest' \in Nat
  BY <1>2 DEF LoaderTypeOK, Offer
<1> QED BY <1>1, <1>2, <1>3, <1>4

\* An offer replaces a candidate only by a newer one, so as new a candidate
\* as before remains.
LEMMA OfferKeepsNewest ==
  ASSUME LoaderTypeOK, RollbackIInv, NEW d \in Docs, Offer(d), Accepted(d), newest # 0
  PROVE  \E k \in Keys : rulesByKey'[k] # NoDoc /\ rulesByKey'[k].createdAt >= newest
<1>1. PICK k \in Keys : rulesByKey[k] # NoDoc /\ rulesByKey[k].createdAt >= newest
  BY DEF RollbackIInv
<1>2. rulesByKey' = [rulesByKey EXCEPT ![KeyOf(d)] = d]
  BY DEF Offer
<1>3. CASE k # KeyOf(d)
  BY <1>1, <1>2, <1>3 DEF LoaderTypeOK
<1>4. CASE k = KeyOf(d)
  <2>1. rulesByKey[k] = d \/ ~(rulesByKey[k].createdAt >= d.createdAt)
    BY <1>1, <1>4 DEF Accepted, Superseded
  <2>2. rulesByKey[k] \in Docs /\ newest \in Nat
    BY <1>1 DEF LoaderTypeOK
  <2>3. rulesByKey[k].createdAt \in Nat /\ d.createdAt \in Nat
    BY <2>2
  <2>4. d.createdAt >= newest
    BY <1>1, <2>1, <2>2, <2>3
  <2>5. rulesByKey'[k] = d
    BY <1>2, <1>4 DEF LoaderTypeOK
  <2> QED BY <2>4, <2>5
<1> QED BY <1>3, <1>4

LEMMA OfferKeepsInv ==
  ASSUME LoaderTypeOK, RollbackIInv, NEW d \in Docs, Offer(d)
  PROVE  RollbackIInv'
<1>0. /\ newest \in Nat
      /\ newest' = IF active' # NoDoc /\ active'.createdAt > newest
                   THEN active'.createdAt ELSE newest
  BY DEF LoaderTypeOK, Offer
<1>1. CASE ~Accepted(d)
  <2>1. UNCHANGED <<rulesByKey, active>>
    BY <1>1 DEF Offer
  <2>2. newest' = newest
    BY <1>0, <2>1 DEF RollbackIInv
  <2> QED BY <2>1, <2>2 DEF RollbackIInv
<1>2. CASE Accepted(d)
  <2>1. CASE active' = NoDoc
    <3>1. newest' = newest
      BY <1>0, <2>1
    <3> QED BY <1>2, <2>1, <3>1, OfferKeepsNewest DEF RollbackIInv
  <2>2. CASE active' # NoDoc
    <3>1. active' \in Docs /\ rulesByKey' \in [Keys -> Docs \cup {NoDoc}]
      BY <2>2, OfferType
    <3>2. Candidates(rulesByKey') \subseteq Docs
      BY <3>1, CandidatesAreDocs
    <3>3. Picked(Candidates(rulesByKey'), active')
      BY <1>2 DEF Offer
    <3>4. /\ active' \in Candidates(rulesByKey')
          /\ \A c \in Candidates(rulesByKey') : c.createdAt <= active'.createdAt
      BY <3>1, <3>2, <3>3, PickedIsNewest
    <3>5. PICK k \in Keys : rulesByKey'[k] = active'
      BY <3>4 DEF Candidates
    <3>6. active'.createdAt \in Nat /\ active'.createdAt >= newest
      <4>1. active'.createdAt \in Nat
        BY <3>1
      <4>2. CASE newest = 0
        BY <4>1, <4>2
      <4>3. CASE newest # 0
        <5>1. PICK j \in Keys : rulesByKey'[j] # NoDoc /\ rulesByKey'[j].createdAt >= newest
          BY <1>2, <4>3, OfferKeepsNewest
        <5>2. rulesByKey'[j] \in Docs /\ rulesByKey'[j] \in Candidates(rulesByKey')
          BY <3>1, <5>1 DEF Candidates
        <5>3. /\ rulesByKey'[j].createdAt \in Nat
              /\ rulesByKey'[j].createdAt <= active'.createdAt
          BY <3>4, <5>2
        <5> QED BY <1>0, <4>1, <5>1, <5>3
      <4> QED BY <4>2, <4>3
    <3>7. newest' = active'.createdAt
      BY <1>0, <2>2, <3>6
    <3> QED BY <2>2, <3>5, <3>6, <3>7 DEF RollbackIInv
  <2> QED BY <2>1, <2>2
<1> QED BY <1>1, <1>2

LEMMA RestartKeepsInv ==
  ASSUME LoaderTypeOK, Restart
  PROVE  RollbackIInv' /\ LoaderTypeOK'
<1>1. CASE file # NoDoc /\ Admissible(file)
  <2>1. file \in Docs
    BY <1>1 DEF LoaderTypeOK
  <2>2. /\ rulesByKey' = [Forgotten EXCEPT ![KeyOf(file)] = file]
        /\ active' \in Docs \cup {NoDoc} /\ Picked({file}, active')
        /\ offered' = {file}
        /\ newest' = IF active' # NoDoc THEN active'.createdAt ELSE 0
        /\ file' = file
    BY <1>1 DEF Restart
  <2>3. KeyOf(file) \in Keys
    BY <2>1, KeyOfDoc
  <2>4. /\ rulesByKey' \in [Keys -> Docs \cup {NoDoc}]
        /\ rulesByKey'[KeyOf(file)] = file
    BY <2>1, <2>2, <2>3 DEF Forgotten
  <2>5. newest' \in Nat
    BY <2>2
  <2>6. LoaderTypeOK'
    BY <2>1, <2>2, <2>4, <2>5 DEF LoaderTypeOK
  <2>7. CASE active' = NoDoc
    BY <2>2, <2>6, <2>7 DEF RollbackIInv
  <2>8. CASE active' # NoDoc
    <3>1. active' \in Docs
      BY <2>2, <2>8
    <3>2. active' = file
      BY <2>1, <2>2, <3>1, PickedIsNewest
    <3>3. active'.createdAt \in Nat /\ newest' = active'.createdAt
      BY <2>2, <2>8, <3>1
    <3> QED BY <1>1, <2>3, <2>4, <2>6, <3>2, <3>3 DEF RollbackIInv
  <2> QED BY <2>7, <2>8
<1>2. CASE ~(file # NoDoc /\ Admissible(file))
  <2>1. /\ rulesByKey' = Forgotten /\ active' = NoDoc /\ offered' = {}
        /\ newest' = 0 /\ file' = file
    BY <1>2 DEF Restart
  <2>2. Forgotten \in [Keys -> Docs \cup {NoDoc}]
    BY DEF Forgotten
  <2> QED BY <2>1, <2>2 DEF RollbackIInv, LoaderTypeOK
<1> QED BY <1>1, <1>2

\* Anti-rollback and type correctness of the loader: a rules document is
\* never replaced by an older one while the process runs, for any documents,
\* ratchets, community, sources and order of arrival.
THEOREM RulesNeverRollBack == LoaderSpec => [](LoaderTypeOK /\ NoRollback)
<1> DEFINE Inv == LoaderTypeOK /\ RollbackIInv
<1>1. LoaderInit => Inv
  BY DEF LoaderInit, LoaderTypeOK, RollbackIInv
<1>2. Inv /\ [LoaderNext]_loaderVars => Inv'
  <2> SUFFICES ASSUME Inv, [LoaderNext]_loaderVars PROVE Inv'
    OBVIOUS
  <2>1. ASSUME NEW d \in Docs, Offer(d), UNCHANGED file PROVE Inv'
    BY <2>1, OfferType, OfferKeepsInv DEF LoaderTypeOK
  <2>2. CASE Stream
    BY <2>1, <2>2 DEF Stream
  <2>3. CASE LoadFile
    <3>1. CASE file = NoDoc
      BY <2>3, <3>1 DEF LoadFile, LoaderTypeOK, RollbackIInv
    <3>2. CASE file # NoDoc
      <4>1. file \in Docs /\ Offer(file) /\ UNCHANGED file
        BY <2>3, <3>2 DEF LoadFile, LoaderTypeOK
      <4> QED BY <2>1, <4>1
    <3> QED BY <3>1, <3>2
  <2>4. CASE WriteFile
    BY <2>4 DEF WriteFile, LoaderTypeOK, RollbackIInv
  <2>5. CASE Restart
    BY <2>5, RestartKeepsInv
  <2>6. CASE UNCHANGED loaderVars
    BY <2>6 DEF loaderVars, LoaderTypeOK, RollbackIInv
  <2> QED BY <2>2, <2>3, <2>4, <2>5, <2>6 DEF LoaderNext
<1>3. Inv => LoaderTypeOK /\ NoRollback
  <2> SUFFICES ASSUME Inv, active # NoDoc PROVE active.createdAt >= newest
    BY DEF NoRollback
  <2>1. newest = active.createdAt /\ newest \in Nat
    BY DEF RollbackIInv, LoaderTypeOK
  <2> QED BY <2>1
<1> QED BY <1>1, <1>2, <1>3, PTL DEF LoaderSpec
-----------------------------------------------------------------------------
(***************************************************************************)
(* What the order of arrival does not change.                              *)
(***************************************************************************)
\* Per key the candidate is the newest document that was offered, or one of
\* them; and the document in force is the pick of the candidates.
NewestAreKept ==
  /\ \A d \in offered : rulesByKey[KeyOf(d)] # NoDoc
  /\ \A k \in Keys : rulesByKey[k] # NoDoc =>
       /\ rulesByKey[k] \in offered /\ KeyOf(rulesByKey[k]) = k
       /\ \A e \in offered : KeyOf(e) = k => e.createdAt <= rulesByKey[k].createdAt
  /\ Picked(Candidates(rulesByKey), active)

LEMMA OfferKeepsNewestPerKey ==
  ASSUME LoaderTypeOK, NewestAreKept, NEW d \in Docs, Offer(d)
  PROVE  NewestAreKept'
<1>1. /\ offered \subseteq Docs /\ rulesByKey \in [Keys -> Docs \cup {NoDoc}]
      /\ KeyOf(d) \in Keys /\ offered' = offered \cup (IF Admissible(d) THEN {d} ELSE {})
  BY KeyOfDoc DEF LoaderTypeOK, Offer, Note
<1>2. CASE ~Accepted(d)
  <2>1. UNCHANGED <<rulesByKey, active>>
    BY <1>2 DEF Offer
  <2>2. CASE ~Admissible(d)
    <3>1. offered' = offered
      BY <1>1, <2>2
    <3> QED BY <2>1, <3>1 DEF NewestAreKept, Candidates
  <2>3. CASE Admissible(d)
    <3>1. offered' = offered \cup {d}
      BY <1>1, <2>3
    <3>2. PICK prior : prior = rulesByKey[KeyOf(d)]
      OBVIOUS
    <3>3. prior # NoDoc /\ prior.createdAt >= d.createdAt
      BY <1>2, <2>3, <3>2 DEF Accepted, Superseded
    <3>4. prior \in Docs /\ d.createdAt <= prior.createdAt
      BY <1>1, <3>2, <3>3
    <3>5. \A e \in offered' : rulesByKey[KeyOf(e)] # NoDoc
      BY <3>1, <3>2, <3>3 DEF NewestAreKept
    <3>6. ASSUME NEW k \in Keys, rulesByKey[k] # NoDoc
          PROVE  /\ rulesByKey[k] \in offered' /\ KeyOf(rulesByKey[k]) = k
                 /\ \A e \in offered' : KeyOf(e) = k => e.createdAt <= rulesByKey[k].createdAt
      BY <3>1, <3>2, <3>4, <3>6 DEF NewestAreKept
    <3> QED BY <2>1, <3>5, <3>6 DEF NewestAreKept, Candidates
  <2> QED BY <2>2, <2>3
<1>3. CASE Accepted(d)
  <2>1. /\ rulesByKey' = [rulesByKey EXCEPT ![KeyOf(d)] = d]
        /\ Picked(Candidates(rulesByKey'), active')
        /\ offered' = offered \cup {d}
    BY <1>1, <1>3 DEF Offer, Accepted
  <2>2. \A k \in Keys : rulesByKey'[k] = IF k = KeyOf(d) THEN d ELSE rulesByKey[k]
    BY <1>1, <2>1
  <2>3. \A e \in offered' : rulesByKey'[KeyOf(e)] # NoDoc
    BY <1>1, <2>1, <2>2, KeyOfDoc DEF NewestAreKept
  <2>4. ASSUME NEW e \in offered, KeyOf(e) = KeyOf(d) PROVE e.createdAt <= d.createdAt
    <3>1. PICK prior : prior = rulesByKey[KeyOf(d)]
      OBVIOUS
    <3>2. prior # NoDoc /\ prior \in Docs /\ e.createdAt <= prior.createdAt
      BY <1>1, <2>4, <3>1 DEF NewestAreKept
    <3>3. prior = d \/ ~(prior.createdAt >= d.createdAt)
      BY <1>3, <3>1, <3>2 DEF Accepted, Superseded
    <3>4. e \in Docs
      BY <1>1
    <3> QED BY <3>2, <3>3, <3>4
  <2>5. ASSUME NEW k \in Keys, rulesByKey'[k] # NoDoc
        PROVE  /\ rulesByKey'[k] \in offered' /\ KeyOf(rulesByKey'[k]) = k
               /\ \A e \in offered' : KeyOf(e) = k => e.createdAt <= rulesByKey'[k].createdAt
    <3>1. CASE k = KeyOf(d)
      <4>1. d.createdAt <= d.createdAt
        OBVIOUS
      <4> QED BY <2>1, <2>2, <2>4, <3>1, <4>1
    <3>2. CASE k # KeyOf(d)
      BY <2>1, <2>2, <2>5, <3>2 DEF NewestAreKept
    <3> QED BY <3>1, <3>2
  <2> QED BY <2>1, <2>3, <2>5 DEF NewestAreKept, Candidates
<1> QED BY <1>2, <1>3

LEMMA RestartKeepsNewestPerKey ==
  ASSUME LoaderTypeOK, Restart
  PROVE  NewestAreKept'
<1>1. CASE file # NoDoc /\ Admissible(file)
  <2>1. /\ file \in Docs /\ KeyOf(file) \in Keys /\ offered' = {file}
        /\ rulesByKey' = [Forgotten EXCEPT ![KeyOf(file)] = file]
        /\ Picked({file}, active')
    BY <1>1, KeyOfDoc DEF Restart, LoaderTypeOK
  <2>2. \A k \in Keys : rulesByKey'[k] = IF k = KeyOf(file) THEN file ELSE NoDoc
    BY <2>1 DEF Forgotten
  <2>3. Candidates(rulesByKey') = {file}
    BY <1>1, <2>1, <2>2 DEF Candidates
  <2>4. file.createdAt <= file.createdAt
    BY <2>1
  <2>5. ASSUME NEW k \in Keys, rulesByKey'[k] # NoDoc
        PROVE  /\ rulesByKey'[k] \in offered' /\ KeyOf(rulesByKey'[k]) = k
               /\ \A e \in offered' : KeyOf(e) = k => e.createdAt <= rulesByKey'[k].createdAt
    BY <2>1, <2>2, <2>4, <2>5
  <2>6. \A e \in offered' : rulesByKey'[KeyOf(e)] # NoDoc
    BY <1>1, <2>1, <2>2
  <2>7. Picked(Candidates(rulesByKey'), active')
    BY <2>1, <2>3
  <2> QED BY <2>5, <2>6, <2>7 DEF NewestAreKept, Candidates
<1>2. CASE ~(file # NoDoc /\ Admissible(file))
  <2>1. rulesByKey' = Forgotten /\ active' = NoDoc /\ offered' = {}
    BY <1>2 DEF Restart
  <2>2. \A k \in Keys : rulesByKey'[k] = NoDoc
    BY <2>1 DEF Forgotten
  <2>3. Candidates(rulesByKey') = {}
    BY <2>2 DEF Candidates
  <2>4. Picked({}, active')
    BY <2>1 DEF Picked, Survivors
  <2>5. Picked(Candidates(rulesByKey'), active')
    BY <2>3, <2>4
  <2> QED BY <2>1, <2>2, <2>5 DEF NewestAreKept, Candidates
<1> QED BY <1>1, <1>2

LEMMA InitKeepsNewest == LoaderInit => NewestAreKept
<1> SUFFICES ASSUME LoaderInit PROVE NewestAreKept
  OBVIOUS
<1>1. /\ \A k \in Keys : rulesByKey[k] = NoDoc
      /\ active = NoDoc /\ offered = {}
  BY DEF LoaderInit
<1>2. Candidates(rulesByKey) = {}
  BY <1>1 DEF Candidates
<1>3. Picked({}, active)
  BY <1>1 DEF Picked, Survivors
<1> QED BY <1>1, <1>2, <1>3 DEF NewestAreKept

LEMMA StepKeepsNewest ==
  ASSUME LoaderTypeOK, NewestAreKept, [LoaderNext]_loaderVars
  PROVE  NewestAreKept'
<1>1. ASSUME UNCHANGED <<rulesByKey, active, offered>> PROVE NewestAreKept'
  BY <1>1 DEF NewestAreKept, Candidates
<1>2. CASE Stream
  BY <1>2, OfferKeepsNewestPerKey DEF Stream
<1>3. CASE LoadFile
  <2>1. CASE file = NoDoc
    BY <1>1, <1>3, <2>1 DEF LoadFile
  <2>2. CASE file # NoDoc
    <3>1. file \in Docs /\ Offer(file)
      BY <1>3, <2>2 DEF LoadFile, LoaderTypeOK
    <3> QED BY <3>1, OfferKeepsNewestPerKey
  <2> QED BY <2>1, <2>2
<1>4. CASE WriteFile
  BY <1>1, <1>4 DEF WriteFile
<1>5. CASE Restart
  BY <1>5, RestartKeepsNewestPerKey
<1>6. CASE UNCHANGED loaderVars
  BY <1>1, <1>6 DEF loaderVars
<1> QED BY <1>2, <1>3, <1>4, <1>5, <1>6 DEF LoaderNext

\* Without ties the candidates are the newest documents of their keys.
LEMMA CandidatesAreNewest ==
  ASSUME LoaderTypeOK, NewestAreKept, NoTies
  PROVE  NewestPerKey = Candidates(rulesByKey)
<1>1. /\ offered \subseteq Docs /\ rulesByKey \in [Keys -> Docs \cup {NoDoc}]
      /\ \A d \in offered : KeyOf(d) \in Keys
  BY KeyOfDoc DEF LoaderTypeOK
<1>2. ASSUME NEW d \in NewestPerKey PROVE d \in Candidates(rulesByKey)
  <2>1. PICK c : c = rulesByKey[KeyOf(d)]
    OBVIOUS
  <2>2. d \in offered /\ d \in Docs /\ KeyOf(d) \in Keys /\ c \in offered /\ KeyOf(c) = KeyOf(d)
        /\ d.createdAt <= c.createdAt
    BY <1>1, <2>1 DEF NewestPerKey, NewestAreKept
  <2>3. c.createdAt <= d.createdAt /\ c \in Docs
    BY <1>1, <2>2 DEF NewestPerKey
  <2>4. c.createdAt = d.createdAt
    BY <2>2, <2>3
  <2>5. c = d
    BY <2>2, <2>4 DEF NoTies
  <2> QED BY <2>1, <2>2, <2>5 DEF Candidates
<1>3. ASSUME NEW d \in Candidates(rulesByKey) PROVE d \in NewestPerKey
  BY <1>3 DEF Candidates, NewestPerKey, NewestAreKept
<1> QED BY <1>2, <1>3

LEMMA NewestAlwaysKept == LoaderSpec => [](LoaderTypeOK /\ NewestAreKept)
<1>1. LoaderInit => NewestAreKept
  BY InitKeepsNewest
<1>2. LoaderTypeOK /\ NewestAreKept /\ [LoaderNext]_loaderVars => NewestAreKept'
  BY StepKeepsNewest
<1> QED BY <1>1, <1>2, RulesNeverRollBack, PTL DEF LoaderSpec

\* Which rules are in force depends on the documents that have been offered
\* since the start, and on nothing else: offering them again, in another
\* order, or from the other source (stream and file) changes nothing.
THEOREM OrderDoesNotMatter == LoaderSpec => []OrderIndependent
<1>1. LoaderTypeOK /\ NewestAreKept => OrderIndependent
  BY CandidatesAreNewest DEF OrderIndependent, NewestAreKept
<1> QED BY <1>1, NewestAlwaysKept, PTL

LEMMA LiftedByRatchet ==
  ASSUME LoaderTypeOK, NewestAreKept, NEW d \in Docs, Offer(d),
         active # NoDoc, active' = NoDoc, NewestAreKept', LoaderTypeOK'
  PROVE  \E c \in offered' : \A e \in NewestPerKey' : c.minRulesCreatedAt > e.createdAt
<1>1. /\ Accepted(d) /\ rulesByKey' = [rulesByKey EXCEPT ![KeyOf(d)] = d]
      /\ Picked(Candidates(rulesByKey'), NoDoc)
  BY DEF Offer
<1>2. /\ active \in Docs /\ rulesByKey \in [Keys -> Docs \cup {NoDoc}]
      /\ rulesByKey' \in [Keys -> Docs \cup {NoDoc}] /\ KeyOf(d) \in Keys
  BY KeyOfDoc DEF LoaderTypeOK
<1>3. active \in Candidates(rulesByKey) /\ \A c \in Candidates(rulesByKey) : c.createdAt <= active.createdAt
  BY <1>2, CandidatesAreDocs, PickedIsNewest DEF NewestAreKept
<1>4. \A k \in Keys : rulesByKey'[k] = IF k = KeyOf(d) THEN d ELSE rulesByKey[k]
  BY <1>1, <1>2
<1>5. Candidates(rulesByKey') \subseteq Candidates(rulesByKey) \cup {d}
  BY <1>4 DEF Candidates
<1>6. d \in Candidates(rulesByKey')
  BY <1>2, <1>4 DEF Candidates
<1>7. active \in Candidates(rulesByKey') \/ active.createdAt <= d.createdAt
  <2>1. PICK k \in Keys : rulesByKey[k] = active
    BY <1>3 DEF Candidates
  <2>2. CASE k # KeyOf(d)
    BY <1>2, <1>4, <2>1, <2>2 DEF Candidates
  <2>3. CASE k = KeyOf(d)
    <3>1. active = d \/ ~(active.createdAt >= d.createdAt)
      BY <1>1, <2>1, <2>3 DEF Accepted, Superseded
    <3> QED BY <1>2, <1>6, <3>1
  <2> QED BY <2>2, <2>3
\* The newest candidate, which some ratchet outlaws.
<1>8. PICK m \in Candidates(rulesByKey') : \A c \in Candidates(rulesByKey') : c.createdAt <= m.createdAt
  <2>1. \A c \in Candidates(rulesByKey') : c.createdAt <= active.createdAt \/ c = d
    BY <1>3, <1>5
  <2>2. Candidates(rulesByKey') \subseteq Docs
    BY <1>2, CandidatesAreDocs
  <2>3. CASE active.createdAt <= d.createdAt
    <3>1. \A c \in Candidates(rulesByKey') : c.createdAt <= d.createdAt
      BY <1>2, <2>1, <2>2, <2>3
    <3> QED BY <1>6, <3>1
  <2>4. CASE ~(active.createdAt <= d.createdAt)
    <3>1. active \in Candidates(rulesByKey')
      BY <1>7, <2>4
    <3>2. d.createdAt <= active.createdAt
      BY <1>2, <2>4
    <3> QED BY <2>1, <3>1, <3>2
  <2> QED BY <2>3, <2>4
<1>9. Candidates(rulesByKey') \subseteq Docs
  BY <1>2, CandidatesAreDocs
<1>10. Survivors(Candidates(rulesByKey')) = {}
  <2>1. Survivors(Candidates(rulesByKey')) \subseteq Docs
    BY <1>9 DEF Survivors
  <2> QED BY <1>1, <2>1 DEF Picked
<1>11. PICK c \in Candidates(rulesByKey') : ~(m.createdAt >= c.minRulesCreatedAt)
  BY <1>10 DEF Survivors
<1>12. c \in offered'
  BY <1>11 DEF NewestAreKept, Candidates
<1>13. ASSUME NEW e \in NewestPerKey' PROVE c.minRulesCreatedAt > e.createdAt
  <2>1. PICK b : b = rulesByKey'[KeyOf(e)]
    OBVIOUS
  <2>2. e \in offered' /\ e \in Docs /\ KeyOf(e) \in Keys
    BY KeyOfDoc DEF NewestPerKey, LoaderTypeOK
  <2>3. b # NoDoc /\ e.createdAt <= b.createdAt /\ b \in Candidates(rulesByKey')
    BY <2>1, <2>2 DEF NewestAreKept, Candidates
  <2>4. b.createdAt <= m.createdAt
    BY <1>8, <2>3
  <2>5. b \in Docs /\ m \in Docs /\ c \in Docs
    BY <1>8, <1>9, <1>11, <2>3
  <2> QED BY <1>11, <2>2, <2>3, <2>4, <2>5
<1> QED BY <1>12, <1>13

\* Rules in force are lifted, while the process runs, only by a document
\* whose ratchet forbids even the newest one known: never by a malformed,
\* foreign or old document, nor by a file that is missing.
THEOREM OnlyARatchetLifts == LoaderSpec => LiftedOnlyByRatchet
<1>1. /\ LoaderTypeOK /\ NewestAreKept
      /\ (LoaderTypeOK /\ NewestAreKept)' /\ [LoaderNext]_loaderVars
      => [(active # NoDoc /\ active' = NoDoc /\ ~Restart)
            => \E d \in offered' : \A e \in NewestPerKey' :
                 d.minRulesCreatedAt > e.createdAt]_loaderVars
  <2> SUFFICES ASSUME LoaderTypeOK, NewestAreKept, (LoaderTypeOK /\ NewestAreKept)', LoaderNext,
                      active # NoDoc, active' = NoDoc, ~Restart
               PROVE  \E d \in offered' : \A e \in NewestPerKey' :
                        d.minRulesCreatedAt > e.createdAt
    OBVIOUS
  <2>1. CASE Stream
    BY <2>1, LiftedByRatchet DEF Stream
  <2>2. CASE LoadFile
    <3>1. file \in Docs /\ Offer(file)
      BY <2>2 DEF LoadFile, LoaderTypeOK
    <3> QED BY <3>1, LiftedByRatchet
  <2>3. CASE WriteFile
    BY <2>3 DEF WriteFile
  <2> QED BY <2>1, <2>2, <2>3 DEF LoaderNext
<1> QED BY <1>1, NewestAlwaysKept, PTL DEF LoaderSpec, LiftedOnlyByRatchet

HIDE RulesAssumption DEF RulesAssumption

USE PolicyAssumption DEF PolicyAssumption

-----------------------------------------------------------------------------
(***************************************************************************)
(* Verdicts.                                                               *)
(***************************************************************************)
LEMMA Smallest ==
  ASSUME NEW S \in SUBSET Nat, S # {}
  PROVE  \E m \in S : \A n \in S : m <= n
<1>1. PICK m \in S : \A n \in S : <<n, m>> \notin OpToRel(<, Nat)
  BY NatLessThanWellFounded, WFMin
<1>2. \A n \in S : ~(n < m)
  BY <1>1 DEF OpToRel
<1> QED BY <1>2

\* The reason given is that of a check that fails; none, if none does.
LEMMA FailureIs ==
  ASSUME NEW checks, NEW n \in Nat, DOMAIN checks = 1..n
  PROVE  \/ /\ FirstFailure(checks) = Absent
            /\ \A i \in 1..n : ~checks[i][1]
         \/ \E i \in 1..n : checks[i][1] /\ FirstFailure(checks) = checks[i][2]
<1> DEFINE failed == {i \in DOMAIN checks : checks[i][1]}
           first  == CHOOSE i \in failed : \A m \in failed : i <= m
<1>1. CASE failed = {}
  <2>1. FirstFailure(checks) = Absent
    BY <1>1 DEF FirstFailure
  <2> QED BY <1>1, <2>1
<1>2. CASE failed # {}
  <2>1. failed \in SUBSET Nat
    OBVIOUS
  <2>2. \E i \in failed : \A m \in failed : i <= m
    <3> HIDE DEF failed
    <3> QED BY <1>2, <2>1, Smallest
  <2>3. first \in failed
    <3> HIDE DEF failed
    <3> QED BY <2>2
  <2>4. FirstFailure(checks) = checks[first][2]
    BY <1>2 DEF FirstFailure
  <2> HIDE DEF first
  <2> QED BY <2>3, <2>4
<1> QED BY <1>1, <1>2

\* A verdict is "accept" when no check fails, otherwise one of the reasons.
LEMMA VerdictIs ==
  ASSUME NEW checks, NEW n \in Nat, DOMAIN checks = 1..n,
         \A i \in 1..n : checks[i][1] => checks[i][2] \in Reasons
  PROVE  \/ /\ FirstFailure(checks) = Absent /\ Verdict(checks) = "accept"
            /\ \A i \in 1..n : ~checks[i][1]
         \/ /\ FirstFailure(checks) \in Reasons
            /\ \E i \in 1..n : checks[i][1] /\ Verdict(checks) = checks[i][2]
<1>1. CASE FirstFailure(checks) = Absent /\ \A i \in 1..n : ~checks[i][1]
  BY <1>1 DEF Verdict
<1>2. ASSUME NEW i \in 1..n, checks[i][1], FirstFailure(checks) = checks[i][2]
      PROVE  FirstFailure(checks) \in Reasons /\ Verdict(checks) = checks[i][2]
  <2>1. checks[i][2] \in Reasons
    BY <1>2
  <2>2. checks[i][2] # Absent
    BY <2>1
  <2> QED BY <1>2, <2>1, <2>2 DEF Verdict
<1> QED BY <1>1, <1>2, FailureIs

LEMMA ViolationIs ==
  ASSUME NEW rules, NEW c
  PROVE  Violation(rules, c) \in Reasons \cup {Absent}
<1> DEFINE policy == PolicyFor(rules, c.author)
           rule   == RuleForKind(rules, c.kind)
           checks == <<
        <<rules.createdAt < rules.minRulesCreatedAt, "stale_rules">>,
        <<policy = "deny", "author_denied">>,
        <<rule = Absent, "kind_not_allowed">>,
        <<rule # Absent /\ Exceeds(c.sizeBytes, rule.maxBytes), "kind_size_exceeded">>,
        <<Exceeds(c.sizeBytes, rules.maxEventSize), "max_size_exceeded">>,
        <</\ rule # Absent /\ rule.maxPerDay # Absent
          /\ c.postsToday # Absent /\ c.postsToday >= rule.maxPerDay,
          "quota_exceeded">>,
        <</\ policy # "allow" /\ rules.wotGates # <<>> /\ c.trusted # Absent
          /\ \A n \in DOMAIN rules.wotGates : rules.wotGates[n] \notin c.trusted,
          "wot_gate_failed">> >>
<1>1. Violation(rules, c) = FirstFailure(checks)
  BY DEF Violation
<1>2. DOMAIN checks = 1..7 /\ \A i \in 1..7 : checks[i][2] \in Reasons
  BY DEF Reasons
<1> HIDE DEF checks
<1>3. PICK n \in Nat : n = 7
  OBVIOUS
<1> QED BY <1>1, <1>2, <1>3, VerdictIs

\* An ordinary event that is accepted passes the gate and the rules.
LEMMA OrdinaryIs ==
  ASSUME NEW e
  PROVE  /\ OrdinaryVerdict(e) # "unresolved"
         /\ OrdinaryVerdict(e) = "accept" =>
              /\ GatePasses(e.pubkey)
              /\ config.nip9a /\ active # NoDoc => Violation(active, Context(e)) = Absent
<1> DEFINE checks == <<
    <<~GatePasses(e.pubkey), "unverified-author">>,
    <<config.nip9a /\ active = NoDoc /\ config.requireRules, "nip9a-no-rules">>,
    <<RulesViolation(e) # Absent, RulesViolation(e)>>,
    <<config.rejectImeta /\ e.kind = 1 /\ e.imeta /\ ~IsWhitelisted(e.pubkey),
      "nip9a:imeta-blocked">> >>
<1>1. OrdinaryVerdict(e) = Verdict(checks)
  BY DEF OrdinaryVerdict
<1>2. RulesViolation(e) \in Reasons \cup {Absent}
  BY ViolationIs DEF RulesViolation
<1>3. /\ DOMAIN checks = 1..4
      /\ checks[1][1] <=> ~GatePasses(e.pubkey)
      /\ checks[3][1] <=> RulesViolation(e) # Absent
      /\ checks[3][2] = RulesViolation(e)
      /\ checks[1][2] = "unverified-author" /\ checks[2][2] = "nip9a-no-rules"
      /\ checks[4][2] = "nip9a:imeta-blocked"
  <2>1. PICK fails \in BOOLEAN : fails <=> ~GatePasses(e.pubkey)
    OBVIOUS
  <2>2. PICK broken \in BOOLEAN : broken <=> RulesViolation(e) # Absent
    OBVIOUS
  <2>3. PICK bare \in BOOLEAN : bare <=> config.nip9a /\ active = NoDoc /\ config.requireRules
    OBVIOUS
  <2>4. PICK imeta \in BOOLEAN :
          imeta <=> config.rejectImeta /\ e.kind = 1 /\ e.imeta /\ ~IsWhitelisted(e.pubkey)
    OBVIOUS
  <2>5. checks = << <<fails, "unverified-author">>, <<bare, "nip9a-no-rules">>,
                    <<broken, RulesViolation(e)>>, <<imeta, "nip9a:imeta-blocked">> >>
    BY <2>1, <2>2, <2>3, <2>4, Zenon
  <2> HIDE DEF checks
  <2> QED BY <2>1, <2>2, <2>5
<1> HIDE DEF checks
<1>4. ASSUME NEW i \in 1..4, checks[i][1] PROVE checks[i][2] \in Reasons
  <2>1. CASE i = 3
    BY <1>2, <1>3, <1>4, <2>1
  <2>2. CASE i # 3
    BY <1>3, <2>2 DEF Reasons
  <2> QED BY <2>1, <2>2
<1>5. \/ Verdict(checks) = "accept" /\ \A i \in 1..4 : ~checks[i][1]
      \/ \E i \in 1..4 : checks[i][1] /\ Verdict(checks) = checks[i][2]
  <2>1. PICK n \in Nat : n = 4
    OBVIOUS
  <2> QED BY <1>3, <1>4, <2>1, VerdictIs
<1>6. CASE \E i \in 1..4 : checks[i][1] /\ Verdict(checks) = checks[i][2]
  <2>1. Verdict(checks) \in Reasons
    BY <1>4, <1>6
  <2>2. Verdict(checks) # "accept" /\ Verdict(checks) # "unresolved"
    BY <2>1 DEF Reasons
  <2> QED BY <1>1, <2>2
<1>7. CASE Verdict(checks) = "accept" /\ \A i \in 1..4 : ~checks[i][1]
  <2>1. ~checks[1][1] /\ ~checks[3][1]
    BY <1>7
  <2>2. GatePasses(e.pubkey)
    BY <1>3, <2>1
  <2>3. RulesViolation(e) = Absent
    BY <1>3, <2>1
  <2>4. config.nip9a /\ active # NoDoc => Violation(active, Context(e)) = Absent
    BY <2>3 DEF RulesViolation
  <2> QED BY <1>1, <1>7, <2>2, <2>4
<1> QED BY <1>5, <1>6, <1>7

LEMMA MetadataIs ==
  ASSUME NEW e
  PROVE  /\ MetadataVerdict(e) # "unresolved"
         /\ MetadataVerdict(e) = "accept" => ~(e.nip05 \in Ids /\ config.client)
         /\ MetadataVerdict(e) = "resolve" => e.nip05 \in Ids
<1> DEFINE checks == <<
    <<e.nip05 = NonBit /\ ~config.allowNonBit, "non-bit-blocked">>,
    <<e.nip05 \in Ids /\ ~config.client /\ ~config.softFail, "no-resolver">>,
    <<e.nip05 \in Ids /\ config.client, "resolve">> >>
<1>1. MetadataVerdict(e) = Verdict(checks)
  BY DEF MetadataVerdict
<1>2. /\ DOMAIN checks = 1..3
      /\ checks[3][1] <=> e.nip05 \in Ids /\ config.client
      /\ checks[1][2] = "non-bit-blocked" /\ checks[2][2] = "no-resolver" /\ checks[3][2] = "resolve"
  <2>1. PICK other \in BOOLEAN : other <=> e.nip05 = NonBit /\ ~config.allowNonBit
    OBVIOUS
  <2>2. PICK none \in BOOLEAN : none <=> e.nip05 \in Ids /\ ~config.client /\ ~config.softFail
    OBVIOUS
  <2>3. PICK ask \in BOOLEAN : ask <=> e.nip05 \in Ids /\ config.client
    OBVIOUS
  <2>4. checks = << <<other, "non-bit-blocked">>, <<none, "no-resolver">>, <<ask, "resolve">> >>
    BY <2>1, <2>2, <2>3, Zenon
  <2> HIDE DEF checks
  <2> QED BY <2>3, <2>4
<1> HIDE DEF checks
<1>3. \A i \in 1..3 : checks[i][2] \in Reasons
  BY <1>2 DEF Reasons
<1>4. \/ Verdict(checks) = "accept" /\ \A i \in 1..3 : ~checks[i][1]
      \/ \E i \in 1..3 : checks[i][1] /\ Verdict(checks) = checks[i][2]
  <2>1. PICK n \in Nat : n = 3
    OBVIOUS
  <2> QED BY <1>2, <1>3, <2>1, VerdictIs
<1>5. CASE Verdict(checks) = "accept" /\ \A i \in 1..3 : ~checks[i][1]
  <2>1. ~checks[3][1]
    BY <1>5
  <2> QED BY <1>1, <1>2, <1>5, <2>1
<1>6. ASSUME NEW i \in 1..3, checks[i][1], Verdict(checks) = checks[i][2]
      PROVE  /\ Verdict(checks) # "accept" /\ Verdict(checks) # "unresolved"
             /\ Verdict(checks) = "resolve" => e.nip05 \in Ids
  <2>1. i = 1 \/ i = 2 \/ i = 3
    OBVIOUS
  <2>2. CASE i = 3
    <3>1. checks[3][1] /\ Verdict(checks) = "resolve"
      BY <1>2, <1>6, <2>2
    <3> QED BY <1>2, <3>1
  <2>3. CASE i # 3
    BY <1>2, <1>6, <2>1, <2>3
  <2> QED BY <2>2, <2>3
<1> QED BY <1>1, <1>4, <1>5, <1>6

LEMMA RulesEventIs ==
  ASSUME NEW e
  PROVE  /\ RulesEventVerdict(e) # "unresolved"
         /\ RulesEventVerdict(e) = "accept" => GatePasses(e.pubkey)
<1> DEFINE checks == << <<~GatePasses(e.pubkey), "unverified-author">> >>
<1>1. /\ DOMAIN checks = 1..1 /\ checks[1][2] = "unverified-author"
      /\ checks[1][1] <=> ~GatePasses(e.pubkey)
  <2>1. PICK fails \in BOOLEAN : fails <=> ~GatePasses(e.pubkey)
    OBVIOUS
  <2>2. checks = << <<fails, "unverified-author">> >>
    BY <2>1, Zenon
  <2> HIDE DEF checks
  <2> QED BY <2>1, <2>2
<1>2. RulesEventVerdict(e) = Verdict(checks)
  BY DEF RulesEventVerdict
<1> HIDE DEF checks
<1>3. checks[1][2] \in Reasons
  BY <1>1 DEF Reasons
<1>4. PICK n \in Nat : n = 1
  OBVIOUS
<1>5. \/ Verdict(checks) = "accept" /\ \A i \in 1..n : ~checks[i][1]
      \/ \E i \in 1..n : checks[i][1] /\ Verdict(checks) = checks[i][2]
  <2>1. DOMAIN checks = 1..n /\ \A i \in 1..n : checks[i][1] => checks[i][2] \in Reasons
    BY <1>1, <1>3, <1>4
  <2> QED BY <2>1, VerdictIs
<1>6. CASE Verdict(checks) = "accept" /\ \A i \in 1..n : ~checks[i][1]
  BY <1>1, <1>2, <1>4, <1>6
<1>7. CASE \E i \in 1..n : checks[i][1] /\ Verdict(checks) = checks[i][2]
  BY <1>1, <1>2, <1>4, <1>7
<1> QED BY <1>5, <1>6, <1>7

-----------------------------------------------------------------------------
(***************************************************************************)
(* The loader in the plugin is the loader of RulesLoader.                  *)
(***************************************************************************)
ConfigOK == config \in Configs

LEMMA ConfigStays == ConfigOK /\ [Next]_vars => ConfigOK'
<1> SUFFICES ASSUME [Next]_vars PROVE config' = config
  BY DEF ConfigOK
<1>1. CASE UNCHANGED vars
  BY <1>1 DEF vars, policyVars
<1>2. CASE Next
  BY <1>2 DEF Next, Line, Resume, Granted, Refused, Fetch, Answer, LookupFails, Update, Forget,
              Tick, RulesFile, Exit
<1> QED BY <1>1, <1>2

LEMMA EventsAre ==
  ASSUME ConfigOK, NEW e \in Traffic(config)
  PROVE  /\ e \in Events /\ e.shape \in Shapes
         /\ e.shape = "event" => e.pubkey \in Pubkeys
         /\ e.shape = "event" /\ e.kind = RulesKind => e.doc \in Docs
<1>1. e \in Events
  BY DEF Events, ConfigOK
<1> QED BY <1>1, TrafficAssumption

LEMMA LoaderSteps == ConfigOK /\ [Next]_vars => [LoaderNext]_loaderVars
<1> SUFFICES ASSUME ConfigOK, [Next]_vars PROVE [LoaderNext]_loaderVars
  OBVIOUS
<1>1. ASSUME NEW r \in Reqs, NEW e \in Traffic(config), Line(r, e)
      PROVE  [LoaderNext]_loaderVars
  <2>1. CASE LineRules(e)
    <3>1. e.doc \in Docs
      BY <2>1, EventsAre DEF LineRules, IsRulesEvent
    <3> QED BY <2>1, <3>1 DEF LineRules, LoaderNext, Stream
  <2> QED BY <1>1, <2>1 DEF Line, LineUnfit, LineMetadata, LineOrdinary
<1>2. ASSUME NEW r \in Reqs, Resume(r) \/ Granted(r) \/ Refused(r) \/ Fetch(r) \/ Answer(r)
                             \/ LookupFails(r)
      PROVE  [LoaderNext]_loaderVars
  BY <1>2 DEF Resume, Granted, Refused, Fetch, Answer, LookupFails
<1>3. ASSUME NEW i, NEW record, Update(i, record) PROVE [LoaderNext]_loaderVars
  BY <1>3 DEF Update
<1>4. CASE Forget \/ Tick
  BY <1>4 DEF Forget, Tick
<1>5. CASE RulesFile
  BY <1>5 DEF RulesFile, LoaderNext
<1>6. CASE Exit
  BY <1>6 DEF Exit, LoaderNext
<1>7. CASE UNCHANGED vars
  BY <1>7 DEF vars
<1> QED BY <1>1, <1>2, <1>3, <1>4, <1>5, <1>6, <1>7 DEF Next

\* The plugin uses the loader as RulesLoader specifies it, events of the
\* stream being one of its sources: whatever holds of the loader holds here.
THEOREM PluginRunsTheLoader == Spec => LoaderSpec
<1>1. Init => ConfigOK /\ LoaderInit
  BY DEF Init, ConfigOK
<1> QED BY <1>1, ConfigStays, LoaderSteps, PTL DEF Spec, LoaderSpec

-----------------------------------------------------------------------------
(***************************************************************************)
(* The invariant.                                                          *)
(***************************************************************************)
Cacheable(values) == [value : values, left : (Nat \ {0}) \cup {Forever}]

Handler == [pc    : {"idle", "hit", "waiting", "looking", "fetched"},
            event : Events \cup {Absent}, value : Records, age : 0..LOOKUP_MS]

StateOK ==
  /\ config \in Configs
  /\ chain \in [Ids -> Records]
  /\ since \in [Ids -> [Records -> Nat]]
  /\ resolverCache \in [Ids -> Cacheable(Pubkeys \cup {Null}) \cup {NoEntry}]
  /\ verifiedAuthors \in [Pubkeys -> Cacheable({TRUE}) \cup {NoEntry}]
  /\ req \in [Reqs -> Handler]
  /\ lastWasRateLimited \in BOOLEAN
  /\ said.event \in Events \cup {Absent}

\* An answer that may be used for another `left` units of time is no older
\* than a server's answer and the life of its entry allow.
AsOf(i, v, left) ==
  /\ v \in Pubkeys =>
       left # Forever /\ since[i][v] + left <= CACHE_TTL + LOOKUP_MS
  /\ v = Null /\ NEG_TTL > 0 =>
       /\ left # Forever
       /\ \/ since[i][Missing] + left <= NEG_TTL + LOOKUP_MS
          \/ since[i][NoKey] + left <= CACHE_TTL + LOOKUP_MS

\* The same for an author who is known to be verified.
Known(p, left) ==
  /\ left # Forever
  /\ \E i \in Ids : since[i][p] + left < 2 * CACHE_TTL + LOOKUP_MS

HandlerOK(h) ==
  h.pc # "idle" =>
    /\ h.event \in Events /\ h.event.shape = "event" /\ h.event.kind = 0 /\ h.event.nip05 \in Ids
    /\ h.pc = "fetched" => since[h.event.nip05][h.value] <= h.age
    /\ h.pc = "hit" =>
         h.value \in Pubkeys \cup {Null} /\ (CACHE_TTL > 0 => AsOf(h.event.nip05, h.value, 1))

ChainOK   == \A i \in Ids : since[i][chain[i]] = 0
ReqsOK    == \A r \in Reqs : HandlerOK(req[r])
AnswersOK == CACHE_TTL > 0 => \A i \in Ids : resolverCache[i] # NoEntry =>
                                AsOf(i, resolverCache[i].value, resolverCache[i].left)

\* The entries that a restart may bring back are like those of the cache.
OlderOK ==
  /\ older \in [Ids -> SUBSET Cacheable(Pubkeys \cup {Null})]
  /\ CACHE_TTL > 0 => \A i \in Ids : \A e \in older[i] : AsOf(i, e.value, e.left)

AuthorsOK == CACHE_TTL > 0 => \A p \in Pubkeys : verifiedAuthors[p] # NoEntry =>
                                Known(p, verifiedAuthors[p].left)

\* The last reply is justified.
NegativeOK ==
  NEG_TTL > 0 /\ said.reply = "unresolved" /\ said.cause # "failed"
    => \/ since[said.event.nip05][Missing] < NEG_TTL + LOOKUP_MS
       \/ since[said.event.nip05][NoKey] < CACHE_TTL + LOOKUP_MS

SaidOK == CACHE_TTL > 0 => IdentityIsRecent /\ AuthorIsRecent /\ NegativeOK

PolicyInv == StateOK /\ ChainOK /\ ReqsOK /\ AnswersOK /\ OlderOK /\ AuthorsOK /\ SaidOK
-----------------------------------------------------------------------------
(***************************************************************************)
(* What does not become older stays justified.                             *)
(***************************************************************************)
NotLater ==
  /\ since' \in [Ids -> [Records -> Nat]]
  /\ \A i \in Ids : \A v \in Records : since'[i][v] <= since[i][v]

LEMMA SinceIs ==
  ASSUME StateOK, NEW i \in Ids, NEW v \in Records
  PROVE  since[i][v] \in Nat
BY DEF StateOK

LEMMA NothingIsLater ==
  ASSUME StateOK, UNCHANGED since
  PROVE  NotLater
<1>1. \A i \in Ids : \A v \in Records : since[i][v] \in Nat
  BY SinceIs
<1>2. ASSUME NEW i \in Ids, NEW v \in Records PROVE since'[i][v] <= since[i][v]
  BY <1>1
<1> QED BY <1>2 DEF NotLater, StateOK

LEMMA AgesAre == ASSUME NEW v PROVE OLD(v) \in Nat
BY DEF OLD

LEMMA NullIs == Null \in Records /\ Missing \in Records /\ NoKey \in Records /\ Null = NoKey
                /\ Null \notin Pubkeys /\ Pubkeys \subseteq Records
BY DEF Null, Records

LEMMA AsOfStays ==
  ASSUME StateOK, NotLater, NEW i \in Ids, NEW v, NEW left \in Nat \cup {Forever}, AsOf(i, v, left)
  PROVE  AsOf(i, v, left)'
<1>1. ASSUME NEW w \in Records, NEW bound \in Nat, left # Forever, since[i][w] + left <= bound
      PROVE  since'[i][w] + left <= bound
  BY <1>1, SinceIs DEF NotLater
<1>2. CACHE_TTL + LOOKUP_MS \in Nat /\ NEG_TTL + LOOKUP_MS \in Nat
  OBVIOUS
<1>3. ASSUME v \in Pubkeys PROVE left # Forever /\ since'[i][v] + left <= CACHE_TTL + LOOKUP_MS
  BY <1>1, <1>2, <1>3, NullIs DEF AsOf
<1>4. ASSUME v = Null, NEG_TTL > 0
      PROVE  /\ left # Forever
             /\ \/ since'[i][Missing] + left <= NEG_TTL + LOOKUP_MS
                \/ since'[i][NoKey] + left <= CACHE_TTL + LOOKUP_MS
  BY <1>1, <1>2, <1>4, NullIs DEF AsOf
<1> QED BY <1>3, <1>4 DEF AsOf

LEMMA OlderStays ==
  ASSUME StateOK, OlderOK, NotLater, UNCHANGED older
  PROVE  OlderOK'
<1>1. ASSUME CACHE_TTL > 0, NEW i \in Ids, NEW e \in older[i] PROVE AsOf(i, e.value, e.left)'
  <2>1. PICK v, left : v = e.value /\ left = e.left
    OBVIOUS
  <2>2. left \in Nat \cup {Forever} /\ AsOf(i, v, left)
    BY <1>1, <2>1 DEF OlderOK, Cacheable
  <2>3. AsOf(i, v, left)'
    BY <2>2, AsOfStays
  <2> QED BY <2>1, <2>3 DEF AsOf
<1> QED BY <1>1 DEF OlderOK, AsOf

\* What remains in the file was in it, or in the cache.
LEMMA OlderRemains ==
  ASSUME StateOK, AnswersOK, OlderOK, NotLater, FileKeeps
  PROVE  OlderOK'
<1>1. older' = [i \in Ids |-> Remains(i)]
  BY DEF FileKeeps
<1>2. ASSUME NEW i \in Ids
      PROVE  \A e \in older'[i] : e \in older[i] \/ (e = resolverCache[i] /\ e # NoEntry)
  BY <1>1 DEF Remains
<1>3. ASSUME NEW i \in Ids, NEW e \in older'[i] PROVE e \in Cacheable(Pubkeys \cup {Null})
  BY <1>2 DEF OlderOK, StateOK
<1>4. ASSUME CACHE_TTL > 0, NEW i \in Ids, NEW e \in older'[i] PROVE AsOf(i, e.value, e.left)'
  <2>1. PICK v, left : v = e.value /\ left = e.left
    OBVIOUS
  <2>2. left \in Nat \cup {Forever}
    BY <1>3, <2>1 DEF Cacheable
  <2>3. AsOf(i, v, left)
    BY <1>2, <1>4, <2>1 DEF OlderOK, AnswersOK
  <2>4. AsOf(i, v, left)'
    BY <2>2, <2>3, AsOfStays
  <2> QED BY <2>1, <2>4 DEF AsOf
<1>5. older' \in [Ids -> SUBSET Cacheable(Pubkeys \cup {Null})]
  <2>1. \A i \in Ids : older'[i] = Remains(i)
    BY <1>1
  <2>2. \A i \in Ids : Remains(i) \in SUBSET Cacheable(Pubkeys \cup {Null})
    BY <1>3, <2>1
  <2> QED BY <1>1, <2>2
<1> QED BY <1>4, <1>5 DEF OlderOK, AsOf

LEMMA KnownStays ==
  ASSUME StateOK, NotLater, NEW p \in Pubkeys, NEW left \in Nat \cup {Forever}, Known(p, left)
  PROVE  Known(p, left)'
<1>1. PICK i \in Ids : since[i][p] + left < 2 * CACHE_TTL + LOOKUP_MS
  BY DEF Known
<1>2. since[i][p] \in Nat /\ since'[i][p] \in Nat /\ since'[i][p] <= since[i][p]
  BY SinceIs, NullIs DEF NotLater
<1>3. left \in Nat /\ left # Forever
  BY DEF Known
<1>4. since'[i][p] + left < 2 * CACHE_TTL + LOOKUP_MS
  BY <1>1, <1>2, <1>3
<1> QED BY <1>3, <1>4 DEF Known

LEMMA HandlerStays ==
  ASSUME StateOK, NotLater, NEW h \in Handler, HandlerOK(h)
  PROVE  HandlerOK(h)'
<1>1. ASSUME h.pc = "fetched" PROVE since'[h.event.nip05][h.value] <= h.age
  <2>1. h.event.nip05 \in Ids /\ h.value \in Records /\ h.age \in 0..LOOKUP_MS
        /\ since[h.event.nip05][h.value] <= h.age
    BY <1>1 DEF HandlerOK, Handler
  <2> QED BY <2>1, SinceIs DEF NotLater
<1>2. ASSUME h.pc = "hit", CACHE_TTL > 0 PROVE AsOf(h.event.nip05, h.value, 1)'
  <2>1. PICK i \in Ids : i = h.event.nip05
    BY <1>2 DEF HandlerOK
  <2>2. PICK v : v = h.value
    OBVIOUS
  <2>3. AsOf(i, v, 1)
    BY <1>2, <2>1, <2>2 DEF HandlerOK
  <2>4. PICK left \in Nat : left = 1
    OBVIOUS
  <2>5. AsOf(i, v, left)'
    BY <2>3, <2>4, AsOfStays
  <2> QED BY <2>1, <2>2, <2>4, <2>5
<1> QED BY <1>1, <1>2 DEF HandlerOK

\* One handler goes on.
LEMMA OneGoesOn ==
  ASSUME StateOK, ReqsOK, NotLater, NEW r \in Reqs, NEW h \in Handler, Becomes(r, h),
         HandlerOK(h)'
  PROVE  req' \in [Reqs -> Handler] /\ ReqsOK'
<1>1. /\ req' \in [Reqs -> Handler] /\ req'[r] = h
      /\ \A q \in Reqs : q # r => req'[q] = req[q]
  BY DEF StateOK, Becomes
<1>2. ASSUME NEW q \in Reqs PROVE HandlerOK(req[q])'
  <2>1. CASE q = r
    BY <1>1, <2>1 DEF HandlerOK
  <2>2. CASE q # r
    <3>1. PICK g \in Handler : g = req[q]
      BY DEF StateOK
    <3>2. HandlerOK(g)'
      BY <3>1, HandlerStays DEF ReqsOK
    <3>3. req'[q] = g
      BY <1>1, <2>2, <3>1
    <3> QED BY <3>2, <3>3 DEF HandlerOK
  <2> QED BY <2>1, <2>2
<1> QED BY <1>1, <1>2 DEF ReqsOK

LEMMA IdleIs == Idle \in Handler /\ Idle.pc = "idle"
BY NullIs DEF Idle, Handler

LEMMA IdleOK == HandlerOK(Idle)'
BY IdleIs DEF HandlerOK

LEMMA SilentIs ==
  ASSUME said' = Silent
  PROVE  SaidOK' /\ said'.event \in Events \cup {Absent}
<1>1. said'.reply = "none" /\ said'.event = Absent
  BY DEF Silent
<1> QED BY <1>1 DEF SaidOK, IdentityIsRecent, AuthorIsRecent, NegativeOK, Accepts

LEMMA ShrunkIs ==
  ASSUME StateOK, AnswersOK, OlderOK, AuthorsOK, NotLater,
         \/ resolverCache' = resolverCache
         \/ \E lost \in SUBSET Ids : resolverCache' = Without(resolverCache, lost)
         \/ Replayed,
         verifiedAuthors' = verifiedAuthors
           \/ \E lost \in SUBSET Pubkeys : verifiedAuthors' = Without(verifiedAuthors, lost)
  PROVE  /\ resolverCache' \in [Ids -> Cacheable(Pubkeys \cup {Null}) \cup {NoEntry}]
         /\ verifiedAuthors' \in [Pubkeys -> Cacheable({TRUE}) \cup {NoEntry}]
         /\ AnswersOK' /\ AuthorsOK'
<1>1. /\ resolverCache \in [Ids -> Cacheable(Pubkeys \cup {Null}) \cup {NoEntry}]
      /\ verifiedAuthors \in [Pubkeys -> Cacheable({TRUE}) \cup {NoEntry}]
  BY DEF StateOK
<1>2. /\ resolverCache' \in [Ids -> Cacheable(Pubkeys \cup {Null}) \cup {NoEntry}]
      /\ \A i \in Ids : resolverCache'[i] # NoEntry =>
                          resolverCache'[i] = resolverCache[i] \/ resolverCache'[i] \in older[i]
  <2>1. CASE resolverCache' = resolverCache
    BY <1>1, <2>1
  <2>2. ASSUME NEW lost, resolverCache' = Without(resolverCache, lost)
        PROVE  /\ resolverCache' \in [Ids -> Cacheable(Pubkeys \cup {Null}) \cup {NoEntry}]
               /\ \A i \in Ids : resolverCache'[i] # NoEntry => resolverCache'[i] = resolverCache[i]
    BY <1>1, <2>2 DEF Without
  <2>3. ASSUME NEW S, NEW found \in [Ids -> S], \A i \in Ids : found[i] \in Found(i),
               resolverCache' = found
        PROVE  /\ resolverCache' \in [Ids -> Cacheable(Pubkeys \cup {Null}) \cup {NoEntry}]
               /\ \A i \in Ids : resolverCache'[i] # NoEntry =>
                    resolverCache'[i] = resolverCache[i] \/ resolverCache'[i] \in older[i]
    <3>1. \A i \in Ids : Found(i) \subseteq Cacheable(Pubkeys \cup {Null}) \cup {NoEntry}
      BY <1>1 DEF Found, OlderOK
    <3>2. \A i \in Ids : found[i] \in Cacheable(Pubkeys \cup {Null}) \cup {NoEntry}
      BY <2>3, <3>1
    <3> QED BY <2>3, <3>2 DEF Found
  <2> QED BY <2>1, <2>2, <2>3 DEF Replayed
<1>3. /\ verifiedAuthors' \in [Pubkeys -> Cacheable({TRUE}) \cup {NoEntry}]
      /\ \A p \in Pubkeys : verifiedAuthors'[p] # NoEntry => verifiedAuthors'[p] = verifiedAuthors[p]
  <2>1. CASE verifiedAuthors' = verifiedAuthors
    BY <1>1, <2>1
  <2>2. ASSUME NEW lost, verifiedAuthors' = Without(verifiedAuthors, lost)
        PROVE  /\ verifiedAuthors' \in [Pubkeys -> Cacheable({TRUE}) \cup {NoEntry}]
               /\ \A p \in Pubkeys : verifiedAuthors'[p] # NoEntry => verifiedAuthors'[p] = verifiedAuthors[p]
    BY <1>1, <2>2 DEF Without
  <2> QED BY <2>1, <2>2
<1>4. ASSUME CACHE_TTL > 0, NEW i \in Ids, resolverCache'[i] # NoEntry
      PROVE  AsOf(i, resolverCache[i].value, resolverCache[i].left)'
  <2>1. PICK e : e = resolverCache'[i]
    OBVIOUS
  <2>2. PICK v, left : v = e.value /\ left = e.left
    OBVIOUS
  <2>3. e \in Cacheable(Pubkeys \cup {Null}) /\ (e = resolverCache[i] \/ e \in older[i])
    BY <1>2, <1>4, <2>1
  <2>4. left \in Nat \cup {Forever} /\ AsOf(i, v, left)
    BY <1>4, <2>1, <2>2, <2>3 DEF AnswersOK, OlderOK, Cacheable
  <2>5. AsOf(i, v, left)'
    BY <2>4, AsOfStays
  <2> QED BY <2>1, <2>2, <2>5 DEF AsOf
<1>5. ASSUME CACHE_TTL > 0, NEW p \in Pubkeys, verifiedAuthors'[p] # NoEntry
      PROVE  Known(p, verifiedAuthors[p].left)'
  <2>1. PICK left : left = verifiedAuthors[p].left
    OBVIOUS
  <2>2. left \in Nat \cup {Forever} /\ Known(p, left)
    BY <1>1, <1>3, <1>5, <2>1 DEF AuthorsOK, Cacheable
  <2>3. Known(p, left)'
    BY <2>2, KnownStays
  <2>4. verifiedAuthors'[p].left = left
    BY <1>3, <1>5, <2>1
  <2> QED BY <2>3, <2>4
<1> QED BY <1>2, <1>3, <1>4, <1>5 DEF AnswersOK, AuthorsOK
-----------------------------------------------------------------------------
(***************************************************************************)
(* Replies.                                                                *)
(***************************************************************************)
LEMMA SaidIs ==
  ASSUME NEW e \in Events, NEW reply, NEW cause, Say(e, reply, cause),
         CACHE_TTL > 0,
         (/\ reply = "accept" /\ e.shape = "event" /\ e.kind = 0
          /\ e.nip05 \in Ids /\ config'.client)
           => since'[e.nip05][e.pubkey] < CACHE_TTL + LOOKUP_MS,
         (/\ reply = "accept" /\ e.shape = "event" /\ e.kind # 0
          /\ config'.mode = "all-kinds-require-bit")
           => \E i \in Ids : since'[i][e.pubkey] < 2 * CACHE_TTL + LOOKUP_MS,
         (NEG_TTL > 0 /\ reply = "unresolved" /\ cause # "failed")
           => \/ since'[e.nip05][Missing] < NEG_TTL + LOOKUP_MS
              \/ since'[e.nip05][NoKey] < CACHE_TTL + LOOKUP_MS
  PROVE  SaidOK'
<1>1. said'.event = e /\ said'.reply = reply /\ said'.cause = cause
  BY DEF Say
<1>2. IdentityIsRecent'
  BY <1>1 DEF IdentityIsRecent, Accepts
<1>3. AuthorIsRecent'
  BY <1>1 DEF AuthorIsRecent, Accepts
<1>4. NegativeOK'
  BY <1>1 DEF NegativeOK
<1> QED BY <1>2, <1>3, <1>4 DEF SaidOK

LEMMA EventSaid ==
  ASSUME NEW e \in Events, NEW reply, NEW cause, Say(e, reply, cause)
  PROVE  said'.event \in Events \cup {Absent}
BY DEF Say

LEMMA HandledIs ==
  ASSUME StateOK, ReqsOK, NEW r \in Reqs, req[r].pc # "idle"
  PROVE  /\ req[r] \in Handler /\ HandlerOK(req[r])
         /\ req[r].event \in Events /\ req[r].event.shape = "event" /\ req[r].event.kind = 0
         /\ req[r].event.nip05 \in Ids /\ req[r].event.pubkey \in Pubkeys
<1>1. req[r] \in Handler /\ HandlerOK(req[r])
  BY DEF StateOK, ReqsOK
<1>2. /\ req[r].event \in Events /\ req[r].event.shape = "event" /\ req[r].event.kind = 0
      /\ req[r].event.nip05 \in Ids
  BY <1>1 DEF HandlerOK
<1> QED BY <1>1, <1>2, TrafficAssumption

\* A handler concludes: its reply, and the author it may have verified, are
\* justified if the value it has got is.
LEMMA ConcludeIs ==
  ASSUME StateOK, ReqsOK, AuthorsOK, NEW r \in Reqs, req[r].pc # "idle",
         NEW value \in Pubkeys \cup {Null}, NEW cause, Conclude(r, value, cause),
         UNCHANGED <<config, since>>,
         CACHE_TTL > 0 /\ value \in Pubkeys
           => since[req[r].event.nip05][value] < CACHE_TTL + LOOKUP_MS,
         CACHE_TTL > 0 /\ NEG_TTL > 0 /\ value = Null
           => \/ lastWasRateLimited' \/ cause = "failed"
              \/ since[req[r].event.nip05][Missing] < NEG_TTL + LOOKUP_MS
              \/ since[req[r].event.nip05][NoKey] < CACHE_TTL + LOOKUP_MS
  PROVE  /\ req' \in [Reqs -> Handler] /\ ReqsOK'
         /\ verifiedAuthors' \in [Pubkeys -> Cacheable({TRUE}) \cup {NoEntry}] /\ AuthorsOK'
         /\ SaidOK' /\ said'.event \in Events \cup {Absent}
<1>0. NotLater
  BY NothingIsLater
<1>1. PICK e \in Events : e = req[r].event
  BY HandledIs
<1>2. e.shape = "event" /\ e.kind = 0 /\ e.nip05 \in Ids /\ e.pubkey \in Pubkeys
  BY <1>1, HandledIs
<1>3. PICK verified \in BOOLEAN : verified <=> value \in Pubkeys /\ value = e.pubkey
  OBVIOUS
<1>4. PICK reply : reply = CASE value \notin Pubkeys -> IF lastWasRateLimited' THEN "rate-limited"
                                             ELSE "unresolved"
                  [] verified -> "accept"
                  [] OTHER -> "pubkey-mismatch"
  OBVIOUS
<1>5. /\ Say(e, reply, cause)
      /\ verifiedAuthors' = IF verified
                            THEN [verifiedAuthors EXCEPT ![e.pubkey] = Fresh(TRUE, CACHE_TTL)]
                            ELSE verifiedAuthors
      /\ Becomes(r, Idle)
  BY <1>1, <1>3, <1>4, Zenon DEF Conclude
<1>6. req' \in [Reqs -> Handler] /\ ReqsOK'
  BY <1>0, <1>5, OneGoesOn, IdleIs, IdleOK
<1>7. verifiedAuthors' \in [Pubkeys -> Cacheable({TRUE}) \cup {NoEntry}]
  <2>1. Fresh(TRUE, CACHE_TTL) \in Cacheable({TRUE})
    BY DEF Fresh, Cacheable
  <2>2. verifiedAuthors \in [Pubkeys -> Cacheable({TRUE}) \cup {NoEntry}]
    BY DEF StateOK
  <2> QED BY <1>2, <1>5, <2>1, <2>2
<1>8. ASSUME CACHE_TTL > 0, NEW p \in Pubkeys, verifiedAuthors'[p] # NoEntry
      PROVE  Known(p, verifiedAuthors[p].left)'
  <2>1. CASE verified /\ p = e.pubkey
    <3>1. verifiedAuthors'[p].left = CACHE_TTL
      BY <1>2, <1>5, <1>8, <2>1 DEF StateOK, Fresh
    <3>2. since'[e.nip05][p] < CACHE_TTL + LOOKUP_MS
      BY <1>1, <1>3, <1>8, <2>1
    <3>3. since'[e.nip05][p] \in Nat
      BY <1>0, <1>2, NullIs DEF NotLater
    <3>4. since'[e.nip05][p] + CACHE_TTL < 2 * CACHE_TTL + LOOKUP_MS
      BY <3>2, <3>3
    <3> QED BY <1>2, <3>1, <3>4 DEF Known
  <2>2. CASE ~(verified /\ p = e.pubkey)
    <3>1. verifiedAuthors'[p] = verifiedAuthors[p]
      BY <1>2, <1>5, <2>2 DEF StateOK
    <3>2. PICK left : left = verifiedAuthors[p].left
      OBVIOUS
    <3>3. left \in Nat \cup {Forever} /\ Known(p, left)
      BY <1>8, <3>1, <3>2 DEF AuthorsOK, StateOK, Cacheable
    <3>4. Known(p, left)'
      BY <1>0, <3>3, KnownStays
    <3> QED BY <3>1, <3>2, <3>4
  <2> QED BY <2>1, <2>2
<1>9. AuthorsOK'
  BY <1>8 DEF AuthorsOK
<1>10. SaidOK'
  <2>1. reply = "accept" => value = e.pubkey /\ value \in Pubkeys
    BY <1>3, <1>4
  <2>2. reply = "unresolved" => value = Null /\ ~lastWasRateLimited'
    BY <1>3, <1>4
  <2>3. CASE CACHE_TTL > 0
    <3>1. reply = "accept" => since'[e.nip05][e.pubkey] < CACHE_TTL + LOOKUP_MS
      BY <1>1, <2>1, <2>3
    <3>2. NEG_TTL > 0 /\ reply = "unresolved" /\ cause # "failed"
           => \/ since'[e.nip05][Missing] < NEG_TTL + LOOKUP_MS
              \/ since'[e.nip05][NoKey] < CACHE_TTL + LOOKUP_MS
      BY <1>1, <2>2, <2>3
    <3> QED BY <1>2, <1>5, <2>3, <3>1, <3>2, SaidIs
  <2>4. CASE ~(CACHE_TTL > 0)
    BY <2>4 DEF SaidOK
  <2> QED BY <2>3, <2>4
<1> QED BY <1>5, <1>6, <1>7, <1>9, <1>10, EventSaid
-----------------------------------------------------------------------------
(***************************************************************************)
(* A line arrives.                                                         *)
(***************************************************************************)
LEMMA SoonerIs ==
  ASSUME StateOK, NEW i \in Ids, NEW v, NEW left \in (Nat \ {0}) \cup {Forever}, AsOf(i, v, left)
  PROVE  AsOf(i, v, 1)
<1>1. 1 # Forever
  OBVIOUS
<1>2. ASSUME NEW w \in Records, NEW bound \in Nat, left # Forever, since[i][w] + left <= bound
      PROVE  since[i][w] + 1 <= bound
  BY <1>2, SinceIs
<1>3. CACHE_TTL + LOOKUP_MS \in Nat /\ NEG_TTL + LOOKUP_MS \in Nat
  OBVIOUS
<1>4. v \in Pubkeys => since[i][v] + 1 <= CACHE_TTL + LOOKUP_MS
  BY <1>2, <1>3, NullIs DEF AsOf
<1>5. v = Null /\ NEG_TTL > 0 => \/ since[i][Missing] + 1 <= NEG_TTL + LOOKUP_MS
                                 \/ since[i][NoKey] + 1 <= CACHE_TTL + LOOKUP_MS
  BY <1>2, <1>3, NullIs DEF AsOf
<1> QED BY <1>1, <1>4, <1>5 DEF AsOf

LEMMA CachedIs ==
  ASSUME StateOK, AnswersOK, NEW i \in Ids, resolverCache[i] # NoEntry
  PROVE  /\ resolverCache[i].value \in Pubkeys \cup {Null}
         /\ CACHE_TTL > 0 => AsOf(i, resolverCache[i].value, 1)
<1>1. PICK v, left : v = resolverCache[i].value /\ left = resolverCache[i].left
  OBVIOUS
<1>2. v \in Pubkeys \cup {Null} /\ left \in (Nat \ {0}) \cup {Forever}
  BY <1>1 DEF StateOK, Cacheable
<1>3. CACHE_TTL > 0 => AsOf(i, v, left)
  BY <1>1 DEF AnswersOK
<1> QED BY <1>1, <1>2, <1>3, SoonerIs

\* resolve begins: a cached answer is still good for the next turn.
LEMMA ResolveIs ==
  ASSUME StateOK, ReqsOK, AnswersOK, NEW r \in Reqs, NEW e \in Events,
         e.shape = "event", e.kind = 0, e.nip05 \in Ids, Resolve(r, e), UNCHANGED since
  PROVE  /\ req' \in [Reqs -> Handler] /\ ReqsOK'
         /\ SaidOK' /\ said'.event \in Events \cup {Absent}
         /\ lastWasRateLimited' \in BOOLEAN
<1>1. NotLater
  BY NothingIsLater
<1>2. PICK cached : cached = resolverCache[e.nip05]
  OBVIOUS
<1>3. cached # NoEntry => cached.value \in Pubkeys \cup {Null}
                          /\ (CACHE_TTL > 0 => AsOf(e.nip05, cached.value, 1))
  BY <1>2, CachedIs
<1>4. PICK h : h = IF cached # NoEntry
                   THEN [pc |-> "hit", event |-> e, value |-> cached.value, age |-> 0]
                   ELSE [pc |-> "waiting", event |-> e, value |-> Null, age |-> 0]
  OBVIOUS
<1>5. h \in Handler
  BY <1>3, <1>4, NullIs DEF Handler
<1>6. HandlerOK(h)
  BY <1>3, <1>4 DEF HandlerOK
<1>7. Becomes(r, h) /\ said' = Silent /\ lastWasRateLimited' = FALSE
  BY <1>2, <1>4, Zenon DEF Resolve
<1>8. HandlerOK(h)'
  BY <1>1, <1>5, <1>6, HandlerStays
<1> QED BY <1>1, <1>5, <1>7, <1>8, OneGoesOn, SilentIs

\* Whoever posts is, where that is required, verified for at least one unit.
LEMMA VerifiedIs ==
  ASSUME StateOK, AuthorsOK, CACHE_TTL > 0, NEW p \in Pubkeys, Verified(p)
  PROVE  \E i \in Ids : since[i][p] < 2 * CACHE_TTL + LOOKUP_MS
<1>1. PICK left : left = verifiedAuthors[p].left
  OBVIOUS
<1>2. left \in (Nat \ {0}) \cup {Forever} /\ Known(p, left)
  BY <1>1 DEF Verified, StateOK, AuthorsOK, Cacheable
<1>3. PICK i \in Ids : since[i][p] + left < 2 * CACHE_TTL + LOOKUP_MS
  BY <1>2 DEF Known
<1>4. since[i][p] \in Nat /\ left \in Nat
  BY <1>2, SinceIs, NullIs DEF Known
<1>5. since[i][p] < 2 * CACHE_TTL + LOOKUP_MS
  BY <1>3, <1>4
<1> QED BY <1>5

\* The reply of a handler that does not wait.
LEMMA AtOnceIs ==
  ASSUME StateOK, AuthorsOK, NEW e \in Events, NEW reply, Say(e, reply, "none"),
         UNCHANGED <<config, since>>, reply # "unresolved",
         reply = "accept" /\ e.shape = "event" /\ e.kind = 0
           => ~(e.nip05 \in Ids /\ config.client),
         reply = "accept" /\ e.shape = "event" /\ e.kind # 0
           => e.pubkey \in Pubkeys /\ GatePasses(e.pubkey)
  PROVE  SaidOK' /\ said'.event \in Events \cup {Absent}
<1>1. CASE CACHE_TTL > 0
  <2>1. ASSUME reply = "accept", e.shape = "event", e.kind # 0,
               config'.mode = "all-kinds-require-bit"
        PROVE  \E i \in Ids : since'[i][e.pubkey] < 2 * CACHE_TTL + LOOKUP_MS
    BY <1>1, <2>1, VerifiedIs DEF GatePasses
  <2>2. SaidOK'
    BY <1>1, <2>1, SaidIs
  <2> QED BY <2>2, EventSaid
<1>2. CASE ~(CACHE_TTL > 0)
  BY <1>2, EventSaid DEF SaidOK
<1> QED BY <1>1, <1>2

LEMMA LineKeeps ==
  ASSUME PolicyInv, NEW r \in Reqs, NEW e \in Traffic(config), Line(r, e)
  PROVE  PolicyInv'
<1> USE DEF PolicyInv
<1>1. UNCHANGED <<config, chain, since, resolverCache, verifiedAuthors, older>>
  BY DEF Line
<1>2. e \in Events /\ e.shape \in Shapes /\ (e.shape = "event" => e.pubkey \in Pubkeys)
  BY EventsAre DEF ConfigOK, StateOK
<1>3. NotLater
  BY <1>1, NothingIsLater
<1>4. /\ resolverCache' \in [Ids -> Cacheable(Pubkeys \cup {Null}) \cup {NoEntry}]
      /\ verifiedAuthors' \in [Pubkeys -> Cacheable({TRUE}) \cup {NoEntry}]
      /\ AnswersOK' /\ AuthorsOK'
  BY <1>1, <1>3, ShrunkIs
<1>5. ChainOK'
  BY <1>1 DEF ChainOK
<1>6. ASSUME UNCHANGED req PROVE req' \in [Reqs -> Handler] /\ ReqsOK'
  BY <1>1, <1>6 DEF StateOK, ReqsOK, HandlerOK, AsOf
<1>7. SUFFICES /\ req' \in [Reqs -> Handler] /\ ReqsOK'
               /\ SaidOK' /\ said'.event \in Events \cup {Absent}
               /\ lastWasRateLimited' \in BOOLEAN
  BY <1>1, <1>3, <1>4, <1>5, <1>7, OlderStays DEF StateOK
<1>8. lastWasRateLimited \in BOOLEAN
  BY DEF StateOK
<1>9. CASE LineUnfit(e)
  <2>1. UNCHANGED <<req, lastWasRateLimited>> /\ e.shape # "event"
    BY <1>9 DEF LineUnfit
  <2>2. PICK reply : reply = (IF e.shape = "not-new" THEN "accept" ELSE e.shape)
                     /\ Say(e, reply, "none")
    BY <1>9 DEF LineUnfit
  <2>3. reply # "unresolved"
    BY <1>2, <2>1, <2>2 DEF Shapes
  <2>4. SaidOK' /\ said'.event \in Events \cup {Absent}
    BY <1>1, <1>2, <2>1, <2>2, <2>3, AtOnceIs
  <2> QED BY <1>6, <1>8, <2>1, <2>4
<1>10. CASE LineRules(e)
  <2>1. UNCHANGED <<req, lastWasRateLimited>> /\ e.shape = "event" /\ e.kind # 0
    BY <1>10 DEF LineRules, IsRulesEvent
  <2>2. PICK reply : reply = RulesEventVerdict(e) /\ Say(e, reply, "none")
    BY <1>10 DEF LineRules
  <2>3. reply # "unresolved" /\ (reply = "accept" => GatePasses(e.pubkey))
    BY <2>2, RulesEventIs
  <2>4. SaidOK' /\ said'.event \in Events \cup {Absent}
    BY <1>1, <1>2, <2>1, <2>2, <2>3, AtOnceIs
  <2> QED BY <1>6, <1>8, <2>1, <2>4
<1>11. CASE LineMetadata(r, e)
  <2>1. e.shape = "event" /\ e.kind = 0
    BY <1>11 DEF LineMetadata
  <2>2. CASE MetadataVerdict(e) = "resolve"
    BY <1>1, <1>2, <1>11, <2>1, <2>2, MetadataIs, ResolveIs DEF LineMetadata
  <2>3. CASE MetadataVerdict(e) # "resolve"
    <3>1. UNCHANGED <<req, lastWasRateLimited>>
      BY <1>11, <2>3 DEF LineMetadata
    <3>2. PICK reply : reply = MetadataVerdict(e) /\ Say(e, reply, "none")
      BY <1>11, <2>3 DEF LineMetadata
    <3>3. reply # "unresolved" /\ (reply = "accept" => ~(e.nip05 \in Ids /\ config.client))
      BY <3>2, MetadataIs
    <3>4. SaidOK' /\ said'.event \in Events \cup {Absent}
      BY <1>1, <1>2, <2>1, <3>2, <3>3, AtOnceIs
    <3> QED BY <1>6, <1>8, <3>1, <3>4
  <2> QED BY <2>2, <2>3
<1>12. CASE LineOrdinary(e)
  <2>1. UNCHANGED <<req, lastWasRateLimited>> /\ e.shape = "event" /\ e.kind # 0
    BY <1>12 DEF LineOrdinary
  <2>2. PICK reply : reply = OrdinaryVerdict(e) /\ Say(e, reply, "none")
    BY <1>12 DEF LineOrdinary
  <2>3. reply # "unresolved" /\ (reply = "accept" => GatePasses(e.pubkey))
    BY <2>2, OrdinaryIs
  <2>4. SaidOK' /\ said'.event \in Events \cup {Absent}
    BY <1>1, <1>2, <2>1, <2>2, <2>3, AtOnceIs
  <2> QED BY <1>6, <1>8, <2>1, <2>4
<1> QED BY <1>9, <1>10, <1>11, <1>12 DEF Line
-----------------------------------------------------------------------------
(***************************************************************************)
(* resolve goes on.                                                        *)
(***************************************************************************)
LEMMA AnswersStay ==
  ASSUME StateOK, ChainOK, AnswersOK, OlderOK, UNCHANGED <<chain, since, resolverCache, older>>
  PROVE  /\ NotLater /\ ChainOK' /\ AnswersOK' /\ OlderOK'
         /\ resolverCache' \in [Ids -> Cacheable(Pubkeys \cup {Null}) \cup {NoEntry}]
<1>1. ChainOK'
  BY DEF ChainOK
<1>2. AnswersOK'
  BY DEF AnswersOK, AsOf
<1> QED BY <1>1, <1>2, NothingIsLater, OlderStays DEF StateOK

LEMMA AuthorsStay ==
  ASSUME StateOK, AuthorsOK, UNCHANGED <<since, verifiedAuthors>>
  PROVE  AuthorsOK' /\ verifiedAuthors' \in [Pubkeys -> Cacheable({TRUE}) \cup {NoEntry}]
BY DEF StateOK, AuthorsOK, Known

LEMMA ResumeKeeps ==
  ASSUME PolicyInv, NEW r \in Reqs, Resume(r)
  PROVE  PolicyInv'
<1> USE DEF PolicyInv
<1>1. /\ UNCHANGED <<config, chain, since, resolverCache, older, lastWasRateLimited>>
      /\ req[r].pc = "hit" /\ Conclude(r, req[r].value, "cached")
  BY DEF Resume
<1>2. PICK i \in Ids : i = req[r].event.nip05
  BY <1>1, HandledIs
<1>3. PICK value \in Pubkeys \cup {Null} : value = req[r].value
  BY <1>1, HandledIs DEF HandlerOK
<1>4. CACHE_TTL > 0 => AsOf(i, value, 1)
  BY <1>1, <1>2, <1>3, HandledIs DEF HandlerOK
<1>5. CACHE_TTL > 0 /\ value \in Pubkeys => since[i][value] < CACHE_TTL + LOOKUP_MS
  <2>1. value \in Pubkeys => since[i][value] \in Nat
    BY SinceIs, NullIs
  <2> QED BY <1>4, <2>1 DEF AsOf
<1>6. CACHE_TTL > 0 /\ NEG_TTL > 0 /\ value = Null
        => \/ since[i][Missing] < NEG_TTL + LOOKUP_MS
           \/ since[i][NoKey] < CACHE_TTL + LOOKUP_MS
  <2>1. since[i][Missing] \in Nat /\ since[i][NoKey] \in Nat
    BY SinceIs, NullIs
  <2> QED BY <1>4, <2>1 DEF AsOf
<1>7. Conclude(r, value, "cached") /\ req[r].pc # "idle"
  BY <1>1, <1>3
<1>8. /\ req' \in [Reqs -> Handler] /\ ReqsOK'
      /\ verifiedAuthors' \in [Pubkeys -> Cacheable({TRUE}) \cup {NoEntry}] /\ AuthorsOK'
      /\ SaidOK' /\ said'.event \in Events \cup {Absent}
  BY <1>1, <1>2, <1>5, <1>6, <1>7, ConcludeIs
<1> QED BY <1>1, <1>8, AnswersStay DEF StateOK

LEMMA GrantedKeeps ==
  ASSUME PolicyInv, NEW r \in Reqs, Granted(r)
  PROVE  PolicyInv'
<1> USE DEF PolicyInv
<1>1. /\ UNCHANGED <<config, chain, since, resolverCache, verifiedAuthors, older, lastWasRateLimited>>
      /\ req[r].pc = "waiting" /\ said' = Silent
  BY DEF Granted
<1>2. PICK h : h = [req[r] EXCEPT !.pc = "looking"]
  OBVIOUS
<1>3. h \in Handler /\ h.pc = "looking" /\ h.event = req[r].event
  BY <1>1, <1>2, HandledIs DEF Handler
<1>4. HandlerOK(h)'
  BY <1>1, <1>3, HandledIs DEF HandlerOK
<1>5. Becomes(r, h)
  BY <1>2 DEF Granted
<1>6. req' \in [Reqs -> Handler] /\ ReqsOK'
  BY <1>1, <1>3, <1>4, <1>5, OneGoesOn, NothingIsLater
<1> QED BY <1>1, <1>6, AnswersStay, AuthorsStay, SilentIs DEF StateOK

LEMMA FetchKeeps ==
  ASSUME PolicyInv, NEW r \in Reqs, Fetch(r)
  PROVE  PolicyInv'
<1> USE DEF PolicyInv
<1>1. /\ UNCHANGED <<config, chain, since, resolverCache, verifiedAuthors, older, lastWasRateLimited>>
      /\ req[r].pc = "looking" /\ said' = Silent
  BY DEF Fetch
<1>2. PICK h : h = [req[r] EXCEPT !.pc = "fetched", !.value = chain[req[r].event.nip05]]
  OBVIOUS
<1>3. PICK i \in Ids : i = req[r].event.nip05
  BY <1>1, HandledIs
<1>4. chain[i] \in Records /\ since[i][chain[i]] = 0
  BY DEF StateOK, ChainOK
<1>5. /\ h \in Handler /\ h.pc = "fetched" /\ h.event = req[r].event
      /\ h.value = chain[i] /\ h.age \in Nat
  <2>1. PICK g \in Handler : g = req[r]
    BY <1>1, HandledIs
  <2>2. PICK v \in Records : v = chain[i]
    BY <1>4
  <2>3. h = [pc |-> "fetched", event |-> g.event, value |-> v, age |-> g.age]
    BY <1>2, <1>3, <2>1, <2>2 DEF Handler
  <2>4. g.event \in Events \cup {Absent} /\ g.age \in 0..LOOKUP_MS
    BY DEF Handler
  <2> QED BY <2>1, <2>2, <2>3, <2>4 DEF Handler
<1>6. HandlerOK(h)'
  BY <1>1, <1>3, <1>4, <1>5, HandledIs DEF HandlerOK
<1>7. Becomes(r, h)
  BY <1>2 DEF Fetch
<1>8. req' \in [Reqs -> Handler] /\ ReqsOK'
  BY <1>1, <1>5, <1>6, <1>7, OneGoesOn, NothingIsLater
<1> QED BY <1>1, <1>8, AnswersStay, AuthorsStay, SilentIs DEF StateOK

LEMMA RefusedKeeps ==
  ASSUME PolicyInv, NEW r \in Reqs, Refused(r)
  PROVE  PolicyInv'
<1> USE DEF PolicyInv
<1>1. /\ UNCHANGED <<config, chain, since, resolverCache, older>> /\ lastWasRateLimited' = TRUE
      /\ req[r].pc # "idle" /\ Conclude(r, Null, "refused")
  BY DEF Refused
<1>2. /\ req' \in [Reqs -> Handler] /\ ReqsOK'
      /\ verifiedAuthors' \in [Pubkeys -> Cacheable({TRUE}) \cup {NoEntry}] /\ AuthorsOK'
      /\ SaidOK' /\ said'.event \in Events \cup {Absent}
  BY <1>1, NullIs, ConcludeIs
<1> QED BY <1>1, <1>2, AnswersStay DEF StateOK

LEMMA LookupFailsKeeps ==
  ASSUME PolicyInv, NEW r \in Reqs, LookupFails(r)
  PROVE  PolicyInv'
<1> USE DEF PolicyInv
<1>1. /\ UNCHANGED <<config, chain, since, resolverCache, older, lastWasRateLimited>>
      /\ req[r].pc # "idle" /\ Conclude(r, Null, "failed")
  BY DEF LookupFails
<1>2. /\ req' \in [Reqs -> Handler] /\ ReqsOK'
      /\ verifiedAuthors' \in [Pubkeys -> Cacheable({TRUE}) \cup {NoEntry}] /\ AuthorsOK'
      /\ SaidOK' /\ said'.event \in Events \cup {Absent}
  BY <1>1, NullIs, ConcludeIs
<1> QED BY <1>1, <1>2, AnswersStay DEF StateOK

\* What a server's answer leaves in the cache is good for its time to live.
LEMMA FreshIs ==
  ASSUME StateOK, NEW i \in Ids, NEW record \in Records, since[i][record] <= LOOKUP_MS
  PROVE  /\ Extracted(record) \in Pubkeys \cup {Null}
         /\ Fresh(Extracted(record), TtlOf(record)) \in Cacheable(Pubkeys \cup {Null})
         /\ CACHE_TTL > 0 =>
              AsOf(i, Extracted(record), Fresh(Extracted(record), TtlOf(record)).left)
         /\ CACHE_TTL > 0 /\ Extracted(record) \in Pubkeys
              => since[i][Extracted(record)] < CACHE_TTL + LOOKUP_MS
         /\ CACHE_TTL > 0 /\ NEG_TTL > 0 /\ Extracted(record) = Null
              => \/ since[i][Missing] < NEG_TTL + LOOKUP_MS
                 \/ since[i][NoKey] < CACHE_TTL + LOOKUP_MS
<1>1. PICK value \in Pubkeys \cup {Null} : value = Extracted(record)
  BY DEF Extracted
<1>2. PICK ttl \in Nat : ttl = TtlOf(record)
  BY DEF TtlOf
<1>3. PICK left \in (Nat \ {0}) \cup {Forever} : left = IF ttl > 0 THEN ttl ELSE Forever
  <2>1. CASE ttl > 0
    BY <2>1
  <2>2. CASE ~(ttl > 0)
    BY <2>2
  <2> QED BY <2>1, <2>2
<1>4. Fresh(Extracted(record), TtlOf(record)) = [value |-> value, left |-> left]
  BY <1>1, <1>2, <1>3 DEF Fresh
<1>5. since[i][record] \in Nat
  BY SinceIs
<1>6. CASE record \in Pubkeys
  <2>1. value = record /\ ttl = CACHE_TTL
    BY <1>1, <1>2, <1>6 DEF Extracted, TtlOf
  <2>2. CACHE_TTL > 0 => AsOf(i, value, left)
    BY <1>3, <1>5, <1>6, <2>1, NullIs DEF AsOf
  <2>3. CACHE_TTL > 0 => since[i][value] < CACHE_TTL + LOOKUP_MS
    BY <1>5, <2>1
  <2> QED BY <1>1, <1>4, <1>6, <2>1, <2>2, <2>3, NullIs DEF Cacheable
<1>7. CASE record = Missing
  <2>1. value = Null /\ value \notin Pubkeys /\ (CACHE_TTL > 0 => ttl = NEG_TTL)
    BY <1>1, <1>2, <1>7, NullIs DEF Extracted, TtlOf
  <2>2. CACHE_TTL > 0 => AsOf(i, value, left)
    BY <1>3, <1>5, <1>7, <2>1 DEF AsOf
  <2>3. NEG_TTL > 0 => since[i][Missing] < NEG_TTL + LOOKUP_MS
    BY <1>5, <1>7
  <2> QED BY <1>1, <1>4, <2>1, <2>2, <2>3 DEF Cacheable
<1>8. CASE record = NoKey /\ record # Missing
  <2>1. value = Null /\ value \notin Pubkeys /\ ttl = CACHE_TTL
    BY <1>1, <1>2, <1>8, NullIs DEF Extracted, TtlOf
  <2>2. CACHE_TTL > 0 => AsOf(i, value, left)
    BY <1>3, <1>5, <1>8, <2>1 DEF AsOf
  <2>3. CACHE_TTL > 0 => since[i][NoKey] < CACHE_TTL + LOOKUP_MS
    BY <1>5, <1>8
  <2> QED BY <1>1, <1>4, <2>1, <2>2, <2>3 DEF Cacheable
<1> QED BY <1>6, <1>7, <1>8 DEF Records

LEMMA AnswerKeeps ==
  ASSUME PolicyInv, NEW r \in Reqs, Answer(r)
  PROVE  PolicyInv'
<1> USE DEF PolicyInv
<1>1. UNCHANGED <<config, chain, since, lastWasRateLimited>> /\ req[r].pc = "fetched"
  BY DEF Answer
<1>2. PICK i \in Ids : i = req[r].event.nip05
  BY <1>1, HandledIs
<1>3. PICK record \in Records : record = req[r].value
  BY <1>1, HandledIs DEF Handler
<1>4. since[i][record] <= LOOKUP_MS
  <2>1. since[i][record] <= req[r].age /\ req[r].age \in 0..LOOKUP_MS
    BY <1>1, <1>2, <1>3, HandledIs DEF HandlerOK, Handler
  <2> QED BY <2>1, SinceIs
<1>5. PICK entry : entry = Fresh(Extracted(record), TtlOf(record))
  OBVIOUS
<1>6. PICK value : value = Extracted(record)
  OBVIOUS
<1>7. resolverCache' = [resolverCache EXCEPT ![i] = entry] /\ Conclude(r, value, "looked-up")
  BY <1>2, <1>3, <1>5, <1>6 DEF Answer
<1>8. /\ value \in Pubkeys \cup {Null} /\ entry \in Cacheable(Pubkeys \cup {Null})
      /\ entry.value = value
      /\ CACHE_TTL > 0 => AsOf(i, entry.value, entry.left)
      /\ CACHE_TTL > 0 /\ value \in Pubkeys => since[i][value] < CACHE_TTL + LOOKUP_MS
      /\ CACHE_TTL > 0 /\ NEG_TTL > 0 /\ value = Null
           => \/ since[i][Missing] < NEG_TTL + LOOKUP_MS
              \/ since[i][NoKey] < CACHE_TTL + LOOKUP_MS
  <2>1. entry.value = value
    BY <1>5, <1>6 DEF Fresh
  <2> QED BY <1>4, <1>5, <1>6, <2>1, FreshIs, Zenon
<1>9. /\ req' \in [Reqs -> Handler] /\ ReqsOK'
      /\ verifiedAuthors' \in [Pubkeys -> Cacheable({TRUE}) \cup {NoEntry}] /\ AuthorsOK'
      /\ SaidOK' /\ said'.event \in Events \cup {Absent}
  BY <1>1, <1>2, <1>7, <1>8, ConcludeIs
<1>10. resolverCache' \in [Ids -> Cacheable(Pubkeys \cup {Null}) \cup {NoEntry}]
  BY <1>7, <1>8 DEF StateOK
<1>11. ASSUME CACHE_TTL > 0, NEW j \in Ids, resolverCache'[j] # NoEntry
       PROVE  AsOf(j, resolverCache[j].value, resolverCache[j].left)'
  <2>1. CASE j = i
    <3>1. resolverCache'[j] = entry
      BY <1>7, <2>1 DEF StateOK
    <3> QED BY <1>1, <1>8, <1>11, <2>1, <3>1 DEF AsOf
  <2>2. CASE j # i
    <3>1. resolverCache'[j] = resolverCache[j]
      BY <1>7, <2>2 DEF StateOK
    <3> QED BY <1>1, <1>11, <3>1 DEF AnswersOK, AsOf
  <2> QED BY <2>1, <2>2
<1>12. AnswersOK' /\ ChainOK'
  BY <1>1, <1>11 DEF AnswersOK, ChainOK
<1>13. OlderOK'
  BY <1>1, NothingIsLater, OlderRemains DEF Answer
<1> QED BY <1>1, <1>9, <1>10, <1>12, <1>13 DEF StateOK
-----------------------------------------------------------------------------
(***************************************************************************)
(* The environment.                                                        *)
(***************************************************************************)
LEMMA HandlersStay ==
  ASSUME StateOK, ReqsOK, NotLater, UNCHANGED req
  PROVE  req' \in [Reqs -> Handler] /\ ReqsOK'
<1>1. ASSUME NEW q \in Reqs PROVE HandlerOK(req[q])'
  <2>1. PICK g \in Handler : g = req[q]
    BY DEF StateOK
  <2>2. HandlerOK(g)'
    BY <2>1, HandlerStays DEF ReqsOK
  <2>3. req'[q] = g
    BY <2>1
  <2> QED BY <2>2, <2>3 DEF HandlerOK
<1> QED BY <1>1 DEF StateOK, ReqsOK

LEMMA ForgetKeeps == PolicyInv /\ Forget => PolicyInv'
<1> SUFFICES ASSUME PolicyInv, Forget PROVE PolicyInv'
  OBVIOUS
<1> USE DEF PolicyInv
<1>1. /\ UNCHANGED <<config, chain, since, req, lastWasRateLimited>> /\ said' = Silent
      /\ FileKeeps
  BY DEF Forget
<1>2. /\ \/ resolverCache' = resolverCache
         \/ \E lost \in SUBSET Ids : resolverCache' = Without(resolverCache, lost)
      /\ \/ verifiedAuthors' = verifiedAuthors
         \/ \E lost \in SUBSET Pubkeys : verifiedAuthors' = Without(verifiedAuthors, lost)
  <2>1. \A i \in Ids : {i} \in SUBSET Ids
    OBVIOUS
  <2>2. \A p \in Pubkeys : {p} \in SUBSET Pubkeys
    OBVIOUS
  <2> QED BY <2>1, <2>2, Zenon DEF Forget
<1>3. NotLater
  BY <1>1, NothingIsLater
<1>4. /\ resolverCache' \in [Ids -> Cacheable(Pubkeys \cup {Null}) \cup {NoEntry}]
      /\ verifiedAuthors' \in [Pubkeys -> Cacheable({TRUE}) \cup {NoEntry}]
      /\ AnswersOK' /\ AuthorsOK'
  BY <1>2, <1>3, ShrunkIs
<1>5. req' \in [Reqs -> Handler] /\ ReqsOK'
  BY <1>1, <1>3, HandlersStay
<1>6. OlderOK'
  BY <1>1, <1>3, OlderRemains
<1> QED BY <1>1, <1>4, <1>5, <1>6, SilentIs DEF StateOK, ChainOK

LEMMA UpdateKeeps ==
  ASSUME PolicyInv, NEW i \in Ids, NEW record \in Records, Update(i, record)
  PROVE  PolicyInv'
<1> USE DEF PolicyInv
<1>1. /\ UNCHANGED <<config, resolverCache, verifiedAuthors, older, req, lastWasRateLimited>>
      /\ said' = Silent
      /\ chain' = [chain EXCEPT ![i] = record]
      /\ since' = [since EXCEPT ![i][record] = 0]
  BY DEF Update
<1>2. chain' \in [Ids -> Records]
  BY <1>1 DEF StateOK
<1>3. NotLater /\ since'[i][record] = 0
  <2>1. 0 \in Nat
    OBVIOUS
  <2>2. since' \in [Ids -> [Records -> Nat]]
    BY <1>1, <2>1, Zenon DEF StateOK
  <2>3. ASSUME NEW j \in Ids, NEW v \in Records
        PROVE  since'[j][v] = IF j = i /\ v = record THEN 0 ELSE since[j][v]
    <3>1. since \in [Ids -> [Records -> Nat]]
      BY DEF StateOK
    <3> QED BY <1>1, <3>1
  <2>4. ASSUME NEW j \in Ids, NEW v \in Records PROVE since'[j][v] <= since[j][v]
    <3>1. since[j][v] \in Nat
      BY SinceIs
    <3> QED BY <2>3, <3>1
  <2> QED BY <2>2, <2>3, <2>4 DEF NotLater
<1>4. ChainOK'
  <2>1. ASSUME NEW j \in Ids PROVE since'[j][chain'[j]] = 0
    <3>1. CASE j = i
      BY <1>1, <1>3, <3>1 DEF StateOK
    <3>2. CASE j # i
      BY <1>1, <3>2 DEF StateOK, ChainOK
    <3> QED BY <3>1, <3>2
  <2> QED BY <2>1 DEF ChainOK
<1>5. /\ resolverCache' \in [Ids -> Cacheable(Pubkeys \cup {Null}) \cup {NoEntry}]
      /\ verifiedAuthors' \in [Pubkeys -> Cacheable({TRUE}) \cup {NoEntry}]
      /\ AnswersOK' /\ AuthorsOK'
  BY <1>1, <1>3, ShrunkIs
<1>6. req' \in [Reqs -> Handler] /\ ReqsOK'
  BY <1>1, <1>3, HandlersStay
<1>7. SaidOK' /\ said'.event \in Events \cup {Absent}
  BY <1>1, SilentIs
<1>8. since' \in [Ids -> [Records -> Nat]]
  BY <1>3 DEF NotLater
<1>9. OlderOK'
  BY <1>1, <1>3, OlderStays
<1> QED BY <1>1, <1>2, <1>4, <1>5, <1>6, <1>7, <1>8, <1>9 DEF StateOK

LEMMA RulesFileKeeps == PolicyInv /\ RulesFile => PolicyInv'
<1> SUFFICES ASSUME PolicyInv, RulesFile PROVE PolicyInv'
  OBVIOUS
<1> USE DEF PolicyInv
<1>1. /\ UNCHANGED <<config, chain, since, resolverCache, verifiedAuthors, older, req,
                     lastWasRateLimited>>
      /\ said' = Silent
  BY DEF RulesFile
<1>2. req' \in [Reqs -> Handler] /\ ReqsOK'
  BY <1>1, NothingIsLater, HandlersStay
<1> QED BY <1>1, <1>2, AnswersStay, AuthorsStay, SilentIs DEF StateOK

LEMMA ExitKeeps == PolicyInv /\ Exit => PolicyInv'
<1> SUFFICES ASSUME PolicyInv, Exit PROVE PolicyInv'
  OBVIOUS
<1> USE DEF PolicyInv
<1>1. /\ UNCHANGED <<config, chain, since>> /\ lastWasRateLimited' = FALSE
      /\ req' = [r \in Reqs |-> Idle] /\ said' = Silent
      /\ Replayed /\ FileKeeps
      /\ \E lost \in SUBSET Pubkeys : verifiedAuthors' = Without(verifiedAuthors, lost)
  BY DEF Exit
<1>2. /\ resolverCache' \in [Ids -> Cacheable(Pubkeys \cup {Null}) \cup {NoEntry}]
      /\ verifiedAuthors' \in [Pubkeys -> Cacheable({TRUE}) \cup {NoEntry}]
      /\ AnswersOK' /\ AuthorsOK'
  BY <1>1, NothingIsLater, ShrunkIs
<1>3. req' \in [Reqs -> Handler]
  BY <1>1, IdleIs
<1>4. ReqsOK'
  BY <1>1, IdleOK DEF ReqsOK, HandlerOK
<1>5. OlderOK'
  BY <1>1, NothingIsLater, OlderRemains
<1> QED BY <1>1, <1>2, <1>3, <1>4, <1>5, SilentIs DEF StateOK, ChainOK

(***************************************************************************)
(* Time.                                                                   *)
(***************************************************************************)
LEMMA AgedIs ==
  ASSUME NEW values, NEW e \in Cacheable(values) \cup {NoEntry}
  PROVE  /\ Aged(e) \in Cacheable(values) \cup {NoEntry}
         /\ Aged(e) # NoEntry =>
              /\ e # NoEntry /\ Aged(e).value = e.value
              /\ \/ e.left = Forever /\ Aged(e).left = Forever
                 \/ e.left \in Nat \ {0} /\ Aged(e).left = e.left - 1 /\ Aged(e).left \in Nat
<1>1. CASE e = NoEntry \/ e.left = Forever
  BY <1>1 DEF Aged
<1>2. CASE e # NoEntry /\ e.left # Forever
  <2>1. PICK value \in values, left \in Nat \ {0} : e = [value |-> value, left |-> left]
    BY <1>2 DEF Cacheable
  <2>2. CASE left = 1
    BY <1>2, <2>1, <2>2 DEF Aged
  <2>3. CASE left # 1
    <3>1. Aged(e) = [value |-> value, left |-> left - 1]
      BY <1>2, <2>1, <2>3 DEF Aged
    <3>2. left - 1 \in Nat \ {0}
      BY <2>3
    <3> QED BY <1>2, <2>1, <3>1, <3>2 DEF Cacheable
  <2> QED BY <2>2, <2>3
<1> QED BY <1>1, <1>2

LaterByOne ==
  /\ since' \in [Ids -> [Records -> Nat]]
  /\ \A i \in Ids : \A v \in Records : since'[i][v] <= since[i][v] + 1

LEMMA AsOfAges ==
  ASSUME StateOK, LaterByOne, NEW i \in Ids, NEW v, NEW left \in Nat \ {0}, AsOf(i, v, left)
  PROVE  AsOf(i, v, left - 1)'
<1>1. ASSUME NEW w \in Records, NEW bound \in Nat, since[i][w] + left <= bound
      PROVE  since'[i][w] + (left - 1) <= bound
  <2>1. since'[i][w] \in Nat /\ since[i][w] \in Nat /\ since'[i][w] <= since[i][w] + 1
    BY SinceIs DEF LaterByOne
  <2> QED BY <1>1, <2>1
<1>2. CACHE_TTL + LOOKUP_MS \in Nat /\ NEG_TTL + LOOKUP_MS \in Nat /\ left - 1 # Forever
  <2>1. left - 1 \in Nat
    OBVIOUS
  <2> QED BY <2>1
<1>3. ASSUME v \in Pubkeys PROVE since'[i][v] + (left - 1) <= CACHE_TTL + LOOKUP_MS
  BY <1>1, <1>2, <1>3, NullIs DEF AsOf
<1>4. ASSUME v = Null, NEG_TTL > 0
      PROVE  \/ since'[i][Missing] + (left - 1) <= NEG_TTL + LOOKUP_MS
             \/ since'[i][NoKey] + (left - 1) <= CACHE_TTL + LOOKUP_MS
  BY <1>1, <1>2, <1>4, NullIs DEF AsOf
<1> QED BY <1>2, <1>3, <1>4 DEF AsOf

LEMMA KnownAges ==
  ASSUME StateOK, LaterByOne, NEW p \in Pubkeys, NEW left \in Nat \ {0}, Known(p, left)
  PROVE  Known(p, left - 1)'
<1>1. PICK i \in Ids : since[i][p] + left < 2 * CACHE_TTL + LOOKUP_MS
  BY DEF Known
<1>2. since'[i][p] \in Nat /\ since[i][p] \in Nat /\ since'[i][p] <= since[i][p] + 1
  BY SinceIs, NullIs DEF LaterByOne
<1>3. since'[i][p] + (left - 1) < 2 * CACHE_TTL + LOOKUP_MS
  BY <1>1, <1>2
<1>4. left - 1 # Forever
  <2>1. left - 1 \in Nat
    OBVIOUS
  <2> QED BY <2>1
<1> QED BY <1>3, <1>4 DEF Known

LEMMA TickKeeps == PolicyInv /\ Tick => PolicyInv'
<1> SUFFICES ASSUME PolicyInv, Tick PROVE PolicyInv'
  OBVIOUS
<1> USE DEF PolicyInv
<1>1. /\ UNCHANGED <<config, chain, lastWasRateLimited>> /\ said' = Silent
      /\ \A r \in Reqs : req[r].pc # "hit"
      /\ \A r \in Reqs : req[r].pc = "fetched" => req[r].age < LOOKUP_MS
  BY DEF Tick, Turning
<1>2. LaterByOne /\ ChainOK'
  <2>1. ASSUME NEW v \in Records, NEW age \in Nat
        PROVE  Older(v, age) \in Nat /\ Older(v, age) <= age + 1
    BY AgesAre DEF Older
  <2>2. ASSUME NEW i \in Ids, NEW v \in Records
        PROVE  since'[i][v] = IF chain[i] = v THEN 0 ELSE Older(v, since[i][v])
    BY DEF Tick
  <2>3. ASSUME NEW i \in Ids, NEW v \in Records
        PROVE  since'[i][v] \in Nat /\ since'[i][v] <= since[i][v] + 1
    <3>1. CASE chain[i] = v
      BY <2>2, <3>1, SinceIs
    <3>2. CASE chain[i] # v
      BY <2>1, <2>2, <3>2, SinceIs
    <3> QED BY <3>1, <3>2
  <2>4. since' \in [Ids -> [Records -> Nat]]
    <3>1. since' = [i \in Ids |-> [v \in Records |-> since'[i][v]]]
      BY DEF Tick
    <3> QED BY <2>3, <3>1
  <2>5. ChainOK'
    BY <1>1, <2>2 DEF ChainOK, StateOK
  <2> QED BY <2>3, <2>4, <2>5 DEF LaterByOne
<1>3. /\ resolverCache' \in [Ids -> Cacheable(Pubkeys \cup {Null}) \cup {NoEntry}]
      /\ AnswersOK'
  <2>1. \A i \in Ids : /\ resolverCache[i] \in Cacheable(Pubkeys \cup {Null}) \cup {NoEntry}
                       /\ resolverCache'[i] = Aged(resolverCache[i])
    BY DEF Tick, StateOK
  <2>2. resolverCache' \in [Ids -> Cacheable(Pubkeys \cup {Null}) \cup {NoEntry}]
    <3>1. resolverCache' = [i \in Ids |-> resolverCache'[i]]
      BY DEF Tick
    <3>2. PICK values : values = Pubkeys \cup {Null}
      OBVIOUS
    <3>3. ASSUME NEW i \in Ids PROVE resolverCache'[i] \in Cacheable(values) \cup {NoEntry}
      <4>1. PICK e \in Cacheable(values) \cup {NoEntry} : e = resolverCache[i]
        BY <2>1, <3>2
      <4>2. Aged(e) \in Cacheable(values) \cup {NoEntry}
        BY <4>1, AgedIs
      <4> QED BY <2>1, <4>1, <4>2
    <3> QED BY <3>1, <3>2, <3>3
  <2>3. ASSUME CACHE_TTL > 0, NEW i \in Ids, resolverCache'[i] # NoEntry
        PROVE  AsOf(i, resolverCache[i].value, resolverCache[i].left)'
    <3>1. PICK v, left : v = resolverCache[i].value /\ left = resolverCache[i].left
      OBVIOUS
    <3>2. /\ resolverCache[i] # NoEntry /\ resolverCache'[i].value = v
          /\ \/ left = Forever /\ resolverCache'[i].left = Forever
             \/ left \in Nat \ {0} /\ resolverCache'[i].left = left - 1
      BY <2>1, <2>3, <3>1, AgedIs
    <3>3. AsOf(i, v, left)
      BY <2>3, <3>1, <3>2 DEF AnswersOK
    <3>4. CASE left = Forever
      BY <3>2, <3>3, <3>4 DEF AsOf
    <3>5. CASE left \in Nat \ {0} /\ resolverCache'[i].left = left - 1
      <4>1. AsOf(i, v, left - 1)'
        BY <1>2, <3>3, <3>5, AsOfAges
      <4> QED BY <3>2, <3>5, <4>1
    <3> QED BY <3>2, <3>4, <3>5
  <2> QED BY <2>2, <2>3 DEF AnswersOK
<1>4. /\ verifiedAuthors' \in [Pubkeys -> Cacheable({TRUE}) \cup {NoEntry}]
      /\ AuthorsOK'
  <2>1. \A p \in Pubkeys : /\ verifiedAuthors[p] \in Cacheable({TRUE}) \cup {NoEntry}
                           /\ verifiedAuthors'[p] = Aged(verifiedAuthors[p])
    BY DEF Tick, StateOK
  <2>2. verifiedAuthors' \in [Pubkeys -> Cacheable({TRUE}) \cup {NoEntry}]
    <3>1. verifiedAuthors' = [p \in Pubkeys |-> verifiedAuthors'[p]]
      BY DEF Tick
    <3>2. PICK values : values = {TRUE}
      OBVIOUS
    <3>3. \A p \in Pubkeys : verifiedAuthors'[p] \in Cacheable(values) \cup {NoEntry}
      BY <2>1, <3>2, AgedIs
    <3> QED BY <3>1, <3>2, <3>3
  <2>3. ASSUME CACHE_TTL > 0, NEW p \in Pubkeys, verifiedAuthors'[p] # NoEntry
        PROVE  Known(p, verifiedAuthors[p].left)'
    <3>1. PICK left : left = verifiedAuthors[p].left
      OBVIOUS
    <3>2. /\ verifiedAuthors[p] # NoEntry
          /\ \/ left = Forever
             \/ left \in Nat \ {0} /\ verifiedAuthors'[p].left = left - 1
      BY <2>1, <2>3, <3>1, AgedIs
    <3>3. Known(p, left)
      BY <2>3, <3>1, <3>2 DEF AuthorsOK
    <3>4. left \in Nat \ {0} /\ verifiedAuthors'[p].left = left - 1
      BY <3>2, <3>3 DEF Known
    <3>5. Known(p, left - 1)'
      BY <1>2, <3>3, <3>4, KnownAges
    <3> QED BY <3>4, <3>5
  <2> QED BY <2>2, <2>3 DEF AuthorsOK
<1>5. ASSUME NEW r \in Reqs PROVE req'[r] \in Handler /\ HandlerOK(req[r])'
  <2>1. PICK h \in Handler : h = req[r]
    BY DEF StateOK
  <2>2. HandlerOK(h) /\ h.pc # "hit"
    BY <1>1, <2>1 DEF ReqsOK
  <2>3. CASE h.pc = "fetched"
    <3>1. req'[r] = [h EXCEPT !.age = h.age + 1]
      BY <2>1, <2>3 DEF Tick
    <3>2. h.age \in Nat /\ h.age + 1 \in 0..LOOKUP_MS
      BY <1>1, <2>1, <2>3 DEF Handler
    <3>3. PICK g : g = [h EXCEPT !.age = h.age + 1]
      OBVIOUS
    <3>4. /\ g \in Handler /\ g.pc = h.pc /\ g.event = h.event /\ g.value = h.value
          /\ g.age = h.age + 1
      BY <3>2, <3>3 DEF Handler
    <3>5. HandlerOK(g)'
      <4>1. h.event.nip05 \in Ids /\ h.value \in Records
            /\ since[h.event.nip05][h.value] <= h.age
        BY <2>2, <2>3 DEF HandlerOK, Handler
      <4>2. since'[h.event.nip05][h.value] <= h.age + 1
        <5>1. PICK i \in Ids, v \in Records : i = h.event.nip05 /\ v = h.value
          BY <4>1
        <5>2. since'[i][v] \in Nat /\ since[i][v] \in Nat /\ since'[i][v] <= since[i][v] + 1
          BY <1>2, SinceIs DEF LaterByOne
        <5> QED BY <3>2, <4>1, <5>1, <5>2
      <4> QED BY <2>2, <2>3, <3>4, <4>2 DEF HandlerOK
    <3> QED BY <3>1, <3>3, <3>4, <3>5 DEF HandlerOK
  <2>4. CASE h.pc # "fetched"
    <3>1. req'[r] = h
      BY <2>1, <2>4 DEF Tick
    <3> QED BY <2>2, <2>4, <3>1 DEF HandlerOK
  <2> QED BY <2>3, <2>4
<1>6. req' \in [Reqs -> Handler] /\ ReqsOK'
  <2>1. req' = [r \in Reqs |-> req'[r]]
    BY DEF Tick
  <2> QED BY <1>5, <2>1 DEF ReqsOK
<1>7. OlderOK'
  <2>1. PICK values : values = Pubkeys \cup {Null}
    OBVIOUS
  <2>2. older' = [i \in Ids |-> {Aged(e) : e \in older[i]} \ {NoEntry}]
    BY DEF Tick
  <2>3. ASSUME NEW i \in Ids, NEW f \in older'[i]
        PROVE  \E e \in Cacheable(values) \cup {NoEntry} : e \in older[i] /\ f = Aged(e) /\ f # NoEntry
    BY <2>1, <2>2 DEF OlderOK
  <2>4. ASSUME NEW i \in Ids, NEW f \in older'[i] PROVE f \in Cacheable(values)
    BY <2>3, AgedIs
  <2>5. ASSUME CACHE_TTL > 0, NEW i \in Ids, NEW f \in older'[i] PROVE AsOf(i, f.value, f.left)'
    <3>1. PICK e \in Cacheable(values) \cup {NoEntry} : e \in older[i] /\ f = Aged(e) /\ f # NoEntry
      BY <2>3
    <3>2. PICK v, left : v = e.value /\ left = e.left
      OBVIOUS
    <3>3. /\ f.value = v
          /\ \/ left = Forever /\ f.left = Forever
             \/ left \in Nat \ {0} /\ f.left = left - 1
      BY <3>1, <3>2, AgedIs
    <3>4. AsOf(i, v, left)
      BY <2>5, <3>1, <3>2 DEF OlderOK
    <3>5. CASE left = Forever
      <4>1. v \notin Pubkeys /\ ~(v = Null /\ NEG_TTL > 0)
        BY <3>4, <3>5 DEF AsOf
      <4> QED BY <3>3, <4>1 DEF AsOf
    <3>6. CASE left \in Nat \ {0} /\ f.left = left - 1
      <4>1. AsOf(i, v, left - 1)'
        BY <1>2, <3>4, <3>6, AsOfAges
      <4> QED BY <3>3, <3>6, <4>1 DEF AsOf
    <3> QED BY <3>3, <3>5, <3>6
  <2>6. older' \in [Ids -> SUBSET Cacheable(values)]
    <3>1. older' = [i \in Ids |-> older'[i]]
      BY <2>2
    <3>2. \A i \in Ids : older'[i] \in SUBSET Cacheable(values)
      BY <2>4
    <3> QED BY <3>1, <3>2
  <2> QED BY <2>1, <2>5, <2>6 DEF OlderOK, AsOf
<1> QED BY <1>1, <1>2, <1>3, <1>4, <1>6, <1>7, SilentIs DEF StateOK, LaterByOne
-----------------------------------------------------------------------------
LEMMA InitIsOK == Init => PolicyInv
<1> SUFFICES ASSUME Init PROVE PolicyInv
  OBVIOUS
<1>1. /\ config \in Configs /\ chain \in [Ids -> Records]
      /\ since = [i \in Ids |-> [v \in Records |-> IF chain[i] = v THEN 0 ELSE OLD(v)]]
      /\ resolverCache = [i \in Ids |-> NoEntry]
      /\ verifiedAuthors = [p \in Pubkeys |-> NoEntry]
      /\ req = [r \in Reqs |-> Idle]
      /\ lastWasRateLimited = FALSE /\ said = Silent
  BY DEF Init
<1>2. since \in [Ids -> [Records -> Nat]]
  <2>1. \A i \in Ids : \A v \in Records : (IF chain[i] = v THEN 0 ELSE OLD(v)) \in Nat
    BY AgesAre
  <2> QED BY <1>1, <2>1
<1>3. ChainOK
  BY <1>1 DEF ChainOK
<1>4. /\ resolverCache \in [Ids -> Cacheable(Pubkeys \cup {Null}) \cup {NoEntry}]
      /\ verifiedAuthors \in [Pubkeys -> Cacheable({TRUE}) \cup {NoEntry}]
  BY <1>1
<1>5. AnswersOK /\ AuthorsOK /\ OlderOK
  <2>1. older = [i \in Ids |-> {}]
    BY DEF Init
  <2> QED BY <1>1, <2>1 DEF AnswersOK, AuthorsOK, OlderOK
<1>6. req \in [Reqs -> Handler] /\ ReqsOK
  BY <1>1, IdleIs DEF ReqsOK, HandlerOK
<1>7. said.reply = "none" /\ said.event = Absent
  BY <1>1 DEF Silent
<1>8. SaidOK
  BY <1>7 DEF SaidOK, IdentityIsRecent, AuthorIsRecent, NegativeOK, Accepts
<1> QED BY <1>1, <1>2, <1>3, <1>4, <1>5, <1>6, <1>7, <1>8 DEF PolicyInv, StateOK

LEMMA StutterKeeps == PolicyInv /\ UNCHANGED vars => PolicyInv'
BY DEF vars, policyVars, PolicyInv, StateOK, ChainOK, ReqsOK, HandlerOK, AnswersOK, AsOf,
       OlderOK, AuthorsOK, Known, SaidOK, IdentityIsRecent, AuthorIsRecent, NegativeOK, Accepts

\* Everything that is used later is as recent as its use will need it to be:
\* entries of both caches for the time they have left, cached answers on
\* their way to a handler for one turn, and what a server has read no older
\* than the lookup.  It is inductive; what is said follows from it.
THEOREM PolicyInvariant == Spec => []PolicyInv
<1>1. PolicyInv /\ [Next]_vars => PolicyInv'
  BY LineKeeps, ResumeKeeps, GrantedKeeps, RefusedKeeps, FetchKeeps, AnswerKeeps,
     LookupFailsKeeps, UpdateKeeps, ForgetKeeps, TickKeeps, RulesFileKeeps, ExitKeeps,
     StutterKeeps DEF Next
<1> QED BY InitIsOK, <1>1, PTL DEF Spec

-----------------------------------------------------------------------------
(***************************************************************************)
(* The caches keep their promise.                                          *)
(***************************************************************************)
Answers == INSTANCE TtlCache WITH Keys <- Ids, Values <- Pubkeys \cup {Null},
                                  Ttls <- {CACHE_TTL, NEG_TTL},
                                  entry <- resolverCache, answer <- NoEntry

Authors == INSTANCE TtlCache WITH Keys <- Pubkeys, Values <- {TRUE}, Ttls <- {CACHE_TTL},
                                  entry <- verifiedAuthors, answer <- NoEntry

CachesStep ==
  [Answers!EntryNext \/ Exit]_resolverCache /\ [Authors!EntryNext]_verifiedAuthors

LEMMA WithoutIs ==
  ASSUME NEW cache, NEW lost
  PROVE  /\ Answers!Without(cache, lost) = Without(cache, lost)
         /\ Authors!Without(cache, lost) = Without(cache, lost)
BY DEF Without, Answers!Without, Authors!Without

LEMMA AgedAlike ==
  ASSUME NEW e
  PROVE  Answers!Aged(e) = Aged(e) /\ Authors!Aged(e) = Aged(e)
BY DEF Aged, Answers!Aged, Authors!Aged

\* A set that pushes nothing out.
LEMMA WithoutNone ==
  ASSUME NEW S, NEW T, NEW cache \in [S -> T]
  PROVE  Without(cache, {}) = cache
BY DEF Without

LEMMA ConcludeStores ==
  ASSUME StateOK, ReqsOK, NEW r \in Reqs, req[r].pc # "idle",
         NEW value, NEW cause, Conclude(r, value, cause)
  PROVE  [Authors!EntryNext]_verifiedAuthors
<1>1. PICK p \in Pubkeys : p = req[r].event.pubkey
  BY HandledIs
<1>2. PICK left : left = IF CACHE_TTL > 0 THEN CACHE_TTL ELSE Forever
  OBVIOUS
<1>3. \/ verifiedAuthors' = verifiedAuthors
      \/ verifiedAuthors' = [verifiedAuthors EXCEPT ![p] = [value |-> TRUE, left |-> left]]
  BY <1>1, <1>2 DEF Conclude, Fresh
<1>4. left \in Authors!Lives
  BY <1>2 DEF Authors!Lives
<1>5. verifiedAuthors = Authors!Without(verifiedAuthors, {})
  <2>1. verifiedAuthors \in [Pubkeys -> Cacheable({TRUE}) \cup {NoEntry}]
    BY DEF StateOK
  <2>2. Without(verifiedAuthors, {}) = verifiedAuthors
    BY <2>1, WithoutNone
  <2> QED BY <2>2, WithoutIs
<1>6. {} \in SUBSET (Pubkeys \ {p})
  OBVIOUS
<1>7. CASE verifiedAuthors' = [verifiedAuthors EXCEPT ![p] = [value |-> TRUE, left |-> left]]
  <2>1. Authors!Store(p, TRUE, left)
    BY <1>5, <1>6, <1>7 DEF Authors!Store
  <2> QED BY <1>4, <2>1 DEF Authors!EntryNext
<1> QED BY <1>3, <1>7

LEMMA AnswerStores ==
  ASSUME StateOK, ReqsOK, NEW r \in Reqs, Answer(r)
  PROVE  Answers!EntryNext
<1>1. req[r].pc = "fetched"
  BY DEF Answer
<1>2. PICK i \in Ids : i = req[r].event.nip05
  BY <1>1, HandledIs
<1>3. PICK value \in Pubkeys \cup {Null} : value = Extracted(req[r].value)
  BY DEF Extracted
<1>4. PICK ttl \in {CACHE_TTL, NEG_TTL} : ttl = TtlOf(req[r].value)
  BY DEF TtlOf
<1>5. PICK left : left = IF ttl > 0 THEN ttl ELSE Forever
  OBVIOUS
<1>6. resolverCache' = [resolverCache EXCEPT ![i] = [value |-> value, left |-> left]]
  BY <1>2, <1>3, <1>4, <1>5 DEF Answer, Fresh
<1>7. left \in Answers!Lives
  BY <1>5 DEF Answers!Lives
<1>8. resolverCache = Answers!Without(resolverCache, {})
  <2>1. resolverCache \in [Ids -> Cacheable(Pubkeys \cup {Null}) \cup {NoEntry}]
    BY DEF StateOK
  <2>2. Without(resolverCache, {}) = resolverCache
    BY <2>1, WithoutNone
  <2> QED BY <2>2, WithoutIs
<1>9. {} \in SUBSET (Ids \ {i})
  OBVIOUS
<1>10. Answers!Store(i, value, left)
  BY <1>6, <1>8, <1>9 DEF Answers!Store
<1> QED BY <1>7, <1>10 DEF Answers!EntryNext

LEMMA ForgetLoses ==
  ASSUME Forget
  PROVE  CachesStep
<1>1. /\ \/ resolverCache' = resolverCache
         \/ \E i \in Ids : resolverCache' = Without(resolverCache, {i})
      /\ \/ verifiedAuthors' = verifiedAuthors
         \/ \E p \in Pubkeys : verifiedAuthors' = Without(verifiedAuthors, {p})
  BY DEF Forget
<1>2. ASSUME NEW i \in Ids, resolverCache' = Without(resolverCache, {i})
      PROVE  Answers!Lose
  <2>1. {i} \in SUBSET Ids
    OBVIOUS
  <2> QED BY <1>2, <2>1, WithoutIs DEF Answers!Lose
<1>3. ASSUME NEW p \in Pubkeys, verifiedAuthors' = Without(verifiedAuthors, {p})
      PROVE  Authors!Lose
  <2>1. {p} \in SUBSET Pubkeys
    OBVIOUS
  <2> QED BY <1>3, <2>1, WithoutIs DEF Authors!Lose
<1> QED BY <1>1, <1>2, <1>3 DEF CachesStep, Answers!EntryNext, Authors!EntryNext

LEMMA ExitLoses ==
  ASSUME Exit
  PROVE  CachesStep
<1>1. \E lost \in SUBSET Pubkeys : verifiedAuthors' = Authors!Without(verifiedAuthors, lost)
  BY WithoutIs DEF Exit
<1>2. Authors!Lose
  BY <1>1 DEF Authors!Lose
<1> QED BY <1>2 DEF CachesStep, Authors!EntryNext

LEMMA TickAges ==
  ASSUME Tick
  PROVE  CachesStep
<1>1. /\ resolverCache' = [i \in Ids |-> Answers!Aged(resolverCache[i])]
      /\ verifiedAuthors' = [p \in Pubkeys |-> Authors!Aged(verifiedAuthors[p])]
  BY AgedAlike DEF Tick
<1>2. Answers!Age /\ Authors!Age
  BY <1>1 DEF Answers!Age, Authors!Age
<1> QED BY <1>2 DEF CachesStep, Answers!EntryNext, Authors!EntryNext

\* The handler and the resolver use their caches as TtlCache promises, which
\* is what the cache of src/src/cache.js implements (LRUCacheProofs): however
\* lines overlap, an entry is stored with its whole time to live, runs out
\* with time, and is otherwise only forgotten; no hit and no late answer gives
\* it more time in any other way.  Only over an exit may an answer be replaced
\* by an older one, which is why Exit stands beside EntryNext: what may come
\* back then is bounded by OlderOK, and by NothingIsRevived in the file.
THEOREM CachesAreAsPromised ==
  Spec => /\ Answers!EntryInit /\ [][Answers!EntryNext \/ Exit]_resolverCache
          /\ Authors!EntrySpec
<1>1. Init => Answers!EntryInit /\ Authors!EntryInit
  BY DEF Init, Answers!EntryInit, Authors!EntryInit
<1>2. PolicyInv /\ [Next]_vars => CachesStep
  <2> SUFFICES ASSUME StateOK, ReqsOK, [Next]_vars PROVE CachesStep
    BY DEF PolicyInv
  <2>1. ASSUME UNCHANGED <<resolverCache, verifiedAuthors>> PROVE CachesStep
    BY <2>1 DEF CachesStep
  <2>2. ASSUME NEW r \in Reqs, NEW e \in Traffic(config), Line(r, e) PROVE CachesStep
    BY <2>1, <2>2 DEF Line
  <2>3. ASSUME NEW r \in Reqs, Resume(r) \/ Refused(r) \/ LookupFails(r) PROVE CachesStep
    <3>1. /\ UNCHANGED resolverCache /\ req[r].pc # "idle"
          /\ \E value, cause : Conclude(r, value, cause)
      BY <2>3 DEF Resume, Refused, LookupFails
    <3> QED BY <3>1, ConcludeStores DEF CachesStep
  <2>4. ASSUME NEW r \in Reqs, Answer(r) PROVE CachesStep
    <3>1. req[r].pc # "idle" /\ \E value, cause : Conclude(r, value, cause)
      BY <2>4 DEF Answer
    <3> QED BY <2>4, <3>1, ConcludeStores, AnswerStores DEF CachesStep
  <2>5. ASSUME NEW r \in Reqs, Granted(r) \/ Fetch(r) PROVE CachesStep
    BY <2>1, <2>5 DEF Granted, Fetch
  <2>6. ASSUME NEW i \in Ids, NEW record \in Records, Update(i, record) PROVE CachesStep
    BY <2>1, <2>6 DEF Update
  <2>7. ASSUME RulesFile PROVE CachesStep
    BY <2>1, <2>7 DEF RulesFile
  <2>8. CASE UNCHANGED vars
    BY <2>1, <2>8 DEF vars, policyVars
  <2> QED BY <2>2, <2>3, <2>4, <2>5, <2>6, <2>7, <2>8, ForgetLoses, ExitLoses, TickAges DEF Next
<1>3. CachesStep => [Answers!EntryNext \/ Exit]_resolverCache /\ [Authors!EntryNext]_verifiedAuthors
  BY DEF CachesStep
<1> QED BY <1>1, <1>2, <1>3, PolicyInvariant, PTL
        DEF Spec, Authors!EntrySpec

\* With a CACHE_TTL of 0 entries do not expire, and what they hold may be
\* arbitrarily old: the two bounds on age are for the others.
EntriesExpire == CACHE_TTL > 0

\* An accepted kind:0 event was its author's name less than CACHE_TTL and one
\* lookup ago, for any number of overlapping lookups and updates.
THEOREM AcceptedIdentityIsRecent ==
  ASSUME EntriesExpire
  PROVE  Spec => []IdentityIsRecent
<1>1. PolicyInv => IdentityIsRecent
  BY DEF PolicyInv, SaidOK, EntriesExpire
<1> QED BY <1>1, PolicyInvariant, PTL

\* Whoever posts under the .bit author gate owned a name less than two
\* lives of a cache entry and one lookup ago.
THEOREM AcceptedAuthorIsRecent ==
  ASSUME EntriesExpire
  PROVE  Spec => []AuthorIsRecent
<1>1. PolicyInv => AuthorIsRecent
  BY DEF PolicyInv, SaidOK, EntriesExpire
<1> QED BY <1>1, PolicyInvariant, PTL

\* The state has its type throughout, and a name is called unresolved only if
\* its lookup has failed or it was unresolved within the shorter time to live.
THEOREM UnresolvedIsRecent == Spec => []NegativeIsRecent
<1>1. PolicyInv /\ LoaderTypeOK => NegativeIsRecent
  <2> SUFFICES ASSUME PolicyInv, LoaderTypeOK PROVE NegativeIsRecent
    OBVIOUS
  <2>1. TypeOK
    <3>1. /\ config \in Configs /\ chain \in [Ids -> Records]
          /\ since \in [Ids -> [Records -> Nat]]
          /\ lastWasRateLimited \in BOOLEAN /\ said.event \in Events \cup {Absent}
          /\ \A i \in Ids : \A e \in older[i] : e.value \in Pubkeys \cup {Null}
      BY DEF PolicyInv, StateOK, OlderOK, Cacheable
    <3>2. \A i \in Ids : resolverCache[i] = NoEntry \/
                           resolverCache[i].value \in Pubkeys \cup {Null}
      BY DEF PolicyInv, StateOK, Cacheable
    <3>3. ASSUME NEW p \in Pubkeys, verifiedAuthors[p] # NoEntry
          PROVE  verifiedAuthors[p].value = TRUE
      <4>1. PICK values : values = {TRUE}
        OBVIOUS
      <4>2. verifiedAuthors[p] \in Cacheable(values)
        BY <3>3, <4>1 DEF PolicyInv, StateOK
      <4>3. verifiedAuthors[p].value \in values
        BY <4>2 DEF Cacheable
      <4> QED BY <4>1, <4>3
    <3>4. \A r \in Reqs : /\ req[r].pc \in {"idle", "hit", "waiting", "looking", "fetched"}
                          /\ req[r].event \in Events \cup {Absent}
                          /\ req[r].value \in Records
                          /\ req[r].age \in 0..LOOKUP_MS
      BY DEF PolicyInv, StateOK, Handler
    <3> QED BY <3>1, <3>2, <3>3, <3>4 DEF TypeOK
  <2>2. CACHE_TTL > 0 => NegativeOK
    BY DEF PolicyInv, SaidOK
  <2> QED BY <2>1, <2>2 DEF NegativeIsRecent, NegativeOK
<1>2. LoaderSpec => []LoaderTypeOK
  BY RulesNeverRollBack, PTL
<1> QED BY <1>1, <1>2, PolicyInvariant, PluginRunsTheLoader, PTL
-----------------------------------------------------------------------------
(***************************************************************************)
(* The rules that bind.                                                    *)
(***************************************************************************)
\* Without a configured community, of two documents made at the same time for
\* different communities either may be in force: there are none such.
OneAtATime ==
  Community # NoCommunity \/ \A d, e \in Docs : d.createdAt = e.createdAt => KeyOf(d) = KeyOf(e)

OfferedAreAdmissible == \A d \in offered : Admissible(d)

LEMMA OnlyAdmissibleAreOffered == LoaderSpec => []OfferedAreAdmissible
<1>1. LoaderInit => OfferedAreAdmissible
  BY DEF LoaderInit, OfferedAreAdmissible
<1>2. OfferedAreAdmissible /\ [LoaderNext]_loaderVars => OfferedAreAdmissible'
  <2> SUFFICES ASSUME OfferedAreAdmissible, [LoaderNext]_loaderVars
               PROVE  OfferedAreAdmissible'
    OBVIOUS
  <2>1. ASSUME NEW d, Offer(d) PROVE OfferedAreAdmissible'
    BY <2>1 DEF Offer, Note, OfferedAreAdmissible
  <2>2. ASSUME UNCHANGED offered PROVE OfferedAreAdmissible'
    BY <2>2 DEF OfferedAreAdmissible
  <2>3. CASE Stream
    BY <2>1, <2>3 DEF Stream
  <2>4. CASE LoadFile
    BY <2>1, <2>2, <2>4 DEF LoadFile
  <2>5. CASE WriteFile
    BY <2>2, <2>5 DEF WriteFile
  <2>6. CASE Restart
    BY <2>6 DEF Restart, OfferedAreAdmissible
  <2>7. CASE UNCHANGED loaderVars
    BY <2>2, <2>7 DEF loaderVars
  <2> QED BY <2>3, <2>4, <2>5, <2>6, <2>7 DEF LoaderNext
<1> QED BY <1>1, <1>2, PTL DEF LoaderSpec

\* The document in force is the only pick of the newest documents.
LEMMA OnlyOneBinds ==
  ASSUME OneAtATime, LoaderTypeOK, OfferedAreAdmissible, OrderIndependent, NoTies,
         NEW d \in Docs, Picked(NewestPerKey, d)
  PROVE  active = d
<1>1. Picked(NewestPerKey, active)
  BY DEF OrderIndependent
<1>2. NewestPerKey \subseteq offered /\ offered \subseteq Docs
  BY DEF NewestPerKey, LoaderTypeOK
<1>3. Survivors(NewestPerKey) # {} /\ Survivors(NewestPerKey) \subseteq NewestPerKey
  <2>1. d # NoDoc
    BY RulesAssumption DEF RulesAssumption
  <2> QED BY <2>1 DEF Picked, Survivors
<1>4. /\ d \in offered /\ active \in offered
      /\ active.createdAt <= d.createdAt /\ d.createdAt <= active.createdAt
  BY <1>1, <1>2, <1>3 DEF Picked
<1>5. active \in Docs /\ active.createdAt = d.createdAt
  <2>1. active \in Docs /\ active.createdAt \in Nat /\ d.createdAt \in Nat
    BY <1>2, <1>4, RulesAssumption DEF RulesAssumption
  <2> QED BY <1>4, <2>1
<1>6. KeyOf(active) = KeyOf(d)
  <2>1. CASE Community # NoCommunity
    BY <1>4, <2>1 DEF OfferedAreAdmissible, Admissible, KeyOf
  <2>2. CASE ~(Community # NoCommunity)
    BY <1>5, <2>2 DEF OneAtATime
  <2> QED BY <2>1, <2>2
<1> QED BY <1>4, <1>5, <1>6 DEF NoTies

LEMMA RulesHoldOn ==
  ASSUME OneAtATime, StateOK, ReqsOK, LoaderTypeOK, OfferedAreAdmissible, OrderIndependent,
         NewestRulesHold, [Next]_vars
  PROVE  NewestRulesHold'
<1>1. ASSUME said' = Silent PROVE NewestRulesHold'
  BY <1>1 DEF Silent, NewestRulesHold, Accepts
<1>2. ASSUME NEW e, NEW reply, NEW cause, Say(e, reply, cause),
             e.shape # "event" \/ e.kind = 0 \/ IsRulesEvent(e)'
      PROVE  NewestRulesHold'
  BY <1>2 DEF Say, NewestRulesHold, Accepts
<1>3. ASSUME NEW r \in Reqs, req[r].pc # "idle", NEW value, NEW cause, Conclude(r, value, cause)
      PROVE  NewestRulesHold'
  <2>1. req[r].event.kind = 0
    BY <1>3, HandledIs
  <2>2. PICK e, reply : e = req[r].event /\ Say(e, reply, cause)
    BY <1>3 DEF Conclude
  <2> QED BY <1>2, <2>1, <2>2
<1>4. ASSUME NEW r \in Reqs, NEW e \in Traffic(config), Line(r, e) PROVE NewestRulesHold'
  <2>1. config' = config
    BY <1>4 DEF Line
  <2>2. CASE LineUnfit(e)
    BY <1>2, <2>2 DEF LineUnfit
  <2>3. CASE LineRules(e)
    BY <1>2, <2>1, <2>3 DEF LineRules, IsRulesEvent
  <2>4. CASE LineMetadata(r, e)
    BY <1>1, <1>2, <2>4 DEF LineMetadata, Resolve
  <2>5. CASE LineOrdinary(e)
    <3>1. UNCHANGED loaderVars /\ Say(e, OrdinaryVerdict(e), "none")
      BY <2>5 DEF LineOrdinary
    <3>2. ASSUME NEW d \in Docs, Accepts(e)', config.nip9a, NoTies', Picked(NewestPerKey, d)'
          PROVE  Violation(d, Context(e)) = Absent
      <4>1. NoTies /\ Picked(NewestPerKey, d)
        BY <3>1, <3>2 DEF loaderVars, NoTies, NewestPerKey
      <4>2. active = d /\ active # NoDoc
        BY <4>1, OnlyOneBinds, RulesAssumption DEF RulesAssumption
      <4>3. OrdinaryVerdict(e) = "accept"
        BY <3>1, <3>2 DEF Accepts, Say
      <4>4. Violation(active, Context(e)) = Absent
        BY <3>2, <4>2, <4>3, OrdinaryIs
      <4> QED BY <4>2, <4>4
    <3>3. \A f : Accepts(f)' => f = e
      BY <3>1 DEF Accepts, Say
    <3> QED BY <2>1, <3>2, <3>3 DEF NewestRulesHold
  <2> QED BY <1>4, <2>2, <2>3, <2>4, <2>5 DEF Line
<1>5. ASSUME NEW r \in Reqs, Resume(r) \/ Refused(r) \/ Answer(r) \/ LookupFails(r)
      PROVE  NewestRulesHold'
  <2>1. req[r].pc # "idle" /\ \E value, cause : Conclude(r, value, cause)
    BY <1>5 DEF Resume, Refused, Answer, LookupFails
  <2> QED BY <1>3, <2>1
<1>6. ASSUME NEW r \in Reqs, Granted(r) \/ Fetch(r) PROVE NewestRulesHold'
  BY <1>1, <1>6 DEF Granted, Fetch
<1>7. ASSUME NEW i, NEW record, Update(i, record) PROVE NewestRulesHold'
  BY <1>1, <1>7 DEF Update
<1>8. CASE Forget \/ Tick \/ RulesFile \/ Exit
  BY <1>1, <1>8 DEF Forget, Tick, RulesFile, Exit
<1>9. CASE UNCHANGED vars
  BY <1>9 DEF vars, policyVars, loaderVars, NewestRulesHold, Accepts, IsRulesEvent, NoTies,
              NewestPerKey
<1> QED BY <1>4, <1>5, <1>6, <1>7, <1>8, <1>9 DEF Next

\* An event that is accepted under NIP-9B obeys the newest document offered
\* since the start, whatever is replayed, from either source.
THEOREM AcceptedObeysNewestRules ==
  ASSUME OneAtATime
  PROVE  Spec => []NewestRulesHold
<1>1. Init => NewestRulesHold
  BY DEF Init, Silent, NewestRulesHold, Accepts
<1>2. /\ PolicyInv /\ LoaderTypeOK /\ OfferedAreAdmissible /\ OrderIndependent
      /\ NewestRulesHold /\ [Next]_vars
      => NewestRulesHold'
  BY RulesHoldOn DEF PolicyInv
<1>3. LoaderSpec => [](LoaderTypeOK /\ OfferedAreAdmissible /\ OrderIndependent)
  BY RulesNeverRollBack, OnlyAdmissibleAreOffered, OrderDoesNotMatter, PTL
<1> QED BY <1>1, <1>2, <1>3, PolicyInvariant, PluginRunsTheLoader, PTL DEF Spec

-----------------------------------------------------------------------------
(***************************************************************************)
(* Documents: how the parser and the validator respond to repeated,        *)
(* contradictory and reordered tags.                                       *)
(***************************************************************************)
HIDE PolicyAssumption DEF PolicyAssumption

Counts(t, name) == t.tag = name /\ Valid(t)

\* The parser, tag by tag.
Filters(f, ts, name) ==
  f = [n \in 0..Len(ts) |-> IF n = 0 THEN <<>>
                            ELSE IF ts[n].tag = name /\ Valid(ts[n])
                                 THEN Append(f[n - 1], ts[n])
                                 ELSE f[n - 1]]

LEMMA FilterExists ==
  ASSUME NEW ts \in Seq(Tags), NEW name
  PROVE  \E f : Filters(f, ts, name)
<1> DEFINE N == Len(ts)
           Step(s, n) == IF ts[n].tag = name /\ Valid(ts[n]) THEN Append(s, ts[n]) ELSE s
           Upto(f, k) == f = [n \in 0..k |-> IF n = 0 THEN <<>>
                                             ELSE IF ts[n].tag = name /\ Valid(ts[n])
                                                  THEN Append(f[n - 1], ts[n])
                                                  ELSE f[n - 1]]
           bad == {k \in 0..N : ~\E f : Upto(f, k)}
<1>0. N \in Nat /\ bad \in SUBSET Nat
  OBVIOUS
<1>1. CASE bad = {}
  <2>1. N \in 0..N
    BY <1>0
  <2>2. \E f : Upto(f, N)
    <3> HIDE DEF Upto, N
    <3> QED BY <1>1, <2>1
  <2> QED BY <2>2 DEF Filters
<1>2. CASE bad # {}
  <2>1. PICK k \in bad : \A n \in bad : k <= n
    <3> HIDE DEF bad
    <3> QED BY <1>0, <1>2, Smallest
  <2>2. k \in 0..N /\ ~\E f : Upto(f, k)
    OBVIOUS
  <2>3. CASE k = 0
    <3>1. Upto([n \in 0..0 |-> <<>>], 0)
      OBVIOUS
    <3> QED BY <2>2, <2>3, <3>1
  <2>4. CASE k # 0
    <3>1. k - 1 \in 0..N /\ k - 1 \notin bad
      <4> HIDE DEF bad, Upto
      <4> QED BY <1>0, <2>1, <2>2, <2>4
    <3>2. PICK g : Upto(g, k - 1)
      BY <3>1
    <3> DEFINE f == [n \in 0..k |-> IF n = k THEN Step(g[k - 1], k) ELSE g[n]]
    <3>3. \A n \in 0..k : f[n] = IF n = 0 THEN <<>> ELSE Step(f[n - 1], n)
      <4> SUFFICES ASSUME NEW n \in 0..k
                   PROVE  f[n] = IF n = 0 THEN <<>> ELSE Step(f[n - 1], n)
        OBVIOUS
      <4>1. CASE n = k
        <5>1. f[n] = Step(g[k - 1], k) /\ f[k - 1] = g[k - 1]
          BY <1>0, <2>2, <2>4, <4>1
        <5> QED BY <2>4, <4>1, <5>1
      <4>2. CASE n # k
        <5>1. n \in 0..k - 1 /\ f[n] = g[n] /\ (n # 0 => f[n - 1] = g[n - 1])
          BY <1>0, <2>2, <4>2
        <5>2. g[n] = IF n = 0 THEN <<>> ELSE Step(g[n - 1], n)
          BY <3>2, <5>1
        <5> QED BY <5>1, <5>2
      <4> QED BY <4>1, <4>2
    <3>4. Upto(f, k)
      BY <3>3
    <3> HIDE DEF f, Upto
    <3> QED BY <2>2, <3>4
  <2> QED BY <2>3, <2>4
<1> QED BY <1>1, <1>2

LEMMA Filtering ==
  ASSUME NEW ts \in Seq(Tags), NEW name
  PROVE  \E f : /\ Named(ts, name) = f[Len(ts)]
                /\ f[0] = <<>>
                /\ \A n \in 1..Len(ts) :
                     f[n] = IF Counts(ts[n], name) THEN Append(f[n - 1], ts[n]) ELSE f[n - 1]
<1> DEFINE r == CHOOSE f : Filters(f, ts, name)
<1>1. Filters(r, ts, name)
  BY FilterExists
<1>2. Named(ts, name) = r[Len(ts)]
  BY DEF Named, Filters
<1>3. Len(ts) \in Nat
  OBVIOUS
<1> HIDE DEF r
<1>4. r[0] = <<>>
  BY <1>1, <1>3 DEF Filters
<1>5. ASSUME NEW n \in 1..Len(ts)
      PROVE  r[n] = IF Counts(ts[n], name) THEN Append(r[n - 1], ts[n]) ELSE r[n - 1]
  <2>1. n \in 0..Len(ts) /\ n # 0
    OBVIOUS
  <2> QED BY <1>1, <2>1 DEF Filters, Counts
<1> QED BY <1>2, <1>4, <1>5

Elements(s) == {s[n] : n \in 1..Len(s)}

\* The tags of a name are those of the document that count, and only those.
LEMMA NamedIs ==
  ASSUME NEW ts \in Seq(Tags), NEW name
  PROVE  /\ Named(ts, name) \in Seq(Tags)
         /\ Elements(Named(ts, name)) = {t \in Elements(ts) : Counts(t, name)}
<1> DEFINE N == Len(ts)
           Those(m) == {t \in {ts[n] : n \in 1..m} : Counts(t, name)}
<1>1. PICK f : /\ Named(ts, name) = f[N]
               /\ f[0] = <<>>
               /\ \A n \in 1..N :
                    f[n] = IF Counts(ts[n], name) THEN Append(f[n - 1], ts[n]) ELSE f[n - 1]
  BY Filtering
<1> DEFINE Right(m) == f[m] \in Seq(Tags) /\ Elements(f[m]) = Those(m)
           bad == {k \in 0..N : ~Right(k)}
<1>0. N \in Nat /\ bad \in SUBSET Nat
  OBVIOUS
<1>2. CASE bad = {}
  <2>1. Right(N)
    <3> HIDE DEF Right
    <3> QED BY <1>0, <1>2
  <2>2. Those(N) = {t \in Elements(ts) : Counts(t, name)}
    BY DEF Elements
  <2> QED BY <1>1, <2>1, <2>2
<1>3. CASE bad # {}
  <2>1. PICK k \in bad : \A n \in bad : k <= n
    <3> HIDE DEF bad
    <3> QED BY <1>0, <1>3, Smallest
  <2>2. k \in 0..N /\ ~Right(k)
    OBVIOUS
  <2>3. CASE k = 0
    <3>1. f[0] \in Seq(Tags) /\ Elements(f[0]) = {}
      BY <1>1 DEF Elements
    <3>2. Those(0) = {}
      OBVIOUS
    <3> QED BY <2>2, <2>3, <3>1, <3>2
  <2>4. CASE k # 0
    <3>1. k - 1 \in 0..N /\ k - 1 \notin bad /\ k \in 1..N
      <4> HIDE DEF bad, Right
      <4> QED BY <1>0, <2>1, <2>2, <2>4
    <3>2. Right(k - 1)
      <4> HIDE DEF Right
      <4> QED BY <3>1
    <3>3. f[k] = IF Counts(ts[k], name) THEN Append(f[k - 1], ts[k]) ELSE f[k - 1]
      BY <1>1, <3>1
    <3>4. 1..k = 1..k - 1 \cup {k} /\ ts[k] \in Tags
      BY <3>1
    <3>5. {ts[n] : n \in 1..k} = {ts[n] : n \in 1..k - 1} \cup {ts[k]}
      BY <3>4
    <3>6. CASE Counts(ts[k], name)
      <4>1. Those(k) = Those(k - 1) \cup {ts[k]}
        BY <3>5, <3>6
      <4>2. ASSUME NEW s \in Seq(Tags), NEW t \in Tags
            PROVE  /\ Append(s, t) \in Seq(Tags)
                   /\ Elements(Append(s, t)) = Elements(s) \cup {t}
        <5>1. /\ Append(s, t) \in Seq(Tags)
              /\ Len(s) \in Nat /\ Len(Append(s, t)) = Len(s) + 1
              /\ Append(s, t)[Len(s) + 1] = t
              /\ \A n \in 1..Len(s) : Append(s, t)[n] = s[n]
          OBVIOUS
        <5>2. 1..Len(s) + 1 = 1..Len(s) \cup {Len(s) + 1}
          BY <5>1
        <5> QED BY <5>1, <5>2 DEF Elements
      <4>3. f[k] = Append(f[k - 1], ts[k])
        BY <3>3, <3>6
      <4>4. f[k] \in Seq(Tags) /\ Elements(f[k]) = Elements(f[k - 1]) \cup {ts[k]}
        BY <3>2, <3>4, <4>2, <4>3
      <4> HIDE DEF Those
      <4> QED BY <2>2, <3>2, <4>1, <4>4
    <3>7. CASE ~Counts(ts[k], name)
      <4>1. Those(k) = Those(k - 1)
        BY <3>5, <3>7
      <4> HIDE DEF Those
      <4> QED BY <2>2, <3>2, <3>3, <3>7, <4>1
    <3> QED BY <3>6, <3>7
  <2> QED BY <2>3, <2>4
<1> QED BY <1>2, <1>3

\* One tag more.
LEMMA NamedMore ==
  ASSUME NEW ts \in Seq(Tags), NEW t \in Tags, NEW name
  PROVE  Named(Append(ts, t), name) =
           IF Counts(t, name) THEN Append(Named(ts, name), t) ELSE Named(ts, name)
<1> DEFINE N  == Len(ts)
           more == Append(ts, t)
<1>0. /\ N \in Nat /\ more \in Seq(Tags) /\ Len(more) = N + 1 /\ more[N + 1] = t
      /\ \A n \in 1..N : more[n] = ts[n]
  OBVIOUS
<1> HIDE DEF more
<1>1. PICK f : /\ Named(ts, name) = f[N]
               /\ f[0] = <<>>
               /\ \A n \in 1..N :
                    f[n] = IF Counts(ts[n], name) THEN Append(f[n - 1], ts[n]) ELSE f[n - 1]
  BY Filtering
<1>2. PICK g : /\ Named(more, name) = g[N + 1]
               /\ g[0] = <<>>
               /\ \A n \in 1..N + 1 :
                    g[n] = IF Counts(more[n], name) THEN Append(g[n - 1], more[n]) ELSE g[n - 1]
  <2>1. \E g : /\ Named(more, name) = g[Len(more)]
               /\ g[0] = <<>>
               /\ \A n \in 1..Len(more) :
                    g[n] = IF Counts(more[n], name) THEN Append(g[n - 1], more[n]) ELSE g[n - 1]
    <3>1. PICK s \in Seq(Tags) : s = more
      BY <1>0
    <3>2. \E g : /\ Named(s, name) = g[Len(s)]
                 /\ g[0] = <<>>
                 /\ \A n \in 1..Len(s) :
                      g[n] = IF Counts(s[n], name) THEN Append(g[n - 1], s[n]) ELSE g[n - 1]
      BY Filtering
    <3> QED BY <3>1, <3>2
  <2> QED BY <1>0, <2>1, Zenon
<1> DEFINE bad == {k \in 0..N : f[k] # g[k]}
<1>3. bad = {}
  <2> SUFFICES ASSUME bad # {} PROVE FALSE
    OBVIOUS
  <2>0. bad \in SUBSET Nat
    BY <1>0
  <2>1. PICK k \in bad : \A n \in bad : k <= n
    <3> HIDE DEF bad
    <3> QED BY <2>0, Smallest
  <2>2. k \in 0..N /\ f[k] # g[k]
    OBVIOUS
  <2>3. k # 0
    BY <1>1, <1>2, <2>2
  <2>4. k - 1 \in 0..N /\ k - 1 \notin bad /\ k \in 1..N /\ k \in 1..N + 1
    <3> HIDE DEF bad
    <3> QED BY <1>0, <2>1, <2>2, <2>3
  <2>5. f[k - 1] = g[k - 1]
    BY <2>4
  <2>6. f[k] = IF Counts(ts[k], name) THEN Append(f[k - 1], ts[k]) ELSE f[k - 1]
    BY <1>1, <2>4
  <2>7. g[k] = IF Counts(more[k], name) THEN Append(g[k - 1], more[k]) ELSE g[k - 1]
    BY <1>2, <2>4
  <2>8. more[k] = ts[k]
    BY <1>0, <2>4
  <2> QED BY <2>2, <2>5, <2>6, <2>7, <2>8
<1>4. f[N] = g[N]
  <2>1. N \in 0..N
    BY <1>0
  <2> QED BY <1>3, <2>1
<1>5. g[N + 1] = IF Counts(t, name) THEN Append(g[N], t) ELSE g[N]
  <2>1. N + 1 \in 1..N + 1 /\ (N + 1) - 1 = N
    BY <1>0
  <2> HIDE DEF N
  <2> QED BY <1>0, <1>2, <2>1
<1>6. Named(more, name) = IF Counts(t, name) THEN Append(Named(ts, name), t) ELSE Named(ts, name)
  BY <1>1, <1>2, <1>4, <1>5
<1> QED BY <1>6 DEF more

LEMMA ElementsMore ==
  ASSUME NEW s \in Seq(Tags), NEW t \in Tags
  PROVE  /\ Append(s, t) \in Seq(Tags)
         /\ Elements(Append(s, t)) = Elements(s) \cup {t}
<1>1. /\ Append(s, t) \in Seq(Tags)
      /\ Len(s) \in Nat /\ Len(Append(s, t)) = Len(s) + 1
      /\ Append(s, t)[Len(s) + 1] = t
      /\ \A n \in 1..Len(s) : Append(s, t)[n] = s[n]
  OBVIOUS
<1>2. 1..Len(s) + 1 = 1..Len(s) \cup {Len(s) + 1}
  BY <1>1
<1> QED BY <1>1, <1>2 DEF Elements

\* The value of a tag that may be given once is that of one that counts.
LEMMA LastIs ==
  ASSUME NEW ts \in Seq(Tags), NEW name
  PROVE  \/ LastOf(ts, name) = Absent /\ \A t \in Elements(ts) : ~Counts(t, name)
         \/ \E t \in Elements(ts) : Counts(t, name) /\ LastOf(ts, name) = t.value
<1> DEFINE found == Named(ts, name)
<1>1. found \in Seq(Tags) /\ Elements(found) = {t \in Elements(ts) : Counts(t, name)}
  BY NamedIs
<1>2. LastOf(ts, name) = IF found = <<>> THEN Absent ELSE found[Len(found)].value
  BY DEF LastOf
<1> HIDE DEF found
<1>3. CASE found = <<>>
  <2>1. Elements(found) = {}
    BY <1>3 DEF Elements
  <2> QED BY <1>1, <1>2, <1>3, <2>1
<1>4. CASE found # <<>>
  <2>1. Len(found) \in 1..Len(found)
    BY <1>1, <1>4
  <2>2. found[Len(found)] \in Elements(found)
    BY <2>1 DEF Elements
  <2> QED BY <1>1, <1>2, <1>4, <2>2
<1> QED BY <1>3, <1>4

LEMMA LastMore ==
  ASSUME NEW ts \in Seq(Tags), NEW t \in Tags, NEW name
  PROVE  LastOf(Append(ts, t), name) = IF Counts(t, name) THEN t.value ELSE LastOf(ts, name)
<1>1. CASE Counts(t, name)
  <2>1. Named(Append(ts, t), name) = Append(Named(ts, name), t)
    BY <1>1, NamedMore
  <2>2. Named(ts, name) \in Seq(Tags)
    BY NamedIs
  <2>3. \A s \in Seq(Tags) : Append(s, t) # <<>> /\ Append(s, t)[Len(Append(s, t))] = t
    OBVIOUS
  <2> QED BY <1>1, <2>1, <2>2, <2>3 DEF LastOf
<1>2. CASE ~Counts(t, name)
  <2>1. Named(Append(ts, t), name) = Named(ts, name)
    BY <1>2, NamedMore
  <2> QED BY <1>2, <2>1 DEF LastOf
<1> QED BY <1>1, <1>2

\* The reason given is that of the first check that fails.
LEMMA FirstIs ==
  ASSUME NEW checks, NEW n \in Nat, DOMAIN checks = 1..n,
         NEW i \in 1..n, checks[i][1], \A j \in 1..n : j < i => ~checks[j][1]
  PROVE  FirstFailure(checks) = checks[i][2]
<1> DEFINE failed == {m \in DOMAIN checks : checks[m][1]}
           first  == CHOOSE k \in failed : \A m \in failed : k <= m
<1>1. i \in failed /\ \A m \in failed : i <= m
  OBVIOUS
<1>2. first = i
  <2>1. first \in failed /\ \A m \in failed : first <= m
    <3> HIDE DEF failed
    <3> QED BY <1>1
  <2>2. failed \in SUBSET Nat
    OBVIOUS
  <2> HIDE DEF first, failed
  <2>3. first <= i /\ i <= first /\ first \in Nat /\ i \in Nat
    BY <1>1, <2>1, <2>2
  <2> QED BY <2>3
<1>3. FirstFailure(checks) = checks[first][2]
  BY <1>1 DEF FirstFailure
<1> HIDE DEF first
<1> QED BY <1>2, <1>3

\* The checks of validate, in their order.
Ladder(stale, denied, closed, large, larger, often, unknown) ==
  IF stale THEN "stale_rules"
  ELSE IF denied THEN "author_denied"
  ELSE IF closed THEN "kind_not_allowed"
  ELSE IF large THEN "kind_size_exceeded"
  ELSE IF larger THEN "max_size_exceeded"
  ELSE IF often THEN "quota_exceeded"
  ELSE IF unknown THEN "wot_gate_failed"
  ELSE Absent

LEMMA LadderIs ==
  ASSUME NEW checks, DOMAIN checks = 1..7,
         checks[1][2] = "stale_rules", checks[2][2] = "author_denied",
         checks[3][2] = "kind_not_allowed", checks[4][2] = "kind_size_exceeded",
         checks[5][2] = "max_size_exceeded", checks[6][2] = "quota_exceeded",
         checks[7][2] = "wot_gate_failed"
  PROVE  FirstFailure(checks) = Ladder(checks[1][1], checks[2][1], checks[3][1], checks[4][1],
                                       checks[5][1], checks[6][1], checks[7][1])
<1> DEFINE fails(m) == checks[m][1]
<1>1. PICK n \in Nat : n = 7
  OBVIOUS
<1>2. ASSUME NEW i \in 1..7, checks[i][1], \A j \in 1..7 : j < i => ~checks[j][1]
      PROVE  FirstFailure(checks) = checks[i][2]
  BY <1>1, <1>2, FirstIs
<1>3. \A j \in 1..7 : j = 1 \/ j = 2 \/ j = 3 \/ j = 4 \/ j = 5 \/ j = 6 \/ j = 7
  OBVIOUS
<1>4. CASE fails(1)
  <2>1. 1 \in 1..7 /\ checks[1][1] /\ \A j \in 1..7 : ~(j < 1)
    BY <1>4
  <2> QED BY <1>2, <1>4, <2>1 DEF Ladder
<1>5. CASE ~fails(1) /\ fails(2)
  <2>1. 2 \in 1..7 /\ checks[2][1] /\ \A j \in 1..7 : j < 2 => j = 1
    BY <1>5
  <2>2. FirstFailure(checks) = checks[2][2]
    BY <1>2, <1>5, <2>1
  <2> QED BY <1>5, <2>2 DEF Ladder
<1>6. CASE ~fails(1) /\ ~fails(2) /\ fails(3)
  <2>1. 3 \in 1..7 /\ checks[3][1] /\ \A j \in 1..7 : j < 3 => j = 1 \/ j = 2
    BY <1>6
  <2>2. FirstFailure(checks) = checks[3][2]
    BY <1>2, <1>6, <2>1
  <2> QED BY <1>6, <2>2 DEF Ladder
<1>7. CASE ~fails(1) /\ ~fails(2) /\ ~fails(3) /\ fails(4)
  <2>1. 4 \in 1..7 /\ checks[4][1] /\ \A j \in 1..7 : j < 4 => j = 1 \/ j = 2 \/ j = 3
    BY <1>7
  <2>2. FirstFailure(checks) = checks[4][2]
    BY <1>2, <1>7, <2>1
  <2> QED BY <1>7, <2>2 DEF Ladder
<1>8. CASE ~fails(1) /\ ~fails(2) /\ ~fails(3) /\ ~fails(4) /\ fails(5)
  <2>1. 5 \in 1..7 /\ checks[5][1] /\ \A j \in 1..7 : j < 5 => j = 1 \/ j = 2 \/ j = 3 \/ j = 4
    BY <1>8
  <2>2. FirstFailure(checks) = checks[5][2]
    BY <1>2, <1>8, <2>1
  <2> QED BY <1>8, <2>2 DEF Ladder
<1>9. CASE ~fails(1) /\ ~fails(2) /\ ~fails(3) /\ ~fails(4) /\ ~fails(5) /\ fails(6)
  <2>1. /\ 6 \in 1..7 /\ checks[6][1]
        /\ \A j \in 1..7 : j < 6 => j = 1 \/ j = 2 \/ j = 3 \/ j = 4 \/ j = 5
    BY <1>9
  <2>2. FirstFailure(checks) = checks[6][2]
    BY <1>2, <1>9, <2>1
  <2> QED BY <1>9, <2>2 DEF Ladder
<1>10. CASE ~fails(1) /\ ~fails(2) /\ ~fails(3) /\ ~fails(4) /\ ~fails(5) /\ ~fails(6) /\ fails(7)
  <2>1. /\ 7 \in 1..7 /\ checks[7][1]
        /\ \A j \in 1..7 : j < 7 => j = 1 \/ j = 2 \/ j = 3 \/ j = 4 \/ j = 5 \/ j = 6
    BY <1>10
  <2>2. FirstFailure(checks) = checks[7][2]
    BY <1>2, <1>10, <2>1
  <2> QED BY <1>10, <2>2 DEF Ladder
<1>11. CASE ~fails(1) /\ ~fails(2) /\ ~fails(3) /\ ~fails(4) /\ ~fails(5) /\ ~fails(6) /\ ~fails(7)
  <2>1. \A j \in 1..7 : ~checks[j][1]
    BY <1>3, <1>11
  <2>2. {j \in DOMAIN checks : checks[j][1]} = {}
    BY <2>1
  <2>3. FirstFailure(checks) = Absent
    BY <2>2 DEF FirstFailure
  <2> QED BY <1>11, <2>3 DEF Ladder
<1> QED BY <1>4, <1>5, <1>6, <1>7, <1>8, <1>9, <1>10, <1>11

(***************************************************************************)
(* What a document says about the event ctx, check by check.               *)
(***************************************************************************)
Ours(t)    == Counts(t, "p") /\ t.pubkey = ctx.author
Denied(ts) == \E t \in Elements(ts) : Ours(t) /\ t.policy = "deny"
Passed(ts) == \E t \in Elements(ts) : Ours(t)
RuleOf(ts) == RuleForKind([kindRules |-> Named(ts, "k")], ctx.kind)

Large(rule)  == rule # Absent /\ Exceeds(ctx.sizeBytes, rule.maxBytes)
Larger(ts)   == Exceeds(ctx.sizeBytes, LastOf(ts, "max_event_size"))
Often(rule)  == /\ rule # Absent /\ rule.maxPerDay # Absent
                /\ ctx.postsToday # Absent /\ ctx.postsToday >= rule.maxPerDay
Unknown(ts)  == /\ \E t \in Elements(ts) : Counts(t, "wot")
                /\ ctx.trusted # Absent
                /\ \A t \in Elements(ts) : Counts(t, "wot") => t \notin ctx.trusted
Outdated(ts) == At < RatchetOf(ts)

\* deny, if the author has a tag that denies, else allow, if he has any.
LEMMA PolicyIs ==
  ASSUME NEW ts \in Seq(Tags), NEW rules, rules.pubkeyRules = Named(ts, "p")
  PROVE  PolicyFor(rules, ctx.author) = IF Denied(ts) THEN "deny"
                                        ELSE IF Passed(ts) THEN "allow" ELSE Absent
<1> DEFINE s   == rules.pubkeyRules
           own == {s[n].policy : n \in {m \in DOMAIN s : s[m].pubkey = ctx.author}}
<1>1. s \in Seq(Tags) /\ Elements(s) = {t \in Elements(ts) : Counts(t, "p")}
  BY NamedIs
<1>2. own = {t.policy : t \in {u \in Elements(ts) : Ours(u)}}
  <2>1. DOMAIN s = 1..Len(s)
    BY <1>1
  <2>2. own = {t.policy : t \in {u \in Elements(s) : u.pubkey = ctx.author}}
    BY <2>1 DEF Elements
  <2>3. {u \in Elements(s) : u.pubkey = ctx.author} = {u \in Elements(ts) : Ours(u)}
    BY <1>1 DEF Ours
  <2> QED BY <2>2, <2>3
<1>3. \A t \in Elements(ts) : Ours(t) => t.policy \in {"allow", "deny"}
  BY DEF Ours, Counts, Valid
<1>4. PolicyFor(rules, ctx.author) = CASE "deny" \in own -> "deny"
                                       [] own = {"allow"} -> "allow"
                                       [] own = {} -> Absent
  BY DEF PolicyFor
<1> HIDE DEF own
<1>5. CASE Denied(ts)
  <2>1. "deny" \in own
    BY <1>2, <1>5 DEF Denied
  <2>2. own # {} /\ own # {"allow"}
    BY <2>1
  <2> QED BY <1>4, <1>5, <2>1, <2>2
<1>6. CASE ~Denied(ts) /\ Passed(ts)
  <2>1. "deny" \notin own /\ own = {"allow"}
    BY <1>2, <1>3, <1>6 DEF Denied, Passed
  <2>2. own # {}
    BY <2>1
  <2> QED BY <1>4, <1>6, <2>1, <2>2
<1>7. CASE ~Denied(ts) /\ ~Passed(ts)
  <2>1. own = {}
    BY <1>2, <1>7 DEF Passed
  <2>2. "deny" \notin own /\ own # {"allow"}
    BY <2>1
  <2> QED BY <1>4, <1>7, <2>1, <2>2
<1> QED BY <1>5, <1>6, <1>7

\* A verdict is that of the ladder, unless the document is malformed.
LEMMA JudgedIs ==
  ASSUME NEW ts \in Seq(Tags)
  PROVE  Judged(ts) = IF LastOf(ts, "d") = Absent THEN "malformed"
                      ELSE Ladder(Outdated(ts), Denied(ts), RuleOf(ts) = Absent,
                                  Large(RuleOf(ts)), Larger(ts), Often(RuleOf(ts)),
                                  ~Passed(ts) /\ Unknown(ts))
<1> SUFFICES ASSUME LastOf(ts, "d") # Absent
             PROVE  Violation(Parsed(ts), ctx) =
                      Ladder(Outdated(ts), Denied(ts), RuleOf(ts) = Absent,
                             Large(RuleOf(ts)), Larger(ts), Often(RuleOf(ts)),
                             ~Passed(ts) /\ Unknown(ts))
  BY DEF Judged
<1> DEFINE rules  == Parsed(ts)
           policy == PolicyFor(rules, ctx.author)
           rule   == RuleForKind(rules, ctx.kind)
<1>1. /\ rules.createdAt = At
      /\ rules.minRulesCreatedAt = RatchetOf(ts)
      /\ rules.maxEventSize = LastOf(ts, "max_event_size")
      /\ rules.kindRules = Named(ts, "k")
      /\ rules.pubkeyRules = Named(ts, "p")
      /\ rules.wotGates = Named(ts, "wot")
  BY DEF Parsed, ParseRulesEvent
<1> HIDE DEF rules
<1>2. policy = IF Denied(ts) THEN "deny" ELSE IF Passed(ts) THEN "allow" ELSE Absent
  BY <1>1, PolicyIs
<1>3. rule = RuleOf(ts)
  BY <1>1 DEF RuleForKind, RuleOf
<1>4. policy = "deny" <=> Denied(ts)
  BY <1>2, TagsAssumption DEF TagsAssumption
<1>5. PICK u \in BOOLEAN :
        u <=> /\ policy # "allow" /\ rules.wotGates # <<>> /\ ctx.trusted # Absent
              /\ \A n \in DOMAIN rules.wotGates : rules.wotGates[n] \notin ctx.trusted
  OBVIOUS
<1>6. u <=> policy # "allow" /\ Unknown(ts)
  <2> DEFINE s == rules.wotGates
  <2>1. s \in Seq(Tags) /\ Elements(s) = {t \in Elements(ts) : Counts(t, "wot")}
    BY <1>1, NamedIs
  <2> HIDE DEF s
  <2>2. DOMAIN s = 1..Len(s)
    BY <2>1
  <2>3. s # <<>> <=> \E t \in Elements(ts) : Counts(t, "wot")
    <3>1. s # <<>> <=> Elements(s) # {}
      <4>1. s # <<>> => 1 \in 1..Len(s)
        BY <2>1
      <4>2. s = <<>> => 1..Len(s) = {}
        OBVIOUS
      <4> QED BY <4>1, <4>2 DEF Elements
    <3> QED BY <2>1, <3>1
  <2>4. (\A n \in DOMAIN s : s[n] \notin ctx.trusted)
          <=> \A t \in Elements(s) : t \notin ctx.trusted
    BY <2>2 DEF Elements
  <2> QED BY <1>5, <2>1, <2>3, <2>4 DEF Unknown, s
<1>7. PICK a \in BOOLEAN : a <=> Outdated(ts)
  OBVIOUS
<1>8. PICK c \in BOOLEAN : c <=> RuleOf(ts) = Absent
  OBVIOUS
<1>9. PICK d \in BOOLEAN : d <=> Large(RuleOf(ts))
  OBVIOUS
<1>10. PICK e \in BOOLEAN : e <=> Larger(ts)
  OBVIOUS
<1>11. PICK f \in BOOLEAN : f <=> Often(RuleOf(ts))
  OBVIOUS
<1>12. PICK b \in BOOLEAN : b <=> Denied(ts)
  OBVIOUS
<1>13. Violation(rules, ctx) =
         FirstFailure(<< <<a, "stale_rules">>, <<b, "author_denied">>,
                         <<c, "kind_not_allowed">>, <<d, "kind_size_exceeded">>,
                         <<e, "max_size_exceeded">>, <<f, "quota_exceeded">>,
                         <<u, "wot_gate_failed">> >>)
  <2> DEFINE large  == rule # Absent /\ Exceeds(ctx.sizeBytes, rule.maxBytes)
             larger == Exceeds(ctx.sizeBytes, rules.maxEventSize)
             dated  == rules.createdAt < rules.minRulesCreatedAt
             filled == /\ rule # Absent /\ rule.maxPerDay # Absent
                       /\ ctx.postsToday # Absent /\ ctx.postsToday >= rule.maxPerDay
             checks == <<
          <<dated, "stale_rules">>,
          <<policy = "deny", "author_denied">>,
          <<rule = Absent, "kind_not_allowed">>,
          <<large, "kind_size_exceeded">>,
          <<larger, "max_size_exceeded">>,
          <<filled, "quota_exceeded">>,
          <</\ policy # "allow" /\ rules.wotGates # <<>> /\ ctx.trusted # Absent
            /\ \A n \in DOMAIN rules.wotGates : rules.wotGates[n] \notin ctx.trusted,
            "wot_gate_failed">> >>
  <2>1. Violation(rules, ctx) = FirstFailure(checks)
    BY DEF Violation
  <2>2. a <=> dated
    BY <1>1, <1>7 DEF Outdated
  <2>3. b <=> policy = "deny"
    BY <1>4, <1>12
  <2>4. c <=> rule = Absent
    BY <1>3, <1>8
  <2>5. d <=> large
    BY <1>3, <1>9 DEF Large
  <2>6. e <=> larger
    BY <1>1, <1>10 DEF Larger
  <2>7. f <=> filled
    BY <1>3, <1>11 DEF Often
  <2> HIDE DEF rule, policy, dated, filled, large, larger
  <2>8. checks = << <<a, "stale_rules">>, <<b, "author_denied">>,
                    <<c, "kind_not_allowed">>, <<d, "kind_size_exceeded">>,
                    <<e, "max_size_exceeded">>, <<f, "quota_exceeded">>,
                    <<u, "wot_gate_failed">> >>
    <3>1. <<dated, "stale_rules">> = <<a, "stale_rules">>
      BY <2>2, Zenon
    <3>2. <<policy = "deny", "author_denied">> = <<b, "author_denied">>
      BY <2>3, Zenon
    <3>3. <<rule = Absent, "kind_not_allowed">> = <<c, "kind_not_allowed">>
      BY <2>4, Zenon
    <3>4. <<large, "kind_size_exceeded">> = <<d, "kind_size_exceeded">>
      BY <2>5, Zenon
    <3>5. <<larger, "max_size_exceeded">> = <<e, "max_size_exceeded">>
      BY <2>6, Zenon
    <3>6. <<filled, "quota_exceeded">> = <<f, "quota_exceeded">>
      BY <2>7, Zenon
    <3>7. <</\ policy # "allow" /\ rules.wotGates # <<>> /\ ctx.trusted # Absent
            /\ \A n \in DOMAIN rules.wotGates : rules.wotGates[n] \notin ctx.trusted,
            "wot_gate_failed">> = <<u, "wot_gate_failed">>
      BY <1>5, Zenon
    <3> QED BY <3>1, <3>2, <3>3, <3>4, <3>5, <3>6, <3>7, Zenon
  <2> HIDE DEF checks
  <2> QED BY <2>1, <2>8
<1>14. Violation(rules, ctx) = Ladder(a, b, c, d, e, f, u)
  <2> DEFINE checks == << <<a, "stale_rules">>, <<b, "author_denied">>,
                         <<c, "kind_not_allowed">>, <<d, "kind_size_exceeded">>,
                         <<e, "max_size_exceeded">>, <<f, "quota_exceeded">>,
                         <<u, "wot_gate_failed">> >>
  <2>1. /\ DOMAIN checks = 1..7
        /\ checks[1] = <<a, "stale_rules">> /\ checks[2] = <<b, "author_denied">>
        /\ checks[3] = <<c, "kind_not_allowed">> /\ checks[4] = <<d, "kind_size_exceeded">>
        /\ checks[5] = <<e, "max_size_exceeded">> /\ checks[6] = <<f, "quota_exceeded">>
        /\ checks[7] = <<u, "wot_gate_failed">>
    OBVIOUS
  <2>2. Violation(rules, ctx) = FirstFailure(checks)
    BY <1>13
  <2> HIDE DEF checks, rules
  <2>3. /\ checks[1][1] = a /\ checks[2][1] = b /\ checks[3][1] = c /\ checks[4][1] = d
        /\ checks[5][1] = e /\ checks[6][1] = f /\ checks[7][1] = u
        /\ checks[1][2] = "stale_rules" /\ checks[2][2] = "author_denied"
        /\ checks[3][2] = "kind_not_allowed" /\ checks[4][2] = "kind_size_exceeded"
        /\ checks[5][2] = "max_size_exceeded" /\ checks[6][2] = "quota_exceeded"
        /\ checks[7][2] = "wot_gate_failed"
    BY <2>1
  <2>4. FirstFailure(checks) = Ladder(checks[1][1], checks[2][1], checks[3][1], checks[4][1],
                                      checks[5][1], checks[6][1], checks[7][1])
    BY <2>1, <2>3, LadderIs
  <2> QED BY <2>2, <2>3, <2>4
<1>15. ~Denied(ts) => (u <=> ~Passed(ts) /\ Unknown(ts))
  BY <1>2, <1>6, TagsAssumption DEF TagsAssumption
<1> HIDE DEF rule, policy
<1> QED BY <1>7, <1>8, <1>9, <1>10, <1>11, <1>12, <1>14, <1>15 DEF Ladder, rules

LEMMA TagsAreTags == TagsSpec => [](tags \in Seq(Tags))
<1>1. TagsInit => tags \in Seq(Tags)
  BY DEF TagsInit
<1>2. tags \in Seq(Tags) /\ [TagsNext]_tagsVars => (tags \in Seq(Tags))'
  <2> SUFFICES ASSUME tags \in Seq(Tags), [TagsNext]_tagsVars
               PROVE  tags' \in Seq(Tags)
    OBVIOUS
  <2>1. ASSUME NEW t \in Tags, Write(t) PROVE tags' \in Seq(Tags)
    BY <2>1 DEF Write
  <2> QED BY <2>1 DEF TagsNext, tagsVars
<1> QED BY <1>1, <1>2, PTL DEF TagsSpec

\* Nothing added takes the value from a tag that has one.
LEMMA ValueStays ==
  ASSUME NEW ts \in Seq(Tags), NEW t \in Tags, LastOf(ts, "d") # Absent
  PROVE  LastOf(Append(ts, t), "d") # Absent
<1>1. Counts(t, "d") => t.value # Absent
  BY DEF Counts, Valid
<1>2. LastOf(Append(ts, t), "d") = IF Counts(t, "d") THEN t.value ELSE LastOf(ts, "d")
  BY LastMore
<1> QED BY <1>1, <1>2

LEMMA DenialStays ==
  ASSUME NEW ts \in Seq(Tags), NEW t \in Tags, Judged(ts) = "author_denied"
  PROVE  Judged(Append(ts, t)) \in {"author_denied", "stale_rules"}
<1> DEFINE more == Append(ts, t)
<1>1. LastOf(ts, "d") # Absent /\ Denied(ts)
  <2>1. LastOf(ts, "d") # Absent
    BY DEF Judged
  <2>2. Ladder(Outdated(ts), Denied(ts), RuleOf(ts) = Absent, Large(RuleOf(ts)), Larger(ts),
               Often(RuleOf(ts)), ~Passed(ts) /\ Unknown(ts)) = "author_denied"
    BY <2>1, JudgedIs
  <2> QED BY <2>1, <2>2, TagsAssumption DEF Ladder, TagsAssumption
<1>2. more \in Seq(Tags) /\ Elements(more) = Elements(ts) \cup {t}
  BY ElementsMore
<1>3. LastOf(more, "d") # Absent
  BY <1>1, ValueStays
<1> HIDE DEF more
<1>4. Denied(more)
  BY <1>1, <1>2 DEF Denied
<1>5. Judged(more) = Ladder(Outdated(more), Denied(more), RuleOf(more) = Absent,
                            Large(RuleOf(more)), Larger(more), Often(RuleOf(more)),
                            ~Passed(more) /\ Unknown(more))
  BY <1>2, <1>3, JudgedIs
<1>6. Judged(more) \in {"author_denied", "stale_rules"}
  BY <1>4, <1>5 DEF Ladder
<1> QED BY <1>6 DEF more

\* Whoever is denied by a document stays denied, whatever tags its owner adds
\* to it (policyFor, validate of nip9a-validator.js).
THEOREM DenialIsFinal == TagsSpec => DenyIsFinal
<1>1. tags \in Seq(Tags) /\ [TagsNext]_tagsVars
        => [Judged(tags) = "author_denied"
              => Judged(tags') \in {"author_denied", "stale_rules"}]_tagsVars
  <2> SUFFICES ASSUME tags \in Seq(Tags), TagsNext, Judged(tags) = "author_denied"
               PROVE  Judged(tags') \in {"author_denied", "stale_rules"}
    OBVIOUS
  <2>1. PICK t \in Tags : tags' = Append(tags, t)
    BY DEF TagsNext, Write
  <2>2. Judged(Append(tags, t)) \in {"author_denied", "stale_rules"}
    BY DenialStays
  <2> QED BY <2>1, <2>2
<1> QED BY <1>1, TagsAreTags, PTL DEF TagsSpec, DenyIsFinal

LEMMA AllowPasses ==
  ASSUME NEW ts \in Seq(Tags), NEW t \in Tags, t.tag = "p", t.policy = "allow"
  PROVE  \/ Judged(Append(ts, t)) = Judged(ts)
         \/ Judged(ts) = "wot_gate_failed" /\ Judged(Append(ts, t)) = Absent
<1> DEFINE more == Append(ts, t)
<1>1. more \in Seq(Tags) /\ Elements(more) = Elements(ts) \cup {t}
  BY ElementsMore
<1>2. /\ LastOf(more, "d") = LastOf(ts, "d")
      /\ LastOf(more, "max_event_size") = LastOf(ts, "max_event_size")
      /\ LastOf(more, "min_rules_created_at") = LastOf(ts, "min_rules_created_at")
      /\ Named(more, "k") = Named(ts, "k")
  <2>1. ASSUME NEW name, name # "p" PROVE ~Counts(t, name)
    BY <2>1 DEF Counts
  <2>2. ASSUME NEW name, name # "p" PROVE LastOf(more, name) = LastOf(ts, name)
    BY <2>1, <2>2, LastMore
  <2>3. Named(more, "k") = Named(ts, "k")
    BY <2>1, NamedMore
  <2> HIDE DEF more
  <2> QED BY <2>2, <2>3
<1> HIDE DEF more
<1>3. RuleOf(more) = RuleOf(ts) /\ Larger(more) = Larger(ts) /\ Outdated(more) = Outdated(ts)
  BY <1>2 DEF RuleOf, Larger, Outdated, RatchetOf
<1>4. Denied(more) <=> Denied(ts)
  BY <1>1 DEF Denied
<1>5. Passed(ts) => Passed(more)
  BY <1>1 DEF Passed
<1>6. Unknown(more) <=> Unknown(ts)
  <2>1. ~Counts(t, "wot")
    BY DEF Counts
  <2> QED BY <1>1, <2>1 DEF Unknown
<1>7. CASE LastOf(ts, "d") = Absent
  <2>1. Judged(more) = Judged(ts)
    BY <1>2, <1>7 DEF Judged
  <2> QED BY <2>1 DEF more
<1>8. CASE LastOf(ts, "d") # Absent
  <2>1. Judged(ts) = Ladder(Outdated(ts), Denied(ts), RuleOf(ts) = Absent, Large(RuleOf(ts)),
                            Larger(ts), Often(RuleOf(ts)), ~Passed(ts) /\ Unknown(ts))
    BY <1>8, JudgedIs
  <2>2. Judged(more) = Ladder(Outdated(more), Denied(more), RuleOf(more) = Absent,
                              Large(RuleOf(more)), Larger(more), Often(RuleOf(more)),
                              ~Passed(more) /\ Unknown(more))
    BY <1>1, <1>2, <1>8, JudgedIs
  <2>3. \/ Judged(more) = Judged(ts)
        \/ Judged(ts) = "wot_gate_failed" /\ Judged(more) = Absent
    BY <1>3, <1>4, <1>5, <1>6, <2>1, <2>2 DEF Ladder
  <2> QED BY <2>3 DEF more
<1> QED BY <1>7, <1>8

\* An allow tag opens the web-of-trust gates to its author, and nothing else.
THEOREM AllowPassesGatesOnly == TagsSpec => AllowOnlyPassesGates
<1>1. tags \in Seq(Tags) /\ [TagsNext]_tagsVars
        => [(\E t \in Tags : t.tag = "p" /\ t.policy = "allow" /\ tags' = Append(tags, t))
              => \/ Judged(tags') = Judged(tags)
                 \/ Judged(tags) = "wot_gate_failed" /\ Judged(tags') = Absent]_tagsVars
  <2> SUFFICES ASSUME tags \in Seq(Tags),
                      NEW t \in Tags, t.tag = "p", t.policy = "allow", tags' = Append(tags, t)
               PROVE  \/ Judged(tags') = Judged(tags)
                      \/ Judged(tags) = "wot_gate_failed" /\ Judged(tags') = Absent
    OBVIOUS
  <2>1. \/ Judged(Append(tags, t)) = Judged(tags)
        \/ Judged(tags) = "wot_gate_failed" /\ Judged(Append(tags, t)) = Absent
    BY AllowPasses
  <2> QED BY <2>1
<1> QED BY <1>1, TagsAreTags, PTL DEF TagsSpec, AllowOnlyPassesGates

\* A tag that may be given once has the value of the only one there is.
LEMMA OnlyValue ==
  ASSUME NEW ts \in Seq(Tags), NEW us \in Seq(Tags), NEW name,
         Elements(us) = Elements(ts),
         \A t, u \in Elements(ts) : Counts(t, name) /\ Counts(u, name) => t = u
  PROVE  LastOf(us, name) = LastOf(ts, name)
<1>1. \/ LastOf(ts, name) = Absent /\ \A t \in Elements(ts) : ~Counts(t, name)
      \/ \E t \in Elements(ts) : Counts(t, name) /\ LastOf(ts, name) = t.value
  BY LastIs
<1>2. \/ LastOf(us, name) = Absent /\ \A t \in Elements(us) : ~Counts(t, name)
      \/ \E t \in Elements(us) : Counts(t, name) /\ LastOf(us, name) = t.value
  BY LastIs
<1> QED BY <1>1, <1>2

\* The rule for the kind is one of those the document has for it, if any.
LEMMA RuleIs ==
  ASSUME NEW ts \in Seq(Tags)
  PROVE  \/ /\ RuleOf(ts) = Absent
            /\ \A t \in Elements(ts) : ~(Counts(t, "k") /\ t.kind = ctx.kind)
         \/ \E t \in Elements(ts) : Counts(t, "k") /\ t.kind = ctx.kind /\ RuleOf(ts) = t
<1> DEFINE s     == Named(ts, "k")
           own   == {n \in DOMAIN s : s[n].kind = ctx.kind}
           first == CHOOSE n \in own : \A m \in own : n <= m
<1>1. s \in Seq(Tags) /\ Elements(s) = {t \in Elements(ts) : Counts(t, "k")}
  BY NamedIs
<1>2. RuleOf(ts) = IF own = {} THEN Absent ELSE s[first]
  BY DEF RuleOf, RuleForKind
<1> HIDE DEF s
<1>3. DOMAIN s = 1..Len(s) /\ own \in SUBSET Nat
  BY <1>1
<1>4. CASE own = {}
  <2>1. \A t \in Elements(s) : t.kind # ctx.kind
    BY <1>3, <1>4 DEF Elements
  <2> QED BY <1>1, <1>2, <1>4, <2>1
<1>5. CASE own # {}
  <2>1. first \in own
    <3>1. \E n \in own : \A m \in own : n <= m
      <4> HIDE DEF own
      <4> QED BY <1>3, <1>5, Smallest
    <3> HIDE DEF own
    <3> QED BY <3>1
  <2> HIDE DEF first
  <2>2. s[first] \in Elements(s) /\ s[first].kind = ctx.kind
    BY <1>3, <2>1 DEF Elements
  <2> HIDE DEF own
  <2> QED BY <1>1, <1>2, <1>5, <2>2
<1> QED BY <1>4, <1>5

\* A plain document is judged by which tags it has.
LEMMA PlainIs ==
  ASSUME NEW ts \in Seq(Tags), NEW us \in Seq(Tags), Plain(ts), Elements(us) = Elements(ts)
  PROVE  Judged(us) = Judged(ts)
<1>1. ASSUME NEW t \in Elements(ts), NEW u \in Elements(ts), t # u, t.tag = u.tag
      PROVE  \/ t.tag \in {"p", "wot"}
             \/ t.tag = "k" /\ t.kind # u.kind
  <2>1. PICK m \in 1..Len(ts), n \in 1..Len(ts) : t = ts[m] /\ u = ts[n]
    BY DEF Elements
  <2>2. m \in DOMAIN ts /\ n \in DOMAIN ts /\ m # n
    BY <1>1, <2>1
  <2>3. \/ ts[m].tag # ts[n].tag
        \/ ts[m].tag \in {"p", "wot"}
        \/ ts[m].tag = "k" /\ ts[m].kind # ts[n].kind
    BY <2>2 DEF Plain
  <2> QED BY <1>1, <2>1, <2>3
<1>2. ASSUME NEW name, name \notin {"p", "wot", "k"}
      PROVE  LastOf(us, name) = LastOf(ts, name)
  <2>1. ASSUME NEW t \in Elements(ts), NEW u \in Elements(ts), Counts(t, name), Counts(u, name)
        PROVE  t = u
    BY <1>1, <1>2, <2>1 DEF Counts
  <2> QED BY <2>1, OnlyValue
<1>3. RuleOf(us) = RuleOf(ts)
  <2>1. \/ /\ RuleOf(ts) = Absent
           /\ \A t \in Elements(ts) : ~(Counts(t, "k") /\ t.kind = ctx.kind)
        \/ \E t \in Elements(ts) : Counts(t, "k") /\ t.kind = ctx.kind /\ RuleOf(ts) = t
    BY RuleIs
  <2>2. \/ /\ RuleOf(us) = Absent
           /\ \A t \in Elements(us) : ~(Counts(t, "k") /\ t.kind = ctx.kind)
        \/ \E t \in Elements(us) : Counts(t, "k") /\ t.kind = ctx.kind /\ RuleOf(us) = t
    BY RuleIs
  <2>3. ASSUME NEW t \in Elements(ts), NEW u \in Elements(ts),
               Counts(t, "k"), Counts(u, "k"), t.kind = u.kind
        PROVE  t = u
    BY <1>1, <2>3 DEF Counts
  <2> QED BY <2>1, <2>2, <2>3
<1>4. /\ LastOf(us, "d") = LastOf(ts, "d")
      /\ LastOf(us, "max_event_size") = LastOf(ts, "max_event_size")
      /\ LastOf(us, "min_rules_created_at") = LastOf(ts, "min_rules_created_at")
  BY <1>2
<1>5. Larger(us) = Larger(ts) /\ Outdated(us) = Outdated(ts)
  BY <1>4 DEF Larger, Outdated, RatchetOf
<1>6. (Denied(us) <=> Denied(ts)) /\ (Passed(us) <=> Passed(ts)) /\ (Unknown(us) <=> Unknown(ts))
  BY DEF Denied, Passed, Unknown
<1>7. CASE LastOf(ts, "d") = Absent
  BY <1>4, <1>7 DEF Judged
<1>8. CASE LastOf(ts, "d") # Absent
  <2>1. Judged(ts) = Ladder(Outdated(ts), Denied(ts), RuleOf(ts) = Absent, Large(RuleOf(ts)),
                            Larger(ts), Often(RuleOf(ts)), ~Passed(ts) /\ Unknown(ts))
    BY <1>8, JudgedIs
  <2>2. Judged(us) = Ladder(Outdated(us), Denied(us), RuleOf(us) = Absent, Large(RuleOf(us)),
                            Larger(us), Often(RuleOf(us)), ~Passed(us) /\ Unknown(us))
    BY <1>4, <1>8, JudgedIs
  <2> QED BY <1>3, <1>5, <1>6, <2>1, <2>2 DEF Ladder
<1> QED BY <1>7, <1>8

\* A reordered document has the same tags.
LEMMA ReorderedIs ==
  ASSUME NEW ts \in Seq(Tags), NEW f \in Orders(Len(ts))
  PROVE  /\ [i \in DOMAIN ts |-> ts[f[i]]] \in Seq(Tags)
         /\ Elements([i \in DOMAIN ts |-> ts[f[i]]]) = Elements(ts)
<1> DEFINE N  == Len(ts)
           us == [i \in DOMAIN ts |-> ts[f[i]]]
           image == {f[i] : i \in 1..N}
<1>1. N \in Nat /\ DOMAIN ts = 1..N /\ \A n \in 1..N : ts[n] \in Tags
  OBVIOUS
<1>2. f \in [1..N -> 1..N] /\ Cardinality(image) = N
  BY DEF Orders
<1>3. image = 1..N
  <2>1. IsFiniteSet(1..N) /\ Cardinality(1..N) = N
    <3>1. 1 \in Int /\ N \in Int /\ (IF 1 > N THEN 0 ELSE N - 1 + 1) = N
      BY <1>1
    <3> HIDE DEF N
    <3> QED BY <3>1, FS_Interval
  <2>2. image \in SUBSET (1..N)
    BY <1>2
  <2> HIDE DEF image, N
  <2> QED BY <1>2, <2>1, <2>2, FS_Subset
<1>4. DOMAIN us = 1..N /\ \A i \in 1..N : us[i] = ts[f[i]] /\ us[i] \in Tags
  BY <1>1, <1>2
<1>5. us \in Seq(Tags) /\ Len(us) = N
  <2>1. us = [i \in 1..N |-> us[i]]
    BY <1>1
  <2>2. us \in [1..N -> Tags]
    BY <1>1, <1>4
  <2> HIDE DEF us, N
  <2> QED BY <1>1, <2>2
<1>6. Elements(us) = {ts[m] : m \in image}
  <2> HIDE DEF us
  <2>1. Elements(us) = {us[i] : i \in 1..N}
    BY <1>5 DEF Elements
  <2> QED BY <1>4, <2>1
<1>7. Elements(us) = Elements(ts)
  <2> HIDE DEF us, image
  <2> QED BY <1>3, <1>6 DEF Elements
<1> QED BY <1>5, <1>7

\* Where no tag is meant to override another their order does not matter
\* (parseRulesEvent, ruleForKind, policyFor).
THEOREM OrderOfTagsDoesNotMatter == TagsSpec => []OrderOfTagsIsIrrelevant
<1>1. tags \in Seq(Tags) => OrderOfTagsIsIrrelevant
  <2> SUFFICES ASSUME tags \in Seq(Tags), Plain(tags), NEW f \in Orders(Len(tags))
               PROVE  Judged([i \in DOMAIN tags |-> tags[f[i]]]) = Judged(tags)
    BY DEF OrderOfTagsIsIrrelevant
  <2> DEFINE us == [i \in DOMAIN tags |-> tags[f[i]]]
  <2>1. us \in Seq(Tags) /\ Elements(us) = Elements(tags)
    BY ReorderedIs
  <2> HIDE DEF us
  <2>2. Judged(us) = Judged(tags)
    BY <2>1, PlainIs
  <2> QED BY <2>2 DEF us
<1> QED BY <1>1, TagsAreTags, PTL
=============================================================================
