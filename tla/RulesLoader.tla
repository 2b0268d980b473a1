---------------------------- MODULE RulesLoader ----------------------------
(***************************************************************************)
(* The loader of NIP-9B rules documents (src/src/nip9a-loader.js,          *)
(* pickActiveRules of src/src/nip9a-parser.js): which rules document is in *)
(* force, given the documents that arrive from the relay's event stream    *)
(* and from a file that is watched, reloaded on SIGHUP and replaced by     *)
(* atomic renames.  Nothing is persisted: a restart forgets the documents. *)
(*                                                                         *)
(* A document is a record of what the loader reads: its author, its d tag  *)
(* (NoTag when it has none, which makes it malformed), the community it is *)
(* bound to (NoCommunity when it is not bound), the time it was made and   *)
(* its ratchet minRulesCreatedAt (0 when it has none, see RulesDocument,   *)
(* which reads documents and has the rest of their fields).  The id of an  *)
(* event is a hash of its contents, so documents are equal exactly when    *)
(* their ids are.                                                          *)
(***************************************************************************)
EXTENDS Integers

CONSTANTS Docs,          \* the documents that may arrive
          NoDoc,         \* "no document"
          NoTag,
          Community,     \* the configured community, or NoCommunity
          NoCommunity

VARIABLES rulesByKey,    \* the candidates: per author and d tag
          active,        \* the document in force, or NoDoc
          file,          \* contents of the rules file: a document or NoDoc
          offered,       \* ghost: documents that passed the filters since the start
          newest         \* ghost: createdAt of the newest document in force since

loaderVars == <<rulesByKey, active, file, offered, newest>>

ASSUME RulesAssumption ==
  /\ \A d \in Docs : d.createdAt \in Nat /\ d.minRulesCreatedAt \in Nat
  /\ NoDoc \notin Docs

KeyOf(d) == <<d.pubkey, d.dTag>>
Keys     == {KeyOf(d) : d \in Docs}

LoaderTypeOK ==
  /\ rulesByKey \in [Keys -> Docs \cup {NoDoc}]
  /\ active \in Docs \cup {NoDoc}
  /\ file \in Docs \cup {NoDoc}
  /\ offered \subseteq Docs
  /\ newest \in Nat

LoaderInit ==
  /\ rulesByKey = [k \in Keys |-> NoDoc]
  /\ active = NoDoc
  /\ file = NoDoc
  /\ offered = {}
  /\ newest = 0

(***************************************************************************)
(* pickActiveRules                                                         *)
(***************************************************************************)
\* Mutant of Survivors: a document must be newer than the ratchets.
SurvivorsNewer(candidates) ==
  {d \in candidates : \A c \in candidates : d.createdAt > c.minRulesCreatedAt}

\* The candidates no ratchet of a candidate outlaws.
Survivors(candidates) ==
  {d \in candidates : \A c \in candidates : d.createdAt >= c.minRulesCreatedAt}

\* Mutant of Picked: the survivors are not sorted.
PickedAny(candidates, d) ==
  LET alive == Survivors(candidates)
  IN  IF alive = {} THEN d = NoDoc ELSE d \in alive

\* d is the choice among the candidates: the latest survivor.  Of several
\* made at the same time the code keeps the first it comes across; the order
\* of its Map is left open here.
Picked(candidates, d) ==
  LET alive == Survivors(candidates)
  IN  IF alive = {} THEN d = NoDoc
      ELSE d \in alive /\ \A e \in alive : e.createdAt <= d.createdAt

(***************************************************************************)
(* offer                                                                   *)
(***************************************************************************)
\* Well-formed and, when a community is configured, of its owner, with its d
\* tag, and bound to no other community.
Admissible(d) ==
  /\ d.dTag # NoTag
  /\ Community # NoCommunity =>
       /\ d.pubkey = Community.owner
       /\ d.dTag = Community.dTag
       /\ d.communityAddress \in {NoCommunity, Community}

\* Mutants of Superseded: older documents replace newer ones; a document is
\* compared with the one in force instead of the one of its key.
SupersededNever(d) == FALSE
SupersededByActive(d) == active # NoDoc /\ active # d /\ active.createdAt >= d.createdAt

\* Another document of the same key that is as new is already known.
Superseded(d) ==
  LET prior == rulesByKey[KeyOf(d)]
  IN  prior # NoDoc /\ prior # d /\ prior.createdAt >= d.createdAt

Accepted(d) == Admissible(d) /\ ~Superseded(d)

Candidates(byKey) == {byKey[k] : k \in Keys} \ {NoDoc}

Note(d) == offered' = offered \cup (IF Admissible(d) THEN {d} ELSE {})

Offer(d) ==
  /\ IF Accepted(d)
     THEN /\ rulesByKey' = [rulesByKey EXCEPT ![KeyOf(d)] = d]
          /\ active' \in {e \in Docs \cup {NoDoc} : Picked(Candidates(rulesByKey'), e)}
     ELSE UNCHANGED <<rulesByKey, active>>
  /\ Note(d)
  /\ newest' = IF active' # NoDoc /\ active'.createdAt > newest
               THEN active'.createdAt ELSE newest

(***************************************************************************)
(* The file, and the life of the process.                                  *)
(***************************************************************************)
\* start, the watcher and SIGHUP: the file is offered if it can be read.
LoadFile ==
  /\ IF file = NoDoc THEN UNCHANGED <<rulesByKey, active, offered, newest>>
     ELSE Offer(file)
  /\ UNCHANGED file

\* The operator replaces the file; it may be missing or unreadable for a while.
WriteFile == /\ file' \in Docs \cup {NoDoc}
             /\ UNCHANGED <<rulesByKey, active, offered, newest>>

\* The process dies and is started again: the documents are forgotten, then
\* the file is read.
Forgotten == [k \in Keys |-> NoDoc]

Restart ==
  /\ IF file # NoDoc /\ Admissible(file)
     THEN /\ rulesByKey' = [Forgotten EXCEPT ![KeyOf(file)] = file]
          /\ active' \in {e \in Docs \cup {NoDoc} : Picked({file}, e)}
          /\ offered' = {file}
     ELSE /\ rulesByKey' = Forgotten
          /\ active' = NoDoc
          /\ offered' = {}
  /\ newest' = IF active' # NoDoc THEN active'.createdAt ELSE 0
  /\ UNCHANGED file

Stream == \E d \in Docs : Offer(d) /\ UNCHANGED file

LoaderNext == Stream \/ LoadFile \/ WriteFile \/ Restart

LoaderSpec == LoaderInit /\ [][LoaderNext]_loaderVars

-----------------------------------------------------------------------------
(* Properties *)

\* Anti-rollback: while the process runs, the document in force is never
\* older than one that was in force before, whatever is offered again, in
\* whatever order, from either source, and also after a time without rules.
NoRollback == active # NoDoc => active.createdAt >= newest

\* The document in force depends on which documents have been offered, not
\* on the order, the source or the repetition of the offers: it is the pick
\* among the newest document of each key.  (Documents of one key made at the
\* same time are excepted: the first to arrive is kept.)
NewestPerKey ==
  {d \in offered : \A e \in offered : KeyOf(e) = KeyOf(d) => e.createdAt <= d.createdAt}

NoTies == \A d, e \in offered :
            (KeyOf(d) = KeyOf(e) /\ d.createdAt = e.createdAt) => d = e

OrderIndependent == NoTies => Picked(NewestPerKey, active)

\* Rules in force are lifted while the process runs only by a document whose
\* ratchet forbids even the newest document known; never by a malformed,
\* foreign or old document, nor by a missing file.
LiftedOnlyByRatchet ==
  [][(active # NoDoc /\ active' = NoDoc /\ ~Restart)
       => \E d \in offered' : \A e \in NewestPerKey' : d.minRulesCreatedAt > e.createdAt]_loaderVars

\* NoRollback made inductive: nothing newer than the document in force was
\* ever in force, and some candidate is as new as anything that was.
RollbackIInv ==
  /\ active # NoDoc => newest = active.createdAt
  /\ newest # 0 =>
       \E k \in Keys : rulesByKey[k] # NoDoc /\ rulesByKey[k].createdAt >= newest

=============================================================================
