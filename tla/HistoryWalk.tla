---------------------------- MODULE HistoryWalk ----------------------------
(***************************************************************************)
(* How a lookup finds the value of a name (runResolve and                  *)
(* selectNameRowFromHistory of src/src/electrumx.js): it asks for the      *)
(* history of the name's script, for the tip of the chain unless a recent  *)
(* one is cached, drops the transactions with too few confirmations, and   *)
(* fetches the others from newest to oldest until one of them operates on  *)
(* the name.  The cached tip is one variable of the module: all lookups,   *)
(* at all servers, share it.                                               *)
(*                                                                         *)
(* A transaction is known by its height, and so is the value it gives the  *)
(* name; some pay to the script without operating on the name.  The chain  *)
(* is external and only grows: reorganisations are left out.               *)
(***************************************************************************)
EXTENDS Integers, Sequences, FiniteSets

CONSTANTS Lookups,
          NoTip,
          MIN_CONF,            \* minConfirmations
          MAX_HISTORY_WALK, NAME_EXPIRE_DEPTH, TIP_CACHE_TTL_MS,
          REQUEST_MS,          \* longest a server takes to answer
          MAX_HEIGHT,          \* bound on the chain
          SUBSCRIBE_FAILS,     \* TRUE: a server may not tell the tip
          FETCH_FAILS          \* TRUE: a transaction may not be fetched

VARIABLES height,      \* external: the tip of the chain
          mined,       \* ghost: age of each block, told apart up to OLD
          txs,         \* external: the script's transactions, oldest first
          mempool,     \* external: an update of the name is not yet mined
          cachedTip, tipAge,   \* cachedTip, and the age of cachedTipAt
          lookup,
          served       \* what the lookup that ended in this step returns

chainVars == <<height, mined, txs, mempool>>
tipVars   == <<cachedTip, tipAge>>
vars      == <<chainVars, tipVars, lookup, served>>

ASSUME HistoryAssumption ==
  /\ MIN_CONF \in Nat /\ MAX_HEIGHT \in Nat /\ REQUEST_MS \in Nat
  /\ MAX_HISTORY_WALK \in Nat \ {0} /\ NAME_EXPIRE_DEPTH \in Nat \ {0}
  /\ TIP_CACHE_TTL_MS \in Nat \ {0}
  /\ SUBSCRIBE_FAILS \in BOOLEAN /\ FETCH_FAILS \in BOOLEAN
  /\ NoTip \notin Int

OLD     == TIP_CACHE_TTL_MS + REQUEST_MS
Heights == 0..MAX_HEIGHT
Tx      == [height : 1..MAX_HEIGHT, named : BOOLEAN]

\* A lookup that asks for the tip has the history already.  now: the age of
\* the time it read the clock at; answer: what a server is about to say the
\* tip is.  was is a ghost: the height of the chain one life of the cached
\* tip before that time.
Idle == [pc |-> "idle", history |-> <<>>, now |-> 0, answer |-> NoTip, was |-> 0]

\* row: the height of the update that is served, or 0; lost: the transactions
\* that could not be fetched.
Nothing == [history |-> <<>>, was |-> 0, tip |-> NoTip, lost |-> {},
            row |-> 0, expired |-> FALSE]

TypeOK ==
  /\ height \in Heights
  /\ mined \in [1..MAX_HEIGHT -> 0..OLD]
  /\ \A i \in DOMAIN txs : txs[i] \in Tx
  /\ mempool \in BOOLEAN
  /\ cachedTip \in Heights \cup {NoTip}
  /\ tipAge \in 0..OLD
  /\ \A c \in Lookups : /\ lookup[c].pc \in {"idle", "tip", "told"}
                        /\ lookup[c].now \in 0..REQUEST_MS
                        /\ lookup[c].answer \in Heights \cup {NoTip}
                        /\ lookup[c].was \in Heights
  /\ served.row \in Heights

Init ==
  /\ height = 0
  /\ mined = [h \in 1..MAX_HEIGHT |-> 0]
  /\ txs = <<>>
  /\ mempool = FALSE
  /\ cachedTip = NoTip
  /\ tipAge = OLD
  /\ lookup = [c \in Lookups |-> Idle]
  /\ served = Nothing

(***************************************************************************)
(* selectNameRowFromHistory                                                *)
(***************************************************************************)
\* Mutant of Eligible: one confirmation too many is counted.
EligibleEarly(history, tip) ==
  {i \in DOMAIN history : (tip # NoTip /\ MIN_CONF > 0) => tip - history[i].height + 2 >= MIN_CONF}

\* The places of the history that are left.  (Transactions in the mempool
\* have height 0 or -1 and are dropped first.)
Eligible(history, tip) ==
  {i \in DOMAIN history : (tip # NoTip /\ MIN_CONF > 0) => tip - history[i].height + 1 >= MIN_CONF}

\* Mutant of Walk: the history is cut off before it is filtered.
WalkCutFirst(history, tip) ==
  {history[i] : i \in {j \in Eligible(history, tip) : j > Len(history) - MAX_HISTORY_WALK}}

\* The transactions the walk visits: the youngest of them, of a history that
\* is oldest first.
Walk(history, tip) ==
  LET e == Eligible(history, tip)
  IN  {history[i] : i \in {j \in e : Cardinality({k \in e : k > j}) < MAX_HISTORY_WALK}}

\* The heights at which it may stop if the transactions in lost cannot be
\* fetched; 0 if it finds none.  (Of two updates in a block the walk takes the
\* first of the history.)
Chosen(walk, lost) ==
  LET found == {t.height : t \in {u \in walk \ lost : u.named}}
  IN  IF found = {} THEN 0 ELSE CHOOSE h \in found : \A g \in found : g <= h

\* Mutant of Expired: a name lives one block longer.
ExpiredLate(tip, row) == row > 0 /\ tip # NoTip /\ tip - row > NAME_EXPIRE_DEPTH

Expired(tip, row) == row > 0 /\ tip # NoTip /\ tip - row >= NAME_EXPIRE_DEPTH

\* The lookup ends.  The walk reads nothing that changes, so that its result
\* is settled when it begins.
Serve(c, history, was, tip) ==
  LET walk == Walk(history, tip) IN
    \E lost \in IF FETCH_FAILS THEN SUBSET walk ELSE {{}} :
      LET row == Chosen(walk, lost) IN
        /\ served' = [history |-> history, was |-> was, tip |-> tip, lost |-> lost,
                      row |-> row, expired |-> Expired(tip, row)]
        /\ lookup' = [lookup EXCEPT ![c] = Idle]

(***************************************************************************)
(* runResolve.  A handshake or a request for the history that fails ends   *)
(* the attempt (see NameShow).                                             *)
(***************************************************************************)
TipIsFresh == cachedTip # NoTip /\ tipAge < TIP_CACHE_TTL_MS

\* Ghost: the chain some time ago.
HeightAgo(age) ==
  LET then == {h \in 1..height : mined[h] >= age}
  IN  IF then = {} THEN 0 ELSE CHOOSE h \in then : \A g \in then : g <= h

\* The history arrives; the clock is read, and the cached tip if it will do.
History(c) ==
  /\ lookup[c].pc = "idle"
  /\ txs # <<>> \/ mempool
  /\ IF TipIsFresh
     THEN Serve(c, txs, HeightAgo(TIP_CACHE_TTL_MS), cachedTip)
     ELSE /\ lookup' = [lookup EXCEPT ![c] =
               [Idle EXCEPT !.pc = "tip", !.history = txs, !.was = HeightAgo(TIP_CACHE_TTL_MS)]]
          /\ served' = Nothing
  /\ UNCHANGED <<chainVars, tipVars>>

\* External: the server reads the tip.
Tell(c) ==
  /\ lookup[c].pc = "tip"
  /\ lookup' = [lookup EXCEPT ![c].pc = "told", ![c].answer = height]
  /\ served' = Nothing
  /\ UNCHANGED <<chainVars, tipVars>>

\* Mutant of Told: the tip is stamped with the time of its arrival.
ToldNow(c) ==
  /\ lookup[c].pc = "told"
  /\ cachedTip' = lookup[c].answer
  /\ tipAge' = 0
  /\ Serve(c, lookup[c].history, lookup[c].was, lookup[c].answer)
  /\ UNCHANGED chainVars

\* The tip is cached as of the time the lookup read the clock at.
Told(c) ==
  /\ lookup[c].pc = "told"
  /\ cachedTip' = lookup[c].answer
  /\ tipAge' = lookup[c].now
  /\ Serve(c, lookup[c].history, lookup[c].was, lookup[c].answer)
  /\ UNCHANGED chainVars

\* The server does not answer, or not with a height: this is tolerated.
NotTold(c) ==
  /\ SUBSCRIBE_FAILS
  /\ lookup[c].pc \in {"tip", "told"}
  /\ Serve(c, lookup[c].history, lookup[c].was, NoTip)
  /\ UNCHANGED <<chainVars, tipVars>>

(***************************************************************************)
(* External: the chain and time.                                           *)
(***************************************************************************)
Broadcast == /\ ~mempool /\ mempool' = TRUE
             /\ served' = Nothing
             /\ UNCHANGED <<height, mined, txs, tipVars, lookup>>

\* A block, with the waiting update, with a payment that is none, or without
\* a transaction of the script.
Mine ==
  /\ height < MAX_HEIGHT
  /\ height' = height + 1
  /\ \/ /\ mempool /\ mempool' = FALSE
        /\ txs' = Append(txs, [height |-> height', named |-> TRUE])
     \/ /\ txs' = Append(txs, [height |-> height', named |-> FALSE])
        /\ UNCHANGED mempool
     \/ UNCHANGED <<txs, mempool>>
  /\ served' = Nothing
  /\ UNCHANGED <<mined, tipVars, lookup>>

Older(age) == IF age < OLD THEN age + 1 ELSE OLD

Tick ==
  /\ served' = Nothing
  /\ \A c \in Lookups : lookup[c].pc # "idle" => lookup[c].now < REQUEST_MS
  /\ mined' = [h \in 1..MAX_HEIGHT |-> IF h <= height THEN Older(mined[h]) ELSE 0]
  /\ tipAge' = Older(tipAge)
  /\ lookup' = [c \in Lookups |-> IF lookup[c].pc # "idle"
                                  THEN [lookup[c] EXCEPT !.now = @ + 1] ELSE lookup[c]]
  /\ UNCHANGED <<height, txs, mempool, cachedTip>>

Next ==
  \/ \E c \in Lookups : \/ History(c) \/ Tell(c) \/ Told(c) \/ NotTold(c)
  \/ Broadcast \/ Mine \/ Tick

Spec == Init /\ [][Next]_vars

-----------------------------------------------------------------------------
(* Properties.  served is what the step that led to a state returned. *)

\* The cached tip is never behind the chain of the time it is stamped with,
\* though lookups that overlap overwrite each other's, in any order.  (The
\* state has its type throughout.)
TipIsNotBehindItsStamp ==
  /\ TypeOK
  /\ cachedTip # NoTip => cachedTip >= HeightAgo(tipAge + 1)

Confirmed(t, tip) == tip - t.height + 1 >= MIN_CONF

\* The i-th of the history is an update that has enough confirmations when the
\* tip is `was`, and that a walk with tip `tip` can get to.
Due(history, i, was, tip) ==
  /\ history[i].named
  /\ Confirmed(history[i], was)
  /\ Cardinality({j \in DOMAIN history :
                    /\ j > i
                    /\ tip = NoTip \/ MIN_CONF = 0 \/ Confirmed(history[j], tip)})
       < MAX_HISTORY_WALK

\* An update is served as soon as it has had enough confirmations for the
\* life of a cached tip, even if it competes with younger payments that are
\* no updates (as many as the walk allows), lookups use a tip of another
\* lookup's, or no tip at all; as long as no fetch fails.
UpdateIsServedInTime ==
  served.lost = {} =>
    \A i \in DOMAIN served.history :
      Due(served.history, i, served.was, served.tip)
        => served.row >= served.history[i].height

\* A lookup that has a tip calls a name expired only if it is, and takes it
\* for alive no longer than for the life of a cached tip after it expired.
ExpiryIsInTime ==
  (served.row > 0 /\ served.tip # NoTip) =>
    IF served.expired THEN height - served.row >= NAME_EXPIRE_DEPTH
                      ELSE served.was - served.row < NAME_EXPIRE_DEPTH

\* Whatever is served was an update of the name that is mined, even when tips
\* and transactions cannot be had; and a lookup that has a tip, of whatever
\* age, trusts none that has not the minimum of confirmations.  (Without a
\* tip the code checks nothing.)
ServedIsConfirmed ==
  served.row > 0 =>
    /\ \E i \in DOMAIN txs : txs[i].named /\ txs[i].height = served.row
    /\ served.tip # NoTip => height - served.row + 1 >= MIN_CONF
=============================================================================
