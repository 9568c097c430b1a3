--------------------------- MODULE RemasterManager ---------------------------
(***************************************************************************)
(* The two remaster managers that check counters before the lock manager   *)
(* (remaster_manager.h, simple_ and per_key_remaster_manager.cpp), as      *)
(* values with operators.  A copy <<t, h>> of a transaction with a counter *)
(* above the stored one waits: behind the copies of its log in the SIMPLE  *)
(* manager, behind the copies with its keys in the PER_KEY one.            *)
(*                                                                         *)
(* p is the partition of the manager and db its storage.  A result lists   *)
(* the copies that may now ask for locks and those that must abort; fatal  *)
(* says that a CHECK failed on the way.                                    *)
(***************************************************************************)
EXTENDS Slices, SequencesExt

CONSTANT Region0  \* region 0, the master of a Record that was never written

ASSUME Region0Assumption == Region0 \in Region

\* The metadata read from storage: the defaults of Record for a new key.
StoredCounter(db, k) == IF k \in DOMAIN db THEN db[k].counter ELSE 0
StoredMaster(db, k) == IF k \in DOMAIN db THEN db[k].master ELSE Region0

\* The keys that filter_by_home leaves; all of them for the worker's check.
HomeKeys(p, c) == {k \in KeysAt(c[1], p) : txn[c[1]].master[k] = c[2]}

\* Equal counters with different masters fail a CHECK.
MastersMatch(db, t, k) ==
  counter[t][k] = StoredCounter(db, k) => txn[t].master[k] = StoredMaster(db, k)

\* The loop over the keys.  A client may list them in any order, so the CHECK
\* comes before the early return of an outdated key.
CheckCounters(db, t, K) ==
  IF \E k \in K : ~MastersMatch(db, t, k) THEN "FATAL"
  ELSE IF \E k \in K : counter[t][k] < StoredCounter(db, k) THEN "ABORT"
  ELSE IF \E k \in K : counter[t][k] > StoredCounter(db, k) THEN "WAITING"
  ELSE "VALID"

\* Mutant: a counter that is ahead is let through.
CheckCopyNeverWaits(db, p, c) ==
  IF \E k \in HomeKeys(p, c) : counter[c[1]][k] < StoredCounter(db, k) THEN "ABORT" ELSE "VALID"

CheckCopy(db, p, c) == CheckCounters(db, c[1], HomeKeys(p, c))

Result(b, unblocked, should_abort) ==
  [blocked |-> b, unblocked |-> unblocked, should_abort |-> should_abort, fatal |-> FALSE]
-----------------------------------------------------------------------------
(* SimpleRemasterManager: one queue for every log. *)

NoneBlocked == IF protocol = "PER_KEY" THEN [k \in Key |-> <<>>] ELSE [h \in Region |-> <<>>]

SimpleVerify(b, db, p, c) == IF b[c[2]] # <<>> THEN "WAITING" ELSE CheckCopy(db, p, c)

SimpleBlock(b, c) == [b EXCEPT ![c[2]] = Append(@, c)]

\* TryToUnblock recurses as long as the head of the queue need not wait.
NumUnblocked(q, db, p) ==
  CHOOSE n \in 0 .. Len(q) :
    /\ \A i \in 1 .. n : CheckCopy(db, p, q[i]) \in {"VALID", "ABORT"}
    /\ n < Len(q) => CheckCopy(db, p, q[n + 1]) \in {"WAITING", "FATAL"}

\* TryToUnblock for the logs in H.
SimpleUnblock(b, db, p, H) ==
  LET n(h) == IF h \in H THEN NumUnblocked(b[h], db, p) ELSE 0
      left(h) == SubSeq(b[h], n(h) + 1, Len(b[h]))
      popped == FlattenSeq([i \in 1 .. Cardinality(Region) |->
                   LET h == SetToSeq(Region)[i] IN SubSeq(b[h], 1, n(h))])
  IN [Result([h \in Region |-> left(h)],
             SelectSeq(popped, LAMBDA c : CheckCopy(db, p, c) = "VALID"),
             SelectSeq(popped, LAMBDA c : CheckCopy(db, p, c) = "ABORT"))
      EXCEPT !.fatal = \E h \in H : left(h) # <<>> /\ CheckCopy(db, p, Head(left(h))) = "FATAL"]

\* Only the logs whose first copy has the key are tried.
SimpleRemasterOccured(b, db, p, k) ==
  SimpleUnblock(b, db, p, {h \in Region : b[h] # <<>> /\ k \in HomeKeys(p, Head(b[h]))})

\* A transaction is in a queue at most once.
Without(q, t) == SelectSeq(q, LAMBDA c : c[1] # t)

SimpleRelease(b, db, p, t) ==
  SimpleUnblock([h \in Region |-> IF h \in HomesAt(t, p) THEN Without(b[h], t) ELSE b[h]],
                db, p, HomesAt(t, p))
-----------------------------------------------------------------------------
(* PerKeyRemasterManager: one queue for every key, in order of the counters. *)

\* A copy whose counters fit still waits behind one with a counter not above its own.
IndirectlyBlocked(b, p, t) ==
  \E k \in KeysAt(t, p) : b[k] # <<>> /\ counter[Head(b[k])[1]][k] <= counter[t][k]

PerKeyVerify(b, db, p, c) ==
  IF CheckCopy(db, p, c) = "VALID" /\ IndirectlyBlocked(b, p, c[1]) THEN "WAITING"
  ELSE CheckCopy(db, p, c)

\* InsertIntoBlockedQueue: after every copy with a counter not above its own.
InsertByCounter(q, k, c) ==
  LET i == Cardinality({j \in DOMAIN q : counter[q[j][1]][k] <= counter[c[1]][k]})
  IN InsertAt(q, i + 1, c)

PerKeyBlock(b, p, c) ==
  [k \in Key |-> IF k \in HomeKeys(p, c) THEN InsertByCounter(b[k], k, c) ELSE b[k]]

\* The copy is at the head of all of its queues.
AtFront(b, p, c) == \A k \in HomeKeys(p, c) : Head(b[k]) = c

PopFront(b, p, c) == [k \in Key |-> IF k \in HomeKeys(p, c) THEN Tail(b[k]) ELSE b[k]]

RemoveTxn(b, p, t) == [k \in Key |-> IF k \in KeysAt(t, p) THEN Without(b[k], t) ELSE b[k]]

RECURSIVE PerKeyUnblock(_, _, _, _)

\* TryToUnblock for the keys in ks, one after the other; r is the result so far.
PerKeyUnblock(r, db, p, ks) ==
  IF ks = <<>> THEN r
  ELSE LET q == r.blocked[Head(ks)]
           c == Head(q)
           check == CheckCopy(db, p, c)
           next == IF q = <<>> THEN r
                   ELSE CASE check = "WAITING" -> r
                          [] check = "FATAL" -> [r EXCEPT !.fatal = TRUE]
                          [] check = "ABORT" ->
                               PerKeyUnblock(
                                 [r EXCEPT !.blocked = RemoveTxn(@, p, c[1]),
                                           !.should_abort = Append(@, c)],
                                 db, p, SetToSeq(KeysAt(c[1], p)))
                          [] check = "VALID" ->
                               IF ~AtFront(r.blocked, p, c) THEN r
                               ELSE PerKeyUnblock(
                                      [r EXCEPT !.blocked = PopFront(@, p, c),
                                                !.unblocked = Append(@, c)],
                                      db, p, SetToSeq(HomeKeys(p, c)))
       IN PerKeyUnblock(next, db, p, Tail(ks))

PerKeyRemasterOccured(b, db, p, k) == PerKeyUnblock(Result(b, <<>>, <<>>), db, p, <<k>>)

PerKeyRelease(b, db, p, t) ==
  PerKeyUnblock(Result(RemoveTxn(b, p, t), <<>>, <<>>), db, p, SetToSeq(KeysAt(t, p)))
-----------------------------------------------------------------------------
(* The manager of the build. *)

VerifyMaster(b, db, p, c) ==
  IF protocol = "SIMPLE" THEN SimpleVerify(b, db, p, c) ELSE PerKeyVerify(b, db, p, c)

Block(b, p, c) == IF protocol = "SIMPLE" THEN SimpleBlock(b, c) ELSE PerKeyBlock(b, p, c)

RemasterOccured(b, db, p, k) ==
  IF protocol = "SIMPLE" THEN SimpleRemasterOccured(b, db, p, k)
  ELSE PerKeyRemasterOccured(b, db, p, k)

ReleaseTransaction(b, db, p, t) ==
  IF protocol = "SIMPLE" THEN SimpleRelease(b, db, p, t) ELSE PerKeyRelease(b, db, p, t)
=============================================================================
