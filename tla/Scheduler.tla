------------------------------ MODULE Scheduler ------------------------------
(***************************************************************************)
(* The scheduler of one partition (scheduler.{h,cpp}) and the holders of   *)
(* its active transactions (txn_holder.{h,cpp}).  Every handler is an      *)
(* operator from the scheduler's state to its next state:                  *)
(*   active     active_txns_: the holder of every transaction, or NoHolder *)
(*   locks      lock_manager_                                              *)
(*   blocked    remaster_manager_                                          *)
(*   to_worker  the dispatched transactions no worker has picked up yet    *)
(*   failed     the CHECK that failed, or "": the process has ended        *)
(*                                                                         *)
(* The default build has the remaster-aware lock manager.  What it grants  *)
(* is given by LockOrder, which it implements: the copies in the order of  *)
(* their arrival, without those of released transactions.                  *)
(***************************************************************************)
EXTENDS RemasterManager

CONSTANTS NoHolder

OLM == INSTANCE OldLockManager

\* TxnHolder::TxnHolder.  lo: the homes of the copies it has; status,
\* abort_reason and value belong to the transaction of the first of them.
NewHolder(h) ==
  [main |-> h, lo |-> {h}, num_lo |-> 1, done |-> FALSE, aborting |-> FALSE,
   status |-> "NOT_STARTED", abort_reason |-> "", value |-> <<>>, remastered |-> FALSE]

AddLockOnlyTxn(holder, h) == [holder EXCEPT !.lo = @ \cup {h}, !.num_lo = @ + 1]

\* FinalizeAndRelease leaves no copy behind; num_lo_txns_ stays.
FinalizeAndRelease(holder) == [holder EXCEPT !.lo = {}]

\* txn() fails a CHECK once the transaction is released.
HasTxn(holder) == holder.main \in holder.lo

is_ready_for_gc(holder, t, p) == holder.done /\ holder.num_lo = NumInvolvedReplicasAt(t, p)

NewScheduler ==
  [active |-> [t \in TxnId |-> NoHolder], locks |-> IF Counterless THEN <<>> ELSE OLM!NoLocks,
   blocked |-> NoneBlocked, to_worker |-> {}, failed |-> ""]

\* The first CHECK that fails ends the process.
Fail(s, check) == IF s.failed = "" THEN [s EXCEPT !.failed = check] ELSE s
-----------------------------------------------------------------------------
(* The lock manager. *)

AcquireLocks(locks, p, c) ==
  IF Counterless THEN Append(locks, c)
  ELSE OLM!OldAcquireLocks(locks, c[1], txn[c[1]].type, KeysAt(c[1], p), HomeKeys(p, c))

ReleaseLocks(locks, t) ==
  IF Counterless THEN SelectSeq(locks, LAMBDA c : c[1] # t) ELSE OLM!OldReleaseLocks(locks, t)

\* Both remaster-aware lock managers count two locks for a remaster.
Grantable(d) == IsRemaster(d) => \A k \in Keys(d) : d.master[k] # d.new_master

AheadOf(locks, p, t) ==
  {v \in TxnId \ {t} : \E i, j \in DOMAIN locks :
     /\ i < j
     /\ locks[i][1] = v /\ locks[j][1] = t /\ locks[i][2] = locks[j][2]
     /\ \E k \in KeysAt(t, p) : ConflictOn(txn[v], txn[t], <<k, locks[i][2]>>)}

HasLocks(locks, p, t) ==
  IF Counterless
  THEN /\ \A h \in HomesAt(t, p) : <<t, h>> \in ToSet(locks)
       /\ HomesAt(t, p) # {}
       /\ Grantable(txn[t])
       /\ AheadOf(locks, p, t) = {}
  ELSE OLM!OldReady(locks, t)
-----------------------------------------------------------------------------
(* The handlers. *)

Dispatch(s, T) == [s EXCEPT !.to_worker = @ \cup T]

SendToLockManager(s, p, c) ==
  LET locks == AcquireLocks(s.locks, p, c)
  IN Dispatch([s EXCEPT !.locks = locks], IF HasLocks(locks, p, c[1]) THEN {c[1]} ELSE {})

\* ReleaseLocks and the dispatch of the transactions it unblocks.
ReleaseAndDispatch(s, p, t) ==
  LET locks == ReleaseLocks(s.locks, t)
      unblocked == {u \in TxnId \ {t} : HasLocks(locks, p, u) /\ ~HasLocks(s.locks, p, u)}
  IN Dispatch([s EXCEPT !.locks = locks], unblocked)

RECURSIVE TriggerPreDispatchAbort(_, _, _, _)
RECURSIVE ProcessRemasterResult(_, _, _, _)

\* First the unblocked copies ask for their locks, then the others abort.
ProcessRemasterResult(s, db, p, r) ==
  LET asked == FoldLeft(LAMBDA x, c : SendToLockManager(x, p, c),
                        [s EXCEPT !.blocked = r.blocked], r.unblocked)
      aborting == {c[1] : c \in ToSet(r.should_abort)}
  IN IF r.fatal THEN Fail(s, "Masters don't match")
     ELSE IF Cardinality(aborting) # Len(r.should_abort)
     THEN Fail(asked, "Duplicate transactions returned for abort")
     ELSE FoldLeft(LAMBDA x, t : TriggerPreDispatchAbort(x, db, p, t), asked, SetToSeq(aborting))

TriggerPreDispatchAbort(s, db, p, t) ==
  LET holder == s.active[t]
      marked == [s EXCEPT !.active[t].aborting = TRUE]
      unblocked == ProcessRemasterResult(marked, db, p, ReleaseTransaction(s.blocked, db, p, t))
      unlocked == ReleaseAndDispatch(unblocked, p, t)
  IN IF holder = NoHolder THEN Fail(s, "active_txns_")
     ELSE IF holder.aborting THEN Fail(s, "Abort was triggered twice")
     ELSE IF ~HasTxn(holder) THEN Fail(s, "txn()")
     ELSE Dispatch([unlocked EXCEPT !.active[t].status = "ABORTED"], {t})

SendToRemasterManager(s, db, p, c) ==
  LET verdict == VerifyMaster(s.blocked, db, p, c)
  IN CASE verdict = "VALID" -> SendToLockManager(s, p, c)
       [] verdict = "ABORT" -> TriggerPreDispatchAbort(s, db, p, c[1])
       [] verdict = "WAITING" -> [s EXCEPT !.blocked = Block(@, p, c)]
       [] verdict = "FATAL" -> Fail(s, "Masters don't match")

Collect(s, t) == [s EXCEPT !.active[t] = NoHolder]

\* Receipt of the copy of t from the log of region h.
ProcessTransaction(s, db, p, t, h) ==
  LET old == s.active[t]
      holder == IF old = NoHolder THEN NewHolder(h) ELSE AddLockOnlyTxn(old, h)
      n == [s EXCEPT !.active[t] = holder]
  IN IF old # NoHolder /\ h \in old.lo THEN s
     ELSE IF ~HasTxn(holder) THEN Fail(n, "txn()")
     ELSE IF holder.aborting THEN IF is_ready_for_gc(holder, t, p) THEN Collect(n, t) ELSE n
     ELSE IF Counterless THEN SendToLockManager(n, p, <<t, h>>)
     ELSE SendToRemasterManager(n, db, p, <<t, h>>)

\* Receipt of the message of a worker that t is done.
OnCustomSocket(s, db, p, t) ==
  LET unlocked == ReleaseAndDispatch(s, p, t)
      told == IF ~Counterless /\ s.active[t].remastered
              THEN LET k == CHOOSE k \in Keys(txn[t]) : TRUE
                   IN ProcessRemasterResult(unlocked, db, p,
                                            RemasterOccured(unlocked.blocked, db, p, k))
              ELSE unlocked
      done == [told EXCEPT !.active[t].done = TRUE]
  IN IF s.active[t] = NoHolder THEN Fail(s, "active_txns_")
     ELSE IF is_ready_for_gc(done.active[t], t, p) THEN Collect(done, t) ELSE done
=============================================================================
