---------------------------- MODULE DDRLockManager ----------------------------
(***************************************************************************)
(* The deadlock-resolving lock manager (ddr_lock_manager.{h,cpp}).  It     *)
(* keeps no lock queues: each lock remembers only the requests at its tail *)
(* and never forgets them when they are released, and the transactions     *)
(* form a wait-for graph.  Driven by the scheduler like RMALockManager.    *)
(***************************************************************************)
EXTENDS Transactions, Integers

CONSTANTS TxnId,
          NoTxn   \* no write_lock_requester_

VARIABLES
  txn,             \* contents of each transaction, fixed by the environment
  lock_table,      \* lock_table_: the tail of every lock's queue
  txn_info,        \* the ids in txn_info_
  unarrived,       \* TxnInfo::unarrived_lock_requests
  waiting_for_cnt, \* TxnInfo::waiting_for_cnt
  waited_by,       \* waited_by[t][u]: occurrences of u in t's waited_by
  arrived, ahead, dispatched, released   \* the calls, as in RMALockManager

table_vars == <<lock_table, txn_info, unarrived, waiting_for_cnt, waited_by>>
vars == <<txn, table_vars, arrived, ahead, dispatched, released>>

Copy == TxnId \X Region

NobodyWaits == [u \in TxnId |-> 0]

Init ==
  /\ txn \in [TxnId -> Transaction]
  /\ lock_table = [l \in Lock |-> [writer |-> NoTxn, readers |-> {}]]
  /\ txn_info = {}
  /\ unarrived = [t \in TxnId |-> 0]
  /\ waiting_for_cnt = [t \in TxnId |-> 0]
  /\ waited_by = [t \in TxnId |-> NobodyWaits]
  /\ arrived = {}
  /\ ahead = [c \in Copy |-> {}]
  /\ dispatched = {}
  /\ released = {}

\* Mutant: a writer waits for the last writer only.
DependenciesOnWriter(s, m) == {s.writer} \ {NoTxn}

\* A reader goes behind the last writer; a writer behind the readers since
\* then, or behind that writer if there are none.
Dependencies(s, m) ==
  (IF m = "READ" \/ s.readers = {} THEN {s.writer} ELSE s.readers) \ {NoTxn}

NewTail(s, t, m) ==
  IF m = "READ" THEN [s EXCEPT !.readers = @ \cup {t}]
                ELSE [writer |-> t, readers |-> {}]

\* The transactions still in the lock manager that t's requests at region h
\* must wait for.  The tails may name transactions that already left.
BlockingTxns(t, h) ==
  (UNION {Dependencies(lock_table[l], Mode(txn[t], l)) : l \in LocksAt(txn[t], h)}
     \cap (txn_info \cup {t})) \ {t}

\* try_emplace
Unarrived(t) == IF t \in txn_info THEN unarrived[t] ELSE NumRequiredLocks(txn[t])

\* Mutant: ready without waiting for the other copies.
IsReadyEarly(waiting_for, unarrived_requests) == waiting_for = 0

IsReady(waiting_for, unarrived_requests) == waiting_for = 0 /\ unarrived_requests = 0

ActiveAt(h) == {v \in TxnId \ released : <<v, h>> \in arrived}

AcquireLocks(t, h) ==
  /\ h \in InvolvedReplicas(txn[t])
  /\ <<t, h>> \notin arrived
  /\ lock_table' = [l \in Lock |-> IF l \in LocksAt(txn[t], h)
                                   THEN NewTail(lock_table[l], t, Mode(txn[t], l))
                                   ELSE lock_table[l]]
  /\ txn_info' = txn_info \cup {t}
  /\ unarrived' = [unarrived EXCEPT ![t] = Unarrived(t) - Cardinality(LocksAt(txn[t], h))]
  /\ waiting_for_cnt' = [waiting_for_cnt EXCEPT ![t] = @ + Cardinality(BlockingTxns(t, h))]
  /\ waited_by' = [b \in TxnId |-> IF b \in BlockingTxns(t, h)
                                   THEN [waited_by[b] EXCEPT ![t] = @ + 1]
                                   ELSE waited_by[b]]
  /\ dispatched' = dispatched \cup
       (IF IsReady(waiting_for_cnt'[t], unarrived'[t]) THEN {t} ELSE {})
  /\ arrived' = arrived \cup {<<t, h>>}
  /\ ahead' = [ahead EXCEPT ![<<t, h>>] = ActiveAt(h)]
  /\ UNCHANGED <<txn, released>>

ReleaseLocks(t) ==
  /\ t \in dispatched
  /\ waiting_for_cnt' =
       [u \in TxnId |-> IF u \in txn_info THEN waiting_for_cnt[u] - waited_by[t][u]
                                          ELSE waiting_for_cnt[u]]
  /\ txn_info' = txn_info \ {t}
  /\ waited_by' = [waited_by EXCEPT ![t] = NobodyWaits]
  /\ dispatched' = (dispatched \ {t}) \cup
       {u \in txn_info : waited_by[t][u] > 0 /\ IsReady(waiting_for_cnt'[u], unarrived[u])}
  /\ released' = released \cup {t}
  /\ UNCHANGED <<txn, lock_table, unarrived, arrived, ahead>>

Next == \E t \in TxnId : (\E h \in Region : AcquireLocks(t, h)) \/ ReleaseLocks(t)

Spec == Init /\ [][Next]_vars
-----------------------------------------------------------------------------
Promise == INSTANCE LockOrder

(***************************************************************************)
(* The wait-for graph, built from queue tails that still name released     *)
(* transactions and counting one blocker once per lock-only txn, dispatches*)
(* exactly the transactions the arrival order allows to run, each once: it *)
(* is interchangeable with the queues of the RMA lock manager.             *)
(***************************************************************************)
ImplementsLockOrder == Promise!Spec

(***************************************************************************)
(* ReleaseLocks aborts the process on a transaction that is not ready      *)
(* (LOG(FATAL), ddr_lock_manager.cpp:114): none that a worker can report   *)
(* finished ever is, although later arrivals keep updating the graph.      *)
(***************************************************************************)
DispatchedStayReady ==
  \A t \in dispatched : waiting_for_cnt[t] = 0 /\ unarrived[t] = 0
=============================================================================
