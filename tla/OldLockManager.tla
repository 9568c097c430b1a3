--------------------------- MODULE OldLockManager ---------------------------
(***************************************************************************)
(* The lock manager of the SIMPLE and PER_KEY protocols                    *)
(* (old_lock_manager.{h,cpp}), as a value with operators.  Locks are on    *)
(* keys, whatever their master; OldLockState differs from LockState only   *)
(* in the containers it keeps its holders and waiters in.                  *)
(***************************************************************************)
EXTENDS LockState, FiniteSets

CONSTANT Key

\* No transaction; info.num_waiting_for of the ones that have no entry.
NoEntry == [waiting_for |-> 0, keys |-> {}, present |-> FALSE]

NoLocks == [table |-> [k \in Key |-> FreeLock], info |-> [t \in TxnId |-> NoEntry]]

\* AcquireLocks for a copy with keys K, those of its home being H: the entry
\* made by the first copy waits for all of K.
OldAcquireLocks(locks, t, type, K, H) ==
  LET table == [k \in Key |-> IF k \in H THEN Acquire(locks.table[k], t, type[k])
                              ELSE locks.table[k]]
      granted == {k \in H : t \in table[k].holders}
      entry == IF locks.info[t].present THEN locks.info[t]
               ELSE [NoEntry EXCEPT !.waiting_for = Cardinality(K), !.present = TRUE]
  IN [table |-> table,
      info |-> [locks.info EXCEPT ![t] =
                  [entry EXCEPT !.waiting_for = @ - Cardinality(granted), !.keys = @ \cup H]]]

\* ReleaseLocks; without an entry it does nothing.
OldReleaseLocks(locks, t) ==
  LET mine == locks.info[t].keys
      table == [k \in Key |-> IF k \in mine THEN Release(locks.table[k], t) ELSE locks.table[k]]
      granted(u) == {k \in mine : u \in table[k].holders \ locks.table[k].holders}
  IN [table |-> table,
      info |-> [u \in TxnId |->
                  IF u = t THEN NoEntry
                  ELSE [locks.info[u] EXCEPT !.waiting_for = @ - Cardinality(granted(u))]]]

OldReady(locks, t) == locks.info[t].present /\ locks.info[t].waiting_for = 0
=============================================================================
