---------------------------- MODULE RMALockManager ----------------------------
(***************************************************************************)
(* The remaster-aware lock manager (rma_lock_manager.{h,cpp}), the default *)
(* of the build, as the scheduler drives it: AcquireLocks once for every   *)
(* copy of a transaction, ReleaseLocks once for every transaction that a   *)
(* worker reports finished.  A copy names its home region; the copies of   *)
(* different regions arrive in any order, since they come from different   *)
(* logs.                                                                   *)
(*                                                                         *)
(* Locks are on <<key, region>>.  The locks that one call asks for are     *)
(* distinct, so its loop over the keys is one simultaneous update of the   *)
(* table.  arrived, ahead and released record the calls; the lock manager  *)
(* itself never reads them.                                                *)
(***************************************************************************)
EXTENDS LockState, Transactions, Integers

VARIABLES
  txn,             \* contents of each transaction, fixed by the environment
  lock_table,      \* lock_table_
  txn_info,        \* the ids in txn_info_
  num_waiting_for, \* TxnInfo::num_waiting_for
  keys,            \* TxnInfo::keys
  num_locked_keys, \* num_locked_keys_
  arrived,         \* the copies <<t, h>> AcquireLocks was called with
  ahead,           \* ahead[<<t, h>>]: the active txns that had arrived at h before t
  dispatched,      \* returned as ready, not yet released
  released

table_vars == <<lock_table, txn_info, num_waiting_for, keys, num_locked_keys>>
vars == <<txn, table_vars, arrived, ahead, dispatched, released>>

Copy == TxnId \X Region

TypeOK ==
  /\ txn \in [TxnId -> Transaction]
  /\ lock_table \in [Lock -> LockStates]
  /\ txn_info \subseteq TxnId
  /\ num_waiting_for \in [TxnId -> Nat]
  /\ keys \in [TxnId -> SUBSET Lock]
  /\ num_locked_keys \in Nat
  /\ arrived \subseteq Copy
  /\ ahead \in [Copy -> SUBSET TxnId]
  /\ dispatched \subseteq txn_info
  /\ released \subseteq TxnId

Init ==
  /\ txn \in [TxnId -> Transaction]
  /\ lock_table = [l \in Lock |-> FreeLock]
  /\ txn_info = {}
  /\ num_waiting_for = [t \in TxnId |-> 0]
  /\ keys = [t \in TxnId |-> {}]
  /\ num_locked_keys = 0
  /\ arrived = {}
  /\ ahead = [c \in Copy |-> {}]
  /\ dispatched = {}
  /\ released = {}

\* The table after t asked for its locks of region h.
TableAfterAcquire(t, h) ==
  [l \in Lock |-> IF l \in LocksAt(txn[t], h)
                  THEN Acquire(lock_table[l], t, Mode(txn[t], l))
                  ELSE lock_table[l]]

\* The locks of region h that t got at once.
GrantedAt(t, h) ==
  {l \in LocksAt(txn[t], h) : t \in TableAfterAcquire(t, h)[l].holders}

\* Mutant: every copy resets the entry.
WaitingForFromScratch(t) == NumRequiredLocks(txn[t])

\* try_emplace: a new entry waits for all of the transaction's locks.
WaitingFor(t) ==
  IF t \in txn_info THEN num_waiting_for[t] ELSE NumRequiredLocks(txn[t])

\* Mutant: every lock asked for counts as newly locked.
NewlyLockedAll(t, h) == LocksAt(txn[t], h)

\* The locks of region h that t's requests take out of UNLOCKED.
NewlyLocked(t, h) == {l \in LocksAt(txn[t], h) : lock_table[l].mode = "UNLOCKED"}

ActiveAt(h) == {v \in TxnId \ released : <<v, h>> \in arrived}

AcquireLocks(t, h) ==
  /\ h \in InvolvedReplicas(txn[t])
  /\ <<t, h>> \notin arrived
  /\ lock_table' = TableAfterAcquire(t, h)
  /\ txn_info' = txn_info \cup {t}
  /\ num_waiting_for' =
       [num_waiting_for EXCEPT ![t] = WaitingFor(t) - Cardinality(GrantedAt(t, h))]
  /\ keys' = [keys EXCEPT ![t] = @ \cup LocksAt(txn[t], h)]
  /\ num_locked_keys' = num_locked_keys + Cardinality(NewlyLocked(t, h))
  /\ dispatched' = dispatched \cup (IF num_waiting_for'[t] = 0 THEN {t} ELSE {})
  /\ arrived' = arrived \cup {<<t, h>>}
  /\ ahead' = [ahead EXCEPT ![<<t, h>>] = ActiveAt(h)]
  /\ UNCHANGED <<txn, released>>

TableAfterRelease(t) ==
  [l \in Lock |-> IF l \in keys[t] THEN Release(lock_table[l], t) ELSE lock_table[l]]

\* Mutant: the remaining holders are reported as new ones.
GrantedByAllHolders(t, u) == {l \in keys[t] : u \in TableAfterRelease(t)[l].holders}

\* The locks that pass to u when t releases its own.
GrantedBy(t, u) ==
  {l \in keys[t] : u \in TableAfterRelease(t)[l].holders \ lock_table[l].holders}

ReleaseLocks(t) ==
  /\ t \in dispatched
  /\ lock_table' = TableAfterRelease(t)
  /\ txn_info' = txn_info \ {t}
  /\ num_waiting_for' =
       [u \in TxnId |-> IF u = t THEN 0
                        ELSE num_waiting_for[u] - Cardinality(GrantedBy(t, u))]
  /\ keys' = [keys EXCEPT ![t] = {}]
  /\ num_locked_keys' =
       num_locked_keys - Cardinality({l \in keys[t] :
                                        /\ TableAfterRelease(t)[l].mode = "UNLOCKED"
                                        /\ lock_table[l].mode # "UNLOCKED"})
  /\ dispatched' = (dispatched \ {t}) \cup
                     {u \in txn_info \ {t} : /\ GrantedBy(t, u) # {}
                                             /\ num_waiting_for'[u] = 0}
  /\ released' = released \cup {t}
  /\ UNCHANGED <<txn, arrived, ahead>>

Next == \E t \in TxnId : (\E h \in Region : AcquireLocks(t, h)) \/ ReleaseLocks(t)

Spec == Init /\ [][Next]_vars
-----------------------------------------------------------------------------
(***************************************************************************)
(* Two transactions that disagree on a lock are never with the workers at  *)
(* the same time (the workers touch storage without further latching).     *)
(***************************************************************************)
MutualExclusion ==
  \A t, u \in dispatched : t # u => \A l \in Lock : ~ConflictOn(txn[t], txn[u], l)

LockedLocks == {l \in Lock : lock_table[l].mode # "UNLOCKED"}

(***************************************************************************)
(* The counter reported to clients in the statistics is the number of      *)
(* locks in use: the increments of AcquireLocks and the decrements of      *)
(* ReleaseLocks balance over every hand-over of a lock.                    *)
(***************************************************************************)
NumLockedKeysExact ==
  IsFiniteSet(LockedLocks) /\ num_locked_keys = Cardinality(LockedLocks)

ModesAt(l) ==
  [t \in TxnId |-> IF l \in LocksAt(txn[t], l[2]) THEN Mode(txn[t], l) ELSE "READ"]

AheadAt(h) == [t \in TxnId |-> ahead[<<t, h>>]]

\* The active transactions that asked for lock l.
Members(l) == {t \in ActiveAt(l[2]) : l \in LocksAt(txn[t], l[2])}

HeldBy(t) == {l \in Lock : t \in lock_table[l].holders}

(***************************************************************************)
(* Every lock's queue is in arrival order, its holders fit together and    *)
(* nobody waits who could hold it.                                         *)
(***************************************************************************)
QueuesConsistent ==
  \A l \in Lock : Consistent(lock_table[l], ModesAt(l), AheadAt(l[2]), Members(l))

(***************************************************************************)
(* TxnInfo and the table agree: num_waiting_for counts down exactly the    *)
(* locks not held, over AcquireLocks calls and hand-overs, and reaching    *)
(* zero is what reports the transaction.                                   *)
(***************************************************************************)
CountsExact ==
  /\ \A t \in txn_info :
        /\ num_waiting_for[t] + Cardinality(HeldBy(t)) = NumRequiredLocks(txn[t])
        /\ keys[t] = {l \in Lock : t \in Members(l)}
  /\ \A t \in TxnId \ txn_info : num_waiting_for[t] = 0 /\ keys[t] = {}
  /\ dispatched = {t \in txn_info : num_waiting_for[t] = 0}

(***************************************************************************)
(* The entries of txn_info_ are the active transactions: one is never      *)
(* released before its last copy has arrived, so that no late copy can     *)
(* recreate its entry.                                                     *)
(***************************************************************************)
EntriesExact ==
  /\ txn_info = {t \in TxnId \ released : \E h \in Region : <<t, h>> \in arrived}
  /\ \A c \in arrived : c[2] \in InvolvedReplicas(txn[c[1]])
  /\ \A t \in released : \A h \in InvolvedReplicas(txn[t]) : <<t, h>> \in arrived
  /\ \A c \in Copy : \A v \in ahead[c] : <<v, c[2]>> \in arrived

IInv == TypeOK /\ QueuesConsistent /\ CountsExact /\ EntriesExact /\ NumLockedKeysExact

(***************************************************************************)
(* Every call of AcquireLocks and ReleaseLocks reports as ready exactly    *)
(* the transactions that the arrival order allows to run: none early, none *)
(* late, none twice.                                                       *)
(***************************************************************************)
Promise == INSTANCE LockOrder
ImplementsLockOrder == Promise!Spec

(***************************************************************************)
(* If the copies reach every region in one order of the transactions, as   *)
(* the multi-home orderer arranges, then among transactions whose copies   *)
(* have all arrived there is always one that the workers can finish.       *)
(***************************************************************************)
OneOrder(rank) ==
  \A c \in arrived : c[1] \notin released =>
     \A v \in ahead[c] \ released : rank[v] < rank[c[1]]

NoDeadlockInOneOrder ==
  (/\ txn_info # {}
   /\ \A t \in txn_info : Promise!AllArrived(t) /\ Promise!Grantable(txn[t])
   /\ \E rank \in [TxnId -> 1 .. Cardinality(TxnId)] : OneOrder(rank))
  => dispatched # {}

(***************************************************************************)
(* AcquireLocks returns "true if all locks are acquired"                   *)
(* (rma_lock_manager.h:79): a transaction that holds every lock it will    *)
(* ever ask for is with the workers.  It fails for a remaster to the       *)
(* region that already is the master.                                      *)
(***************************************************************************)
AllLocksMeansReady ==
  \A t \in txn_info :
     Promise!AllArrived(t) /\ HeldBy(t) = LocksOf(txn[t]) => t \in dispatched
=============================================================================
