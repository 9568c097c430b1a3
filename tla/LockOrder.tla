------------------------------ MODULE LockOrder ------------------------------
(***************************************************************************)
(* What the scheduler expects of a deterministic lock manager, with no     *)
(* queues and no counters.  The copies of a transaction (the transaction   *)
(* itself when it is single-home, one lock-only txn per involved region    *)
(* otherwise) reach the lock manager one by one.  A transaction runs as    *)
(* soon as all of its copies have arrived and every transaction that       *)
(* arrived before it, and conflicts with it on a lock, is released.        *)
(* The transactions handed to the workers are therefore a function of the  *)
(* arrival order and of what has been released: the determinism that lets  *)
(* every region execute the log on its own.                                *)
(*                                                                         *)
(* RMALockManager and DDRLockManager are the implementations.              *)
(***************************************************************************)
EXTENDS Transactions

CONSTANT TxnId

VARIABLES
  txn,        \* contents of each transaction, fixed by the environment
  arrived,    \* the copies <<t, h>> seen so far
  ahead,      \* ahead[<<t, h>>]: the active txns that had arrived at h before t
  dispatched, \* handed to a worker, not yet released
  released

vars == <<txn, arrived, ahead, dispatched, released>>

Copy == TxnId \X Region

AllArrived(t) == \A h \in InvolvedReplicas(txn[t]) : <<t, h>> \in arrived

\* Both lock managers count two locks for a remaster (rma_lock_manager.cpp:115,
\* ddr_lock_manager.cpp:41), also when the new master is the master the
\* metadata names and only one lock exists: such a transaction never runs.
Grantable(d) == IsRemaster(d) => \A k \in Keys(d) : d.master[k] # d.new_master

\* v stands before t in the queue of a lock of region h they disagree on.
Blocks(v, t, h) ==
  /\ v \in ahead[<<t, h>>] \ released
  /\ \E k \in Keys(txn[t]) : ConflictOn(txn[v], txn[t], <<k, h>>)

CanRun(t) ==
  /\ t \notin released
  /\ AllArrived(t)
  /\ Grantable(txn[t])
  /\ \A h \in InvolvedReplicas(txn[t]), v \in TxnId : ~Blocks(v, t, h)

Init ==
  /\ txn \in [TxnId -> Transaction]
  /\ arrived = {}
  /\ ahead = [c \in Copy |-> {}]
  /\ dispatched = {}
  /\ released = {}

\* The active transactions at region h.
ActiveAt(h) == {v \in TxnId \ released : <<v, h>> \in arrived}

Arrive(t, h) ==
  /\ h \in InvolvedReplicas(txn[t])
  /\ <<t, h>> \notin arrived
  /\ arrived' = arrived \cup {<<t, h>>}
  /\ ahead' = [ahead EXCEPT ![<<t, h>>] = ActiveAt(h)]
  /\ UNCHANGED <<txn, released>>
  /\ dispatched' = {u \in TxnId : CanRun(u)'}

Finish(t) ==
  /\ t \in dispatched
  /\ released' = released \cup {t}
  /\ UNCHANGED <<txn, arrived, ahead>>
  /\ dispatched' = {u \in TxnId : CanRun(u)'}

Next == \E t \in TxnId : (\E h \in Region : Arrive(t, h)) \/ Finish(t)

Spec == Init /\ [][Next]_vars
=============================================================================
