----------------------- MODULE RMARefinementProofs -----------------------
(***************************************************************************)
(* The remaster-aware lock manager implements LockOrder, for any numbers   *)
(* of transactions, keys and regions.                                      *)
(***************************************************************************)
EXTENDS RMALockManagerProofs

\* The transactions reported ready are those that the arrival order allows to run.
Ready == dispatched = {t \in TxnId : Promise!CanRun(t)}

\* LockOrder uses the operators of Transactions.
LEMMA SameOperators ==
  /\ \A d : Promise!Keys(d) = Keys(d) /\ Promise!InvolvedReplicas(d) = InvolvedReplicas(d)
  /\ \A c, d, l : Promise!ConflictOn(c, d, l) <=> ConflictOn(c, d, l)
<1>1. \A d : /\ Promise!IsRemaster(d) <=> IsRemaster(d)
             /\ Promise!Keys(d) = Keys(d)
  BY SMTT(30) DEF Promise!IsRemaster, IsRemaster, Promise!Keys, Keys
<1>2. \A d : Promise!InvolvedReplicas(d) = InvolvedReplicas(d)
  BY <1>1, SMTT(30) DEF Promise!InvolvedReplicas, InvolvedReplicas
<1>3. \A d, h : Promise!LocksAt(d, h) = LocksAt(d, h)
  BY <1>1 DEF Promise!LocksAt, LocksAt
<1>4. \A d : Promise!LocksOf(d) = LocksOf(d)
  BY <1>2, <1>3, SMTT(30) DEF Promise!LocksOf, LocksOf
<1>5. \A d, l : Promise!Mode(d, l) = Mode(d, l)
  BY SMTT(30) DEF Promise!Mode, Mode
<1> QED
  BY <1>1, <1>2, <1>4, <1>5, SMTT(30) DEF Promise!ConflictOn, ConflictOn

\* A member of a lock that asked before t and disagrees with t blocks it.
LEMMA AheadBlocks ==
  ASSUME IInv, NEW l \in Lock, NEW t \in Members(l), NEW v \in Members(l),
         v \in AheadAt(l[2])[t],
         ModesAt(l)[t] = "WRITE" \/ ModesAt(l)[v] = "WRITE"
  PROVE  /\ l[2] \in InvolvedReplicas(txn[t])
         /\ Promise!Blocks(v, t, l[2])
<1>1. t \in TxnId /\ v \in TxnId /\ txn[t] \in Transaction /\ txn[v] \in Transaction
  BY HoldersAreMembers, SMTT(30) DEF IInv, TypeOK
<1>2. /\ v \notin released /\ l \in LocksAt(txn[t], l[2]) /\ l \in LocksAt(txn[v], l[2])
      /\ <<t, l[2]>> \in arrived /\ <<v, l[2]>> \in arrived
  BY SMTT(30) DEF Members, ActiveAt
<1>3. l[2] \in InvolvedReplicas(txn[t]) /\ l[2] \in InvolvedReplicas(txn[v])
  BY <1>2, SMTT(30) DEF IInv, EntriesExact
<1>4. l \in LocksOf(txn[t]) /\ l \in LocksOf(txn[v])
  BY <1>1, <1>2, <1>3, LocksOfShape, SMTT(30)
<1>5. Mode(txn[t], l) = "WRITE" \/ Mode(txn[v], l) = "WRITE"
  BY <1>1, <1>2, SMTT(30) DEF ModesAt
<1>6. ConflictOn(txn[v], txn[t], l)
  BY <1>4, <1>5, SMTT(30) DEF ConflictOn
<1>7. v \in ahead[<<t, l[2]>>]
  BY <1>1, SMTT(30) DEF AheadAt
<1>8. PICK k \in Keys(txn[t]) : l = <<k, l[2]>>
  BY <1>2, SMTT(30) DEF LocksAt
<1> QED
  BY <1>2, <1>3, <1>6, <1>7, <1>8, SameOperators, SMTT(30) DEF Promise!Blocks

\* A transaction that waits for a lock is blocked by one that asked before it.
LEMMA WaiterBlocked ==
  ASSUME IInv, NEW l \in Lock, NEW t \in Members(l), t \notin lock_table[l].holders
  PROVE  \E v \in Members(l) : /\ v \in AheadAt(l[2])[t]
                               /\ ModesAt(l)[t] = "WRITE" \/ ModesAt(l)[v] = "WRITE"
<1> DEFINE s == lock_table[l]
           m == ModesAt(l)
           a == AheadAt(l[2])
           A == Members(l)
<1>1. s \in LockStates /\ Consistent(s, m, a, A)
  BY DEF IInv, TypeOK, QueuesConsistent
<1> HIDE DEF s, m, a, A
<1>2. Len(s.waiters) \in Nat /\ s.waiters \in Seq(Waiter)
  BY <1>1, SMTT(30) DEF LockStates
<1>3. t \in Queued(s)
  BY <1>1, SMTT(30) DEF Consistent, s, A
<1>4. PICK i \in 1 .. Len(s.waiters) : s.waiters[i].txn = t
  BY <1>3, SMTT(30) DEF Queued
<1>5. s.waiters # <<>> /\ 1 \in 1 .. Len(s.waiters)
  BY <1>2, <1>4, SMTT(30)
<1>6. a[t] \cap A = s.holders \cup {s.waiters[j].txn : j \in 1 .. (i - 1)}
  BY <1>1, <1>4, SMTT(30) DEF Consistent, InOrder
<1>7. m[t] = s.waiters[i].mode /\ m[s.waiters[1].txn] = s.waiters[1].mode
  BY <1>1, <1>4, <1>5, SMTT(30) DEF Consistent, QueueFits
<1>8. s.mode = "WRITE" \/ (s.mode = "READ" /\ s.waiters[1].mode = "WRITE")
  BY <1>1, <1>5, SMTT(30) DEF Consistent, QueueFits
<1>9. PICK u \in s.holders : m[u] = s.mode
  BY <1>1, <1>8, SMTT(30) DEF Consistent, HoldersFit
<1>10. \E v \in A : v \in a[t] /\ (m[t] = "WRITE" \/ m[v] = "WRITE")
  <2>1. CASE s.mode = "WRITE"
    BY <1>6, <1>9, <2>1, SMTT(30)
  <2>2. CASE s.waiters[1].mode = "WRITE" /\ i = 1
    BY <1>6, <1>7, <1>9, <2>2, SMTT(30)
  <2>3. CASE s.waiters[1].mode = "WRITE" /\ i # 1
    <3>1. 1 \in 1 .. (i - 1)
      BY <1>2, <1>4, <2>3, SMTT(30)
    <3>2. s.waiters[1].txn \in a[t] \cap A
      BY <1>6, <3>1, SMTT(30)
    <3> QED
      BY <1>7, <2>3, <3>2, SMTT(30)
  <2> QED
    BY <1>8, <2>1, <2>2, <2>3, SMTT(30)
<1> QED
  BY <1>10, SMTT(30) DEF m, a, A

LEMMA IInvReady == IInv => Ready
<1> SUFFICES ASSUME IInv PROVE Ready
  OBVIOUS
<1>1. ASSUME NEW t \in dispatched PROVE t \in TxnId /\ Promise!CanRun(t)
  <2>1. /\ t \in TxnId /\ t \in txn_info /\ t \notin released /\ txn[t] \in Transaction
        /\ \A g \in InvolvedReplicas(txn[t]) : <<t, g>> \in arrived
    BY DispatchedComplete, SMTT(30)
  <2>2. Promise!Grantable(txn[t])
    <3>1. HeldBy(t) = LocksOf(txn[t]) /\ num_waiting_for[t] = 0
      BY DispatchedHoldAll, SMTT(30) DEF IInv, CountsExact
    <3>2. num_waiting_for[t] + Cardinality(HeldBy(t)) = NumRequiredLocks(txn[t])
      BY <2>1, SMTT(30) DEF IInv, CountsExact
    <3>3. Cardinality(HeldBy(t)) \in Nat
      BY <2>1, HeldShape, SMTT(30)
    <3> QED
      BY <2>1, <3>1, <3>2, <3>3, GrantableCount, SMTT(30)
  <2>3. ASSUME NEW h \in InvolvedReplicas(txn[t]), NEW v \in TxnId, Promise!Blocks(v, t, h)
        PROVE  FALSE
    <3>1. /\ v \in ahead[<<t, h>>] /\ v \notin released
          /\ \E k \in Keys(txn[t]) : ConflictOn(txn[v], txn[t], <<k, h>>)
      BY <2>3, SameOperators, SMTT(30) DEF Promise!Blocks
    <3>2. PICK k \in Keys(txn[t]) : ConflictOn(txn[v], txn[t], <<k, h>>)
      BY <3>1, SMTT(30)
    <3> DEFINE l == <<k, h>>
    <3>3. l[2] = h
      OBVIOUS
    <3>4. ConflictOn(txn[v], txn[t], l)
      BY <3>2, SMTT(30)
    <3> HIDE DEF l
    <3>5. txn[v] \in Transaction
      BY SMTT(30) DEF IInv, TypeOK
    <3>6. /\ l \in Lock /\ l \in LocksOf(txn[t])
          /\ l \in LocksAt(txn[t], h) /\ l \in LocksAt(txn[v], h)
      BY <2>1, <3>3, <3>4, <3>5, LocksOfShape, SMTT(30) DEF ConflictOn
    <3>7. t \in lock_table[l].holders
      BY <3>6, DispatchedHoldAll, SMTT(30) DEF HeldBy
    <3>8. h \in Region /\ <<t, h>> \in Copy /\ <<v, h>> \in arrived
      <4>1. h \in Region
        BY <2>1, InvolvedShape, SMTT(30)
      <4>2. <<t, h>> \in Copy /\ <<t, h>>[2] = h
        BY <2>1, <4>1, SMTT(30) DEF Copy
      <4> QED
        BY <3>1, <4>1, <4>2, SMTT(30) DEF IInv, EntriesExact
    <3>9. v \in Members(l)
      BY <3>1, <3>3, <3>6, <3>8, SMTT(30) DEF Members, ActiveAt
    <3>10. Consistent(lock_table[l], ModesAt(l), AheadAt(l[2]), Members(l))
      BY <3>6, SMTT(30) DEF IInv, QueuesConsistent
    <3>11. v \in AheadAt(l[2])[t]
      BY <2>1, <3>1, <3>3, SMTT(30) DEF AheadAt
    <3>12. v \in lock_table[l].holders /\ v # t
      BY <3>7, <3>9, <3>10, <3>11, SMTT(30) DEF Consistent, InOrder
    <3>13. ModesAt(l)[t] = Mode(txn[t], l) /\ ModesAt(l)[v] = Mode(txn[v], l)
      BY <2>1, <3>3, <3>6, SMTT(30) DEF ModesAt
    <3>14. lock_table[l].mode = "WRITE"
      BY <3>4, <3>7, <3>10, <3>12, <3>13, ZenonT(30) DEF Consistent, HoldersFit, ConflictOn
    <3> QED
      BY <3>7, <3>10, <3>12, <3>14, SMTT(30) DEF Consistent, HoldersFit
  <2> QED
    BY <2>1, <2>2, <2>3, SameOperators, SMTT(30) DEF Promise!CanRun, Promise!AllArrived
<1>2. ASSUME NEW t \in TxnId, Promise!CanRun(t) PROVE t \in dispatched
  <2>1. /\ txn[t] \in Transaction /\ t \notin released
        /\ \A g \in InvolvedReplicas(txn[t]) : <<t, g>> \in arrived
        /\ Cardinality(LocksOf(txn[t])) = NumRequiredLocks(txn[t])
        /\ \A g \in InvolvedReplicas(txn[t]), v \in TxnId : ~Promise!Blocks(v, t, g)
    <3>1. txn[t] \in Transaction
      BY SMTT(30) DEF IInv, TypeOK
    <3> QED
      BY <1>2, <3>1, GrantableCount, SameOperators, SMTT(30) DEF Promise!CanRun, Promise!AllArrived
  <2>2. t \in txn_info
    <3>1. PICK k \in Keys(txn[t]) : TRUE
      BY <2>1, ContentsShape, SMTT(30)
    <3>2. txn[t].master[k] \in InvolvedReplicas(txn[t]) /\ txn[t].master[k] \in Region
      BY <2>1, ContentsShape, SMTT(30) DEF InvolvedReplicas
    <3> QED
      BY <2>1, <3>2, SMTT(30) DEF IInv, EntriesExact
  <2>3. ASSUME NEW l \in LocksOf(txn[t]) PROVE l \in HeldBy(t)
    <3>1. l \in Lock /\ l[2] \in InvolvedReplicas(txn[t]) /\ l \in LocksAt(txn[t], l[2])
      BY <2>1, LocksOfShape, SMTT(30)
    <3>2. t \in Members(l)
      BY <2>1, <3>1, SMTT(30) DEF Members, ActiveAt
    <3>3. t \in lock_table[l].holders
      <4> SUFFICES ASSUME t \notin lock_table[l].holders PROVE FALSE
        OBVIOUS
      <4>1. PICK v \in Members(l) : /\ v \in AheadAt(l[2])[t]
                                    /\ ModesAt(l)[t] = "WRITE" \/ ModesAt(l)[v] = "WRITE"
        BY <3>1, <3>2, WaiterBlocked, SMTT(30)
      <4>2. v \in TxnId
        BY <3>1, HoldersAreMembers, SMTT(30)
      <4>3. Promise!Blocks(v, t, l[2])
        BY <3>1, <3>2, <4>1, AheadBlocks, SMTT(30)
      <4> QED
        BY <2>1, <3>1, <4>2, <4>3, SMTT(30)
    <3> QED
      BY <3>1, <3>3, SMTT(30) DEF HeldBy
  <2>4. HeldBy(t) = LocksOf(txn[t]) /\ Cardinality(HeldBy(t)) \in Nat
    BY <2>3, HeldShape, SMTT(30)
  <2>5. num_waiting_for[t] + Cardinality(HeldBy(t)) = NumRequiredLocks(txn[t])
    BY <2>2, SMTT(30) DEF IInv, CountsExact
  <2>6. num_waiting_for[t] = 0
    BY <2>1, <2>4, <2>5, SMTT(30) DEF IInv, TypeOK
  <2> QED
    BY <2>2, <2>6, SMTT(30) DEF IInv, CountsExact
<1> QED
  BY <1>1, <1>2, SMTT(30) DEF Ready

\* Each call is the corresponding step of LockOrder.
LEMMA StepRefines == IInv /\ Ready' /\ [Next]_vars => [Promise!Next]_(Promise!vars)
<1> SUFFICES ASSUME IInv, Ready', [Next]_vars PROVE [Promise!Next]_(Promise!vars)
  OBVIOUS
<1>1. ASSUME NEW t \in TxnId, NEW h \in Region, AcquireLocks(t, h) PROVE Promise!Next
  <2>1. Promise!Arrive(t, h)
    <3>1. /\ h \in Promise!InvolvedReplicas(txn[t])
          /\ <<t, h>> \notin arrived
          /\ arrived' = arrived \cup {<<t, h>>}
          /\ ahead' = [ahead EXCEPT ![<<t, h>>] = Promise!ActiveAt(h)]
          /\ UNCHANGED <<txn, released>>
      BY <1>1, SameOperators, SMTT(30) DEF AcquireLocks, ActiveAt, Promise!ActiveAt
    <3> QED
      BY <3>1, SMTT(30) DEF Ready, Promise!Arrive
  <2> QED
    BY <2>1, SMTT(30) DEF Promise!Next
<1>2. ASSUME NEW t \in TxnId, ReleaseLocks(t) PROVE Promise!Next
  <2>1. Promise!Finish(t)
    BY <1>2, ZenonT(30) DEF ReleaseLocks, Ready, Promise!Finish
  <2> QED
    BY <2>1, SMTT(30) DEF Promise!Next
<1>3. CASE UNCHANGED vars
  BY <1>3, SMTT(30) DEF vars, Promise!vars
<1> QED
  BY <1>1, <1>2, <1>3, SMTT(30) DEF Next

(***************************************************************************)
(* AcquireLocks and ReleaseLocks together report a transaction ready       *)
(* exactly when the order in which the copies arrived allows it to run:    *)
(* what every region executes is a function of its logs.                   *)
(***************************************************************************)
THEOREM Refinement == Spec => ImplementsLockOrder
<1>1. Init => Promise!Init
  BY DEF Init, Promise!Init, Copy, Promise!Copy
<1>2. Spec => Promise!Spec
  BY <1>1, Invariance, IInvReady, StepRefines, PTL DEF Spec, Promise!Spec
<1> QED
  BY <1>2, SMTT(30) DEF ImplementsLockOrder
=============================================================================
