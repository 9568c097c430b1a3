------------------------- MODULE RMALockManagerProofs -------------------------
(***************************************************************************)
(* Theorems about the remaster-aware lock manager, for any numbers of      *)
(* transactions, keys and regions: the inductive invariant IInv and mutual *)
(* exclusion.                                                              *)
(***************************************************************************)
EXTENDS RMALockManager, LockStateProofs, FiniteSetTheorems

-----------------------------------------------------------------------------
(* Facts about the contents of transactions. *)

\* The shape of a transaction's contents.
LEMMA ContentsShape ==
  ASSUME NEW d \in Transaction
  PROVE  /\ Keys(d) \subseteq Key /\ Keys(d) # {} /\ IsFiniteSet(Keys(d))
         /\ \A k \in Keys(d) : d.master[k] \in Region /\ d.type[k] \in {"READ", "WRITE"}
         /\ d.new_master \in Region \cup {NoRegion}
         /\ IsRemaster(d) => d.new_master \in Region /\ \E k \in Key : Keys(d) = {k}
<1>1. PICK K \in SUBSET Key : K # {} /\ IsFiniteSet(K) /\ d \in Contents(K)
  BY TransactionAssumption
<1>2. Keys(d) = K
  BY <1>1 DEF Contents, Keys
<1>3. \A k \in K : d.master[k] \in Region /\ d.type[k] \in {"READ", "WRITE"}
  BY <1>1 DEF Contents, KeyType
<1>4. d.new_master \in Region \cup {NoRegion}
  BY <1>1 DEF Contents
<1>5. IsRemaster(d) => d.new_master \in Region /\ \E k \in Key : Keys(d) = {k}
  BY <1>4, TransactionAssumption DEF IsRemaster
<1> QED
  BY <1>1, <1>2, <1>3, <1>4, <1>5, SMTT(30)

\* Where the locks of a transaction are.
LEMMA LocksAtShape ==
  ASSUME NEW d \in Transaction, NEW h \in Region
  PROVE  /\ LocksAt(d, h) \subseteq Lock
         /\ \A l \in LocksAt(d, h) : l[2] = h /\ Mode(d, l) \in {"READ", "WRITE"}
         /\ h \in InvolvedReplicas(d) => LocksAt(d, h) # {} /\ LocksAt(d, h) \subseteq LocksOf(d)
<1>1. \A l \in LocksAt(d, h) : \E k \in Keys(d) : l = <<k, h>>
  BY DEF LocksAt
<1>2. \A k \in Keys(d) : k \in Key /\ d.type[k] \in {"READ", "WRITE"}
  BY ContentsShape
<1>3. LocksAt(d, h) \subseteq Lock
  BY <1>1, <1>2 DEF Lock
<1>4. \A l \in LocksAt(d, h) : l[2] = h /\ Mode(d, l) \in {"READ", "WRITE"}
  BY <1>1, <1>2 DEF Mode
<1>5. ASSUME h \in InvolvedReplicas(d) PROVE LocksAt(d, h) # {}
  <2>1. CASE IsRemaster(d)
    <3>1. PICK k \in Keys(d) : TRUE
      BY ContentsShape
    <3>2. <<k, h>> \in LocksAt(d, h)
      BY <2>1 DEF LocksAt
    <3> QED
      BY <3>2
  <2>2. CASE ~IsRemaster(d)
    BY <1>5, <2>2, ZenonT(30) DEF LocksAt, InvolvedReplicas
  <2> QED
    BY <2>1, <2>2
<1> QED
  BY <1>3, <1>4, <1>5, SMTT(30) DEF LocksOf

LEMMA InvolvedShape ==
  ASSUME NEW d \in Transaction
  PROVE  InvolvedReplicas(d) \subseteq Region
BY ContentsShape DEF InvolvedReplicas

\* A lock of the transaction is a lock of its copy for the lock's region.
LEMMA LocksOfShape ==
  ASSUME NEW d \in Transaction, NEW l
  PROVE  l \in LocksOf(d) <=> /\ l \in Lock
                              /\ l[2] \in InvolvedReplicas(d)
                              /\ l \in LocksAt(d, l[2])
<1>1. \A h \in InvolvedReplicas(d) : h \in Region
  BY InvolvedShape
<1>2. ASSUME l \in LocksOf(d)
      PROVE  l \in Lock /\ l[2] \in InvolvedReplicas(d) /\ l \in LocksAt(d, l[2])
  <2>1. PICK h \in InvolvedReplicas(d) : l \in LocksAt(d, h)
    BY <1>2 DEF LocksOf
  <2> QED
    BY <2>1, <1>1, LocksAtShape, SMTT(30)
<1>3. ASSUME l[2] \in InvolvedReplicas(d), l \in LocksAt(d, l[2])
      PROVE  l \in LocksOf(d)
  BY <1>3 DEF LocksOf
<1> QED
  BY <1>2, <1>3

\* AcquireLocks never waits for fewer locks than the transaction asks for.
LEMMA EnoughRequired ==
  ASSUME NEW d \in Transaction
  PROVE  /\ IsFiniteSet(LocksOf(d))
         /\ NumRequiredLocks(d) \in Nat
         /\ Cardinality(LocksOf(d)) <= NumRequiredLocks(d)
<1>1. CASE IsRemaster(d)
  <2>1. PICK k \in Key : Keys(d) = {k}
    BY <1>1, ContentsShape
  <2> DEFINE x == <<k, d.master[k]>>
             y == <<k, d.new_master>>
  <2>2. LocksOf(d) = {x} \cup {y}
    BY <1>1, <2>1 DEF LocksOf, LocksAt, InvolvedReplicas
  <2> HIDE DEF x, y
  <2>3. IsFiniteSet({x}) /\ Cardinality({x}) = 1
    BY FS_Singleton, ZenonT(30)
  <2>4. /\ IsFiniteSet({x} \cup {y})
        /\ Cardinality({x} \cup {y})
             = IF y \in {x} THEN Cardinality({x}) ELSE Cardinality({x}) + 1
    BY <2>3, FS_AddElement, ZenonT(30)
  <2>5. Cardinality({x} \cup {y}) <= 2
    BY <2>3, <2>4
  <2> QED
    BY <1>1, <2>2, <2>4, <2>5, SMTT(30) DEF NumRequiredLocks
<1>2. CASE ~IsRemaster(d)
  <2> DEFINE f == [k \in Keys(d) |-> <<k, d.master[k]>>]
  <2>1. LocksOf(d) = {<<k, d.master[k]>> : k \in Keys(d)}
    BY <1>2 DEF LocksOf, LocksAt, InvolvedReplicas
  <2>2. f \in Surjection(Keys(d), LocksOf(d))
    BY <2>1 DEF Surjection
  <2>3. IsFiniteSet(LocksOf(d)) /\ Cardinality(LocksOf(d)) <= Cardinality(Keys(d))
    BY <2>2, ContentsShape, FS_Surjection, SMTT(30)
  <2>4. Cardinality(Keys(d)) \in Nat
    BY ContentsShape, FS_CardinalityType
  <2> QED
    BY <1>2, <2>3, <2>4, SMTT(30) DEF NumRequiredLocks
<1> QED
  BY <1>1, <1>2

\* It asks for as many locks as it waits for, unless it is a remaster to the
\* master its metadata already names.
LEMMA GrantableCount ==
  ASSUME NEW d \in Transaction
  PROVE  Promise!Grantable(d) <=> Cardinality(LocksOf(d)) = NumRequiredLocks(d)
<1>1. Promise!Grantable(d) <=> (IsRemaster(d) => \A k \in Keys(d) : d.master[k] # d.new_master)
  BY DEF Promise!Grantable, Promise!IsRemaster, Promise!Keys, IsRemaster, Keys
<1>2. CASE IsRemaster(d)
  <2>1. PICK k \in Key : Keys(d) = {k}
    BY <1>2, ContentsShape
  <2> DEFINE x == <<k, d.master[k]>>
             y == <<k, d.new_master>>
  <2>2. LocksOf(d) = {x} \cup {y}
    BY <1>2, <2>1 DEF LocksOf, LocksAt, InvolvedReplicas
  <2>3. x = y <=> d.master[k] = d.new_master
    OBVIOUS
  <2> HIDE DEF x, y
  <2>4. IsFiniteSet({x}) /\ Cardinality({x}) = 1
    BY FS_Singleton, ZenonT(30)
  <2>5. Cardinality({x} \cup {y}) = IF y \in {x} THEN Cardinality({x}) ELSE Cardinality({x}) + 1
    BY <2>4, FS_AddElement, ZenonT(30)
  <2>6. NumRequiredLocks(d) = 2
    BY <1>2 DEF NumRequiredLocks
  <2>7. Cardinality(LocksOf(d)) = 2 <=> x # y
    BY <2>2, <2>4, <2>5, SMTT(30)
  <2> QED
    BY <1>1, <1>2, <2>1, <2>3, <2>6, <2>7, SMTT(30)
<1>3. CASE ~IsRemaster(d)
  <2> DEFINE f == [k \in Keys(d) |-> <<k, d.master[k]>>]
  <2>1. LocksOf(d) = {<<k, d.master[k]>> : k \in Keys(d)}
    BY <1>3 DEF LocksOf, LocksAt, InvolvedReplicas
  <2>2. f \in Surjection(Keys(d), LocksOf(d)) /\ f \in Injection(Keys(d), LocksOf(d))
    BY <2>1, ZenonT(30) DEF Surjection, Injection, IsInjective
  <2>3. Cardinality(LocksOf(d)) = Cardinality(Keys(d))
    BY <2>2, ContentsShape, FS_Surjection, SMTT(30)
  <2> QED
    BY <1>1, <1>3, <2>3, SMTT(30) DEF NumRequiredLocks
<1> QED
  BY <1>2, <1>3
-----------------------------------------------------------------------------
(* What the invariant says about one transaction. *)

\* The holders of a lock are members of it.
LEMMA HoldersAreMembers ==
  ASSUME IInv, NEW l \in Lock
  PROVE  /\ lock_table[l] \in LockStates
         /\ lock_table[l].holders \subseteq Members(l)
         /\ Members(l) \subseteq TxnId
BY ZenonT(30) DEF IInv, TypeOK, QueuesConsistent, Consistent, Members, ActiveAt

\* A transaction holds only locks it asked for.
LEMMA HeldShape ==
  ASSUME IInv, NEW t \in TxnId
  PROVE  /\ HeldBy(t) \subseteq LocksOf(txn[t])
         /\ IsFiniteSet(HeldBy(t))
         /\ Cardinality(HeldBy(t)) \in Nat
         /\ HeldBy(t) # {} => t \in txn_info
<1>1. txn[t] \in Transaction
  BY DEF IInv, TypeOK
<1>2. ASSUME NEW l \in HeldBy(t) PROVE l \in LocksOf(txn[t]) /\ t \in txn_info
  <2>1. l \in Lock /\ l[2] \in Region /\ t \in Members(l)
    BY HoldersAreMembers DEF HeldBy, Lock
  <2>2. t \notin released /\ <<t, l[2]>> \in arrived /\ l \in LocksAt(txn[t], l[2])
    BY <2>1 DEF Members, ActiveAt
  <2>3. l[2] \in InvolvedReplicas(txn[t]) /\ t \in txn_info
    BY <2>1, <2>2 DEF IInv, EntriesExact
  <2> QED
    BY <1>1, <2>1, <2>2, <2>3, LocksOfShape, SMTT(30)
<1>3. IsFiniteSet(HeldBy(t))
  BY <1>1, <1>2, EnoughRequired, FS_Subset, SMTT(30)
<1> QED
  BY <1>2, <1>3, FS_CardinalityType, SMTT(30)

\* A dispatched transaction holds all of its locks.
LEMMA DispatchedHoldAll ==
  ASSUME IInv, NEW t \in dispatched
  PROVE  HeldBy(t) = LocksOf(txn[t])
<1>1. t \in TxnId /\ t \in txn_info /\ txn[t] \in Transaction /\ num_waiting_for[t] = 0
  BY DEF IInv, TypeOK, CountsExact
<1>2. Cardinality(HeldBy(t)) = NumRequiredLocks(txn[t])
  BY <1>1, HeldShape, SMTT(30) DEF IInv, CountsExact
<1>3. /\ HeldBy(t) \in SUBSET LocksOf(txn[t])
      /\ IsFiniteSet(LocksOf(txn[t]))
      /\ Cardinality(LocksOf(txn[t])) <= NumRequiredLocks(txn[t])
  BY <1>1, HeldShape, EnoughRequired, SMTT(30)
<1>4. /\ Cardinality(LocksOf(txn[t])) \in Nat
      /\ Cardinality(HeldBy(t)) \in Nat
  BY <1>1, <1>3, HeldShape, FS_CardinalityType, SMTT(30)
<1>5. /\ Cardinality(HeldBy(t)) <= Cardinality(LocksOf(txn[t]))
      /\ Cardinality(LocksOf(txn[t])) = Cardinality(HeldBy(t)) => LocksOf(txn[t]) = HeldBy(t)
  BY <1>3, FS_Subset, SMTT(30)
<1> QED
  BY <1>2, <1>3, <1>4, <1>5, SMTT(30)

\* The invariant implies that conflicting transactions do not run together.
LEMMA IInvMutualExclusion == IInv => MutualExclusion
<1> SUFFICES ASSUME IInv, NEW t \in dispatched, NEW u \in dispatched, t # u,
                    NEW l \in Lock, ConflictOn(txn[t], txn[u], l)
             PROVE  FALSE
  BY DEF MutualExclusion
<1>1. l \in LocksOf(txn[t]) /\ l \in LocksOf(txn[u])
  BY DEF ConflictOn
<1>2. t \in lock_table[l].holders /\ u \in lock_table[l].holders
  BY <1>1, DispatchedHoldAll, SMTT(30) DEF HeldBy
<1>3. t \in TxnId /\ u \in TxnId /\ txn[t] \in Transaction /\ txn[u] \in Transaction
  BY DEF IInv, TypeOK
<1>4. l \in LocksAt(txn[t], l[2]) /\ l \in LocksAt(txn[u], l[2])
  BY <1>1, <1>3, LocksOfShape, SMTT(30)
<1>5. ModesAt(l)[t] = Mode(txn[t], l) /\ ModesAt(l)[u] = Mode(txn[u], l)
  BY <1>3, <1>4, SMTT(30) DEF ModesAt
<1>6. HoldersFit(lock_table[l], ModesAt(l))
  BY DEF IInv, QueuesConsistent, Consistent
<1>7. lock_table[l].mode = "WRITE"
  BY <1>2, <1>5, <1>6, SMTT(30) DEF ConflictOn, HoldersFit
<1> QED
  BY <1>2, <1>6, <1>7, SMTT(30) DEF HoldersFit
-----------------------------------------------------------------------------
(* The invariant holds initially. *)

LEMMA InitIInv == Init => IInv
<1> SUFFICES ASSUME Init PROVE IInv
  OBVIOUS
<1>1. FreeLock \in LockStates /\ FreeLock.holders = {} /\ FreeLock.mode = "UNLOCKED"
  BY DEF FreeLock, LockStates, LockMode, Waiter
<1>2. TypeOK
  BY <1>1 DEF Init, TypeOK
<1>3. \A l \in Lock : Members(l) = {}
  BY DEF Init, Members, ActiveAt
<1>4. QueuesConsistent
  BY <1>3, FreeLockConsistent, SMTT(30) DEF Init, QueuesConsistent
<1>5. CountsExact /\ EntriesExact
  BY DEF Init, CountsExact, EntriesExact
<1>6. NumLockedKeysExact
  <2>1. LockedLocks = {}
    BY <1>1, SMTT(30) DEF Init, LockedLocks
  <2> QED
    BY <2>1, FS_EmptySet, SMTT(30) DEF Init, NumLockedKeysExact
<1> QED
  BY <1>2, <1>4, <1>5, <1>6, SMTT(30) DEF IInv
-----------------------------------------------------------------------------
(* A call of AcquireLocks preserves the invariant. *)

\* The call adds t to the members of the locks it asks for, behind everyone
\* who is already there.
LEMMA AcquireMembers ==
  ASSUME IInv, NEW t \in TxnId, NEW h \in Region, AcquireLocks(t, h)
  PROVE  /\ t \notin released
         /\ \A l \in LocksAt(txn[t], h) :
               /\ l \in Lock /\ l[2] = h
               /\ t \notin Members(l)
               /\ Members(l)' = Members(l) \cup {t}
               /\ Last(t, AheadAt(h)', Members(l))
         /\ \A l \in Lock \ LocksAt(txn[t], h) : Members(l)' = Members(l)
         /\ \A l \in Lock : /\ ModesAt(l)' = ModesAt(l)
                            /\ \A u \in Members(l) : AheadAt(l[2])'[u] = AheadAt(l[2])[u]
<1>1. /\ txn[t] \in Transaction /\ txn' = txn /\ released' = released
      /\ arrived' = arrived \cup {<<t, h>>} /\ <<t, h>> \notin arrived
      /\ ahead \in [Copy -> SUBSET TxnId]
      /\ ahead' = [ahead EXCEPT ![<<t, h>>] = ActiveAt(h)]
      /\ <<t, h>> \in Copy
      /\ h \in InvolvedReplicas(txn[t])
  BY DEF IInv, TypeOK, AcquireLocks, Copy
<1>2. t \notin released
  BY <1>1 DEF IInv, EntriesExact
<1>3. \A g \in Region : ActiveAt(g)' = IF g = h THEN ActiveAt(g) \cup {t} ELSE ActiveAt(g)
  BY <1>1, <1>2, SMTT(30) DEF ActiveAt
<1>4. t \notin ActiveAt(h)
  BY <1>1 DEF ActiveAt
<1>5. \A l \in Lock : l[2] \in Region
  BY DEF Lock
<1>6. \A l \in LocksAt(txn[t], h) : l \in Lock /\ l[2] = h
  BY <1>1, LocksAtShape, SMTT(30)
<1>7. \A l \in Lock : l[2] # h => l \notin LocksAt(txn[t], h)
  BY <1>6
<1>8. \A u \in TxnId, g \in Region :
         ahead'[<<u, g>>] = IF u = t /\ g = h THEN ActiveAt(h) ELSE ahead[<<u, g>>]
  BY <1>1 DEF Copy
<1>9. ASSUME NEW l \in LocksAt(txn[t], h)
      PROVE  /\ t \notin Members(l)
             /\ Members(l)' = Members(l) \cup {t}
             /\ Last(t, AheadAt(h)', Members(l))
  <2>1. l \in Lock /\ l[2] = h
    BY <1>6
  <2>2. Members(l) \subseteq ActiveAt(h) /\ t \notin Members(l)
    BY <2>1, <1>4, SMTT(30) DEF Members
  <2>3. Members(l)' = Members(l) \cup {t}
    BY <2>1, <1>1, <1>3, SMTT(30) DEF Members
  <2>4. AheadAt(h)'[t] = ActiveAt(h) /\ \A u \in Members(l) : AheadAt(h)'[u] = ahead[<<u, h>>]
    BY <2>2, <1>8, ZenonT(30) DEF AheadAt, ActiveAt
  <2>5. \A u \in Members(l) : t \notin ahead[<<u, h>>]
    BY <2>2, <1>1, SMTT(30) DEF IInv, EntriesExact, Copy, ActiveAt
  <2> QED
    BY <2>2, <2>3, <2>4, <2>5, <1>4, ZenonT(30) DEF Last
<1>10. ASSUME NEW l \in Lock \ LocksAt(txn[t], h)
       PROVE  Members(l)' = Members(l)
  BY <1>1, <1>3, <1>5, SMTT(30) DEF Members
<1>11. ASSUME NEW l \in Lock
       PROVE  /\ ModesAt(l)' = ModesAt(l)
              /\ \A u \in Members(l) : AheadAt(l[2])'[u] = AheadAt(l[2])[u]
  <2>1. ModesAt(l)' = ModesAt(l)
    BY <1>1 DEF ModesAt
  <2>2. \A u \in Members(l) : u \in TxnId /\ <<u, l[2]>> \in arrived
    BY SMTT(30) DEF Members, ActiveAt
  <2> QED
    BY <2>1, <2>2, <1>1, <1>5, <1>8, SMTT(30) DEF AheadAt
<1> QED
  BY <1>2, <1>6, <1>9, <1>10, <1>11, SMTT(30)

\* What the call does to each lock.
LEMMA AcquireTable ==
  ASSUME IInv, NEW t \in TxnId, NEW h \in Region, AcquireLocks(t, h), NEW l \in Lock
  PROVE  /\ lock_table'[l] \in LockStates
         /\ Consistent(lock_table'[l], ModesAt(l)', AheadAt(l[2])', Members(l)')
         /\ l \in LocksAt(txn[t], h) =>
               /\ t \notin lock_table[l].holders
               /\ lock_table'[l].holders \in {lock_table[l].holders,
                                              lock_table[l].holders \cup {t}}
               /\ lock_table'[l].mode # "UNLOCKED"
         /\ l \notin LocksAt(txn[t], h) => lock_table'[l] = lock_table[l]
<1> DEFINE s == lock_table[l]
           m == ModesAt(l)'
           a == AheadAt(l[2])'
           k == Mode(txn[t], l)
<1>1. s \in LockStates /\ Consistent(s, ModesAt(l), AheadAt(l[2]), Members(l))
  BY SMTT(30) DEF IInv, TypeOK, QueuesConsistent
<1>2. Consistent(s, m, a, Members(l))
  BY <1>1, AcquireMembers, ConsistentFrame, SMTT(30)
<1>3. lock_table'[l] = IF l \in LocksAt(txn[t], h) THEN Acquire(s, t, k) ELSE s
  BY SMTT(30) DEF AcquireLocks, TableAfterAcquire
<1>4. CASE l \in LocksAt(txn[t], h)
  <2>1. txn[t] \in Transaction /\ txn' = txn
    BY DEF IInv, TypeOK, AcquireLocks
  <2>2. k \in {"READ", "WRITE"} /\ l[2] = h
    BY <1>4, <2>1, LocksAtShape, SMTT(30)
  <2>3. m[t] = k
    BY <1>4, <2>1, <2>2, SMTT(30) DEF ModesAt
  <2>4. t \notin Members(l) /\ Members(l)' = Members(l) \cup {t} /\ Last(t, a, Members(l))
    BY <1>4, <2>2, AcquireMembers, SMTT(30)
  <2> HIDE DEF s, m, a, k
  <2>5. /\ Acquire(s, t, k) \in LockStates
        /\ Consistent(Acquire(s, t, k), m, a, Members(l) \cup {t})
        /\ Acquire(s, t, k).holders \in {s.holders, s.holders \cup {t}}
    BY <1>1, <1>2, <2>2, <2>3, <2>4, AcquireConsistent, ZenonT(30)
  <2>6. Acquire(s, t, k).mode # "UNLOCKED"
    BY <1>1, <2>2, SMTT(30) DEF Acquire, AcquireReadLock, AcquireWriteLock, Hold, Enqueue, LockStates
  <2>7. t \notin s.holders
    BY <1>2, <2>4, SMTT(30) DEF Consistent
  <2> QED
    BY <1>3, <1>4, <2>4, <2>5, <2>6, <2>7, ZenonT(30) DEF s, m, a, k
<1>5. CASE l \notin LocksAt(txn[t], h)
  <2>1. Members(l)' = Members(l)
    BY <1>5, AcquireMembers, SMTT(30)
  <2> QED
    BY <1>1, <1>2, <1>3, <1>5, <2>1, SMTT(30)
<1> QED
  BY <1>4, <1>5, ZenonT(30)

\* The locks the call grants at once are new to t, and nobody else gets any.
LEMMA AcquireHeld ==
  ASSUME IInv, NEW t \in TxnId, NEW h \in Region, AcquireLocks(t, h)
  PROVE  /\ HeldBy(t)' = HeldBy(t) \cup GrantedAt(t, h)
         /\ HeldBy(t) \cap GrantedAt(t, h) = {}
         /\ \A u \in TxnId : u # t => HeldBy(u)' = HeldBy(u)
<1>1. txn[t] \in Transaction /\ LocksAt(txn[t], h) \subseteq Lock
  BY LocksAtShape, SMTT(30) DEF IInv, TypeOK
<1>2. GrantedAt(t, h) = {l \in LocksAt(txn[t], h) : t \in lock_table'[l].holders}
  BY SMTT(30) DEF GrantedAt, AcquireLocks
<1>3. \A l \in LocksAt(txn[t], h) :
         /\ t \notin lock_table[l].holders
         /\ lock_table'[l].holders \in {lock_table[l].holders,
                                        lock_table[l].holders \cup {t}}
  BY <1>1, AcquireTable, SMTT(30)
<1>4. \A l \in Lock \ LocksAt(txn[t], h) : lock_table'[l] = lock_table[l]
  BY AcquireTable, SMTT(30)
<1> QED
  BY <1>1, <1>2, <1>3, <1>4, SMTT(30) DEF HeldBy

\* num_waiting_for stays exact.
LEMMA AcquireCounts ==
  ASSUME IInv, NEW t \in TxnId, NEW h \in Region, AcquireLocks(t, h)
  PROVE  /\ num_waiting_for' \in [TxnId -> Nat]
         /\ num_waiting_for'[t] + Cardinality(HeldBy(t)') = NumRequiredLocks(txn[t])
         /\ \A u \in TxnId : u # t => num_waiting_for'[u] = num_waiting_for[u]
         /\ t \notin dispatched
<1>1. /\ txn[t] \in Transaction /\ h \in InvolvedReplicas(txn[t])
      /\ num_waiting_for \in [TxnId -> Nat]
      /\ <<t, h>> \notin arrived
  BY DEF IInv, TypeOK, AcquireLocks
<1>2. LocksAt(txn[t], h) # {} /\ LocksAt(txn[t], h) \subseteq LocksOf(txn[t])
  BY <1>1, LocksAtShape, SMTT(30)
<1>3. WaitingFor(t) \in Nat /\ WaitingFor(t) + Cardinality(HeldBy(t)) = NumRequiredLocks(txn[t])
  <2>1. CASE t \in txn_info
    BY <1>1, <2>1, SMTT(30) DEF WaitingFor, IInv, CountsExact
  <2>2. CASE t \notin txn_info
    <3>1. HeldBy(t) = {}
      BY <2>2, HeldShape, SMTT(30)
    <3> QED
      BY <1>1, <2>2, <3>1, FS_EmptySet, EnoughRequired, SMTT(30) DEF WaitingFor
  <2> QED
    BY <2>1, <2>2, SMTT(30)
<1>4. /\ HeldBy(t)' \subseteq LocksOf(txn[t])
      /\ GrantedAt(t, h) \subseteq LocksOf(txn[t])
  BY <1>2, AcquireHeld, HeldShape, SMTT(30) DEF GrantedAt
<1>5. /\ IsFiniteSet(LocksOf(txn[t]))
      /\ NumRequiredLocks(txn[t]) \in Nat
      /\ Cardinality(LocksOf(txn[t])) <= NumRequiredLocks(txn[t])
  BY <1>1, EnoughRequired, SMTT(30)
<1>6. /\ IsFiniteSet(GrantedAt(t, h)) /\ IsFiniteSet(HeldBy(t)) /\ IsFiniteSet(HeldBy(t)')
      /\ Cardinality(HeldBy(t)') <= Cardinality(LocksOf(txn[t]))
  BY <1>4, <1>5, HeldShape, FS_Subset, SMTT(30)
<1>7. /\ Cardinality(GrantedAt(t, h)) \in Nat /\ Cardinality(HeldBy(t)) \in Nat
      /\ Cardinality(HeldBy(t)') \in Nat /\ Cardinality(LocksOf(txn[t])) \in Nat
  BY <1>5, <1>6, FS_CardinalityType, SMTT(30)
<1>8. Cardinality(HeldBy(t)') = Cardinality(HeldBy(t)) + Cardinality(GrantedAt(t, h))
  <2>1. Cardinality(HeldBy(t) \cap GrantedAt(t, h)) = 0
    BY AcquireHeld, FS_EmptySet, SMTT(30)
  <2>2. Cardinality(HeldBy(t) \cup GrantedAt(t, h))
          = Cardinality(HeldBy(t)) + Cardinality(GrantedAt(t, h))
              - Cardinality(HeldBy(t) \cap GrantedAt(t, h))
    BY <1>6, FS_Union, SMTT(30)
  <2>3. Cardinality(HeldBy(t)') = Cardinality(HeldBy(t) \cup GrantedAt(t, h))
    BY AcquireHeld, SMTT(30)
  <2> QED
    BY <1>7, <2>1, <2>2, <2>3, SMTT(30)
<1>9. num_waiting_for' =
        [num_waiting_for EXCEPT ![t] = WaitingFor(t) - Cardinality(GrantedAt(t, h))]
  BY DEF AcquireLocks
<1>10. num_waiting_for'[t] = WaitingFor(t) - Cardinality(GrantedAt(t, h))
  BY <1>1, <1>9, SMTT(30)
<1>11. /\ num_waiting_for'[t] \in Nat
       /\ num_waiting_for'[t] + Cardinality(HeldBy(t)') = NumRequiredLocks(txn[t])
  <2> HIDE DEF WaitingFor, GrantedAt
  <2> QED
    BY <1>3, <1>5, <1>6, <1>7, <1>8, <1>10, SMTT(30)
<1>12. t \notin dispatched
  <2> SUFFICES ASSUME t \in dispatched PROVE FALSE
    OBVIOUS
  <2>1. PICK l \in LocksAt(txn[t], h) : TRUE
    BY <1>2, SMTT(30)
  <2>2. l \in HeldBy(t) /\ l \in Lock /\ t \in lock_table[l].holders
    BY <1>2, DispatchedHoldAll, SMTT(30) DEF HeldBy
  <2> QED
    BY <2>1, <2>2, AcquireMembers, HoldersAreMembers, SMTT(30)
<1> QED
  BY <1>1, <1>9, <1>11, <1>12, SMTT(30)

LEMMA AcquirePreserves ==
  ASSUME IInv, NEW t \in TxnId, NEW h \in Region, AcquireLocks(t, h)
  PROVE  IInv'
<1>1. /\ txn \in [TxnId -> Transaction] /\ txn' = txn /\ released' = released
      /\ txn_info \subseteq TxnId /\ dispatched \subseteq txn_info
      /\ keys \in [TxnId -> SUBSET Lock]
      /\ arrived' = arrived \cup {<<t, h>>} /\ <<t, h>> \in Copy
      /\ h \in InvolvedReplicas(txn[t])
      /\ txn_info' = txn_info \cup {t}
      /\ keys' = [keys EXCEPT ![t] = @ \cup LocksAt(txn[t], h)]
      /\ dispatched' = dispatched \cup (IF num_waiting_for'[t] = 0 THEN {t} ELSE {})
  BY SMTT(30) DEF IInv, TypeOK, AcquireLocks, Copy
<1>2. txn[t] \in Transaction /\ LocksAt(txn[t], h) \subseteq Lock
  BY <1>1, LocksAtShape, SMTT(30)
<1>3. num_locked_keys' \in Nat /\ NumLockedKeysExact'
  <2> DEFINE D == {l \in LocksAt(txn[t], h) : lock_table[l].mode = "UNLOCKED"}
  <2>1. /\ num_locked_keys \in Nat /\ num_locked_keys' = num_locked_keys + Cardinality(D)
        /\ IsFiniteSet(LockedLocks) /\ num_locked_keys = Cardinality(LockedLocks)
    BY SMTT(30) DEF IInv, TypeOK, NumLockedKeysExact, AcquireLocks, NewlyLocked
  <2>2. LockedLocks' = LockedLocks \cup D /\ LockedLocks \cap D = {}
    <3>1. \A l \in LocksAt(txn[t], h) : l \in Lock /\ lock_table'[l].mode # "UNLOCKED"
      BY <1>2, AcquireTable, SMTT(30)
    <3>2. \A l \in Lock \ LocksAt(txn[t], h) : lock_table'[l] = lock_table[l]
      BY AcquireTable
    <3> QED
      BY <3>1, <3>2, SMTT(30) DEF LockedLocks
  <2>3. D \subseteq LocksOf(txn[t])
    BY <1>1, <1>2, LocksAtShape, SMTT(30)
  <2> HIDE DEF D
  <2>4. IsFiniteSet(D)
    BY <1>2, <2>3, EnoughRequired, FS_Subset, SMTT(30)
  <2>5. Cardinality(LockedLocks \cap D) = 0
    BY <2>2, FS_EmptySet, SMTT(30)
  <2>6. /\ IsFiniteSet(LockedLocks \cup D)
        /\ Cardinality(LockedLocks \cup D)
             = Cardinality(LockedLocks) + Cardinality(D) - Cardinality(LockedLocks \cap D)
    BY <2>1, <2>4, FS_Union, SMTT(30)
  <2>7. Cardinality(LockedLocks) \in Nat /\ Cardinality(D) \in Nat
    BY <2>1, <2>4, FS_CardinalityType, SMTT(30)
  <2> QED
    BY <2>1, <2>2, <2>5, <2>6, <2>7, SMTT(30) DEF NumLockedKeysExact
<1>4. TypeOK'
  <2>1. lock_table' \in [Lock -> LockStates]
    <3>1. lock_table' = [l \in Lock |-> lock_table'[l]]
      BY DEF AcquireLocks, TableAfterAcquire
    <3> QED
      BY <3>1, AcquireTable, SMTT(30)
  <2>2. keys' \in [TxnId -> SUBSET Lock]
    BY <1>1, <1>2, SMTT(30)
  <2>3. ahead' \in [Copy -> SUBSET TxnId]
    BY ZenonT(30) DEF IInv, TypeOK, AcquireLocks, ActiveAt
  <2>4. arrived' \subseteq Copy /\ released' \subseteq TxnId
    BY <1>1, SMTT(30) DEF IInv, TypeOK
  <2> QED
    BY <1>1, <1>3, <2>1, <2>2, <2>3, <2>4, AcquireCounts, SMTT(30) DEF TypeOK
<1>5. QueuesConsistent'
  BY AcquireTable, SMTT(30) DEF QueuesConsistent
<1>6. CountsExact'
  <2>1. ASSUME NEW u \in txn_info'
        PROVE  /\ num_waiting_for'[u] + Cardinality(HeldBy(u)') = NumRequiredLocks(txn'[u])
               /\ keys'[u] = {l \in Lock : u \in Members(l)'}
    <3>1. CASE u = t
      <4>1. keys[t] = {l \in Lock : t \in Members(l)}
        <5>1. CASE t \in txn_info
          BY <5>1, SMTT(30) DEF IInv, CountsExact
        <5>2. CASE t \notin txn_info
          <6>1. \A l \in Lock : t \notin Members(l)
            BY <5>2, SMTT(30) DEF IInv, EntriesExact, Members, ActiveAt, Lock
          <6> QED
            BY <5>2, <6>1, SMTT(30) DEF IInv, CountsExact
        <5> QED
          BY <5>1, <5>2, SMTT(30)
      <4>2. keys'[t] = keys[t] \cup LocksAt(txn[t], h)
        BY <1>1, SMTT(30)
      <4>3. num_waiting_for'[t] + Cardinality(HeldBy(t)') = NumRequiredLocks(txn'[t])
        BY <1>1, AcquireCounts, ZenonT(30)
      <4>4. ASSUME NEW l \in Lock PROVE t \in Members(l)' <=> l \in keys'[t]
        <5>1. CASE l \in LocksAt(txn[t], h)
          <6>1. Members(l)' = Members(l) \cup {t}
            BY <5>1, AcquireMembers, ZenonT(30)
          <6> QED
            BY <4>2, <5>1, <6>1
        <5>2. CASE l \notin LocksAt(txn[t], h)
          <6>1. Members(l)' = Members(l)
            BY <5>2, AcquireMembers, ZenonT(30)
          <6> QED
            BY <4>1, <4>2, <5>2, <6>1
        <5> QED
          BY <5>1, <5>2
      <4>5. keys'[t] \subseteq Lock
        <5>1. \A l \in LocksAt(txn[t], h) : l \in Lock
          BY AcquireMembers, ZenonT(30)
        <5> QED
          BY <4>1, <4>2, <5>1, ZenonT(30)
      <4> QED
        BY <3>1, <4>3, <4>4, <4>5, ZenonT(30)
    <3>2. CASE u # t
      <4>1. u \in TxnId /\ u \in txn_info
        BY <1>1, <3>2, SMTT(30)
      <4>2. num_waiting_for'[u] + Cardinality(HeldBy(u)') = NumRequiredLocks(txn'[u])
        BY <1>1, <3>2, <4>1, AcquireCounts, AcquireHeld, ZenonT(30) DEF IInv, CountsExact
      <4>3. keys'[u] = {l \in Lock : u \in Members(l)}
        BY <1>1, <3>2, <4>1, ZenonT(30) DEF IInv, CountsExact
      <4>4. \A l \in Lock : u \in Members(l)' <=> u \in Members(l)
        <5> TAKE l \in Lock
        <5>1. Members(l)' = Members(l) \/ Members(l)' = Members(l) \cup {t}
          BY AcquireMembers, ZenonT(30)
        <5> QED
          BY <3>2, <5>1
      <4> QED
        BY <4>2, <4>3, <4>4, SMTT(30)
    <3> QED
      BY <3>1, <3>2, SMTT(30)
  <2>2. \A u \in TxnId \ txn_info' : num_waiting_for'[u] = 0 /\ keys'[u] = {}
    BY <1>1, AcquireCounts, ZenonT(30) DEF IInv, CountsExact
  <2>3. dispatched' = {u \in txn_info' : num_waiting_for'[u] = 0}
    BY <1>1, AcquireCounts, SMTT(30) DEF IInv, CountsExact
  <2> QED
    BY <2>1, <2>2, <2>3, SMTT(30) DEF CountsExact
<1>7. EntriesExact'
  <2>1. ahead \in [Copy -> SUBSET TxnId] /\ arrived \subseteq Copy
    BY DEF IInv, TypeOK
  <2>2. txn_info' = {u \in TxnId \ released' : \E g \in Region : <<u, g>> \in arrived'}
    <3>1. \A u, g : <<u, g>> \in arrived' <=> (<<u, g>> \in arrived \/ (u = t /\ g = h))
      BY <1>1, SMTT(30)
    <3>2. txn_info = {u \in TxnId \ released : \E g \in Region : <<u, g>> \in arrived}
      BY SMTT(30) DEF IInv, EntriesExact
    <3>3. t \notin released
      BY AcquireMembers, SMTT(30)
    <3> QED
      BY <1>1, <3>1, <3>2, <3>3, ZenonT(30)
  <2>3. \A c \in arrived' : c[2] \in InvolvedReplicas(txn'[c[1]])
    BY <1>1 DEF IInv, EntriesExact
  <2>4. \A u \in released' : \A g \in InvolvedReplicas(txn'[u]) : <<u, g>> \in arrived'
    BY <1>1, ZenonT(30) DEF IInv, EntriesExact
  <2>5. \A c \in Copy : \A v \in ahead'[c] : <<v, c[2]>> \in arrived'
    <3>1. \A c \in Copy : ahead'[c] = IF c = <<t, h>> THEN ActiveAt(h) ELSE ahead[c]
      BY <1>1, <2>1, SMTT(30) DEF AcquireLocks
    <3>2. \A v \in ActiveAt(h) : <<v, h>> \in arrived
      BY DEF ActiveAt
    <3>3. \A c \in Copy : \A v \in ahead[c] : <<v, c[2]>> \in arrived
      BY ZenonT(30) DEF IInv, EntriesExact
    <3> TAKE c \in Copy
    <3>4. CASE c = <<t, h>>
      <4>1. c[2] = h /\ ahead'[c] = ActiveAt(h)
        BY <3>1, <3>4, SMTT(30)
      <4> QED
        BY <1>1, <3>2, <4>1, SMTT(30)
    <3>5. CASE c # <<t, h>>
      <4>1. ahead'[c] = ahead[c]
        BY <3>1, <3>5, SMTT(30)
      <4> QED
        BY <1>1, <3>3, <4>1, ZenonT(30)
    <3> QED
      BY <3>4, <3>5, SMTT(30)
  <2> QED
    BY <2>2, <2>3, <2>4, <2>5, SMTT(30) DEF EntriesExact
<1> QED
  BY <1>3, <1>4, <1>5, <1>6, <1>7, SMTT(30) DEF IInv
-----------------------------------------------------------------------------
(* A call of ReleaseLocks preserves the invariant. *)

\* A dispatched transaction is complete: all of its copies have arrived and
\* its entry lists exactly the locks it holds.
LEMMA DispatchedComplete ==
  ASSUME IInv, NEW t \in dispatched
  PROVE  /\ t \in TxnId /\ t \in txn_info /\ t \notin released
         /\ txn[t] \in Transaction
         /\ keys[t] \subseteq Lock
         /\ \A l \in Lock : l \in keys[t] <=> t \in lock_table[l].holders
         /\ \A l \in Lock : l \in keys[t] <=> t \in Members(l)
         /\ \A g \in InvolvedReplicas(txn[t]) : <<t, g>> \in arrived
<1>1. t \in TxnId /\ t \in txn_info /\ t \notin released /\ txn[t] \in Transaction
  BY ZenonT(30) DEF IInv, TypeOK, EntriesExact
<1>2. keys[t] = {l \in Lock : t \in Members(l)}
  BY <1>1 DEF IInv, CountsExact
<1>3. HeldBy(t) = LocksOf(txn[t])
  BY DispatchedHoldAll, SMTT(30)
<1>4. ASSUME NEW l \in Lock, t \in Members(l) PROVE t \in lock_table[l].holders
  <2>1. l[2] \in InvolvedReplicas(txn[t]) /\ l \in LocksAt(txn[t], l[2])
    BY <1>4, SMTT(30) DEF Members, ActiveAt, IInv, EntriesExact
  <2>2. l \in LocksOf(txn[t])
    BY <1>1, <2>1, LocksOfShape, SMTT(30)
  <2> QED
    BY <1>3, <2>2, SMTT(30) DEF HeldBy
<1>5. \A l \in Lock : t \in lock_table[l].holders => t \in Members(l)
  BY HoldersAreMembers, SMTT(30)
<1>6. ASSUME NEW g \in InvolvedReplicas(txn[t]) PROVE <<t, g>> \in arrived
  <2>1. g \in Region
    BY <1>1, InvolvedShape, SMTT(30)
  <2>2. PICK l \in LocksAt(txn[t], g) : l \in LocksOf(txn[t]) /\ l[2] = g
    BY <1>1, <2>1, LocksAtShape, SMTT(30)
  <2>3. t \in Members(l)
    BY <1>3, <1>5, <2>2, ZenonT(30) DEF HeldBy
  <2> QED
    BY <2>2, <2>3, ZenonT(30) DEF Members, ActiveAt
<1> QED
  BY <1>1, <1>2, <1>4, <1>5, <1>6, SMTT(30)

\* What the call does to each lock.
LEMMA ReleaseTable ==
  ASSUME IInv, NEW t \in TxnId, ReleaseLocks(t), NEW l \in Lock
  PROVE  /\ Members(l)' = Members(l) \ {t}
         /\ lock_table'[l] \in LockStates
         /\ Consistent(lock_table'[l], ModesAt(l)', AheadAt(l[2])', Members(l)')
         /\ t \notin lock_table'[l].holders
         /\ lock_table[l].holders \ {t} \subseteq lock_table'[l].holders
         /\ lock_table'[l].holders \subseteq Members(l)
         /\ l \in keys[t] => lock_table[l].mode # "UNLOCKED"
         /\ l \notin keys[t] => lock_table'[l] = lock_table[l]
<1>1. /\ t \in dispatched /\ txn' = txn /\ ahead' = ahead /\ arrived' = arrived
      /\ released' = released \cup {t}
  BY DEF ReleaseLocks
<1>2. Members(l)' = Members(l) \ {t}
  BY <1>1, SMTT(30) DEF Members, ActiveAt
<1>3. ModesAt(l)' = ModesAt(l) /\ AheadAt(l[2])' = AheadAt(l[2])
  BY <1>1, SMTT(30) DEF ModesAt, AheadAt
<1>4. /\ lock_table[l] \in LockStates
      /\ Consistent(lock_table[l], ModesAt(l), AheadAt(l[2]), Members(l))
  BY SMTT(30) DEF IInv, TypeOK, QueuesConsistent
<1>5. lock_table'[l] = IF l \in keys[t] THEN Release(lock_table[l], t) ELSE lock_table[l]
  BY SMTT(30) DEF ReleaseLocks, TableAfterRelease
<1>6. CASE l \in keys[t]
  <2>1. t \in lock_table[l].holders
    BY <1>1, <1>6, DispatchedComplete, SMTT(30)
  <2>2. /\ Release(lock_table[l], t) \in LockStates
        /\ Consistent(Release(lock_table[l], t), ModesAt(l), AheadAt(l[2]), Members(l) \ {t})
        /\ lock_table[l].holders \ {t} \subseteq Release(lock_table[l], t).holders
        /\ t \notin Release(lock_table[l], t).holders
    BY <1>4, <2>1, ReleaseConsistent, ZenonT(30)
  <2>3. Release(lock_table[l], t).holders \subseteq Members(l)
    BY <2>2, ZenonT(30) DEF Consistent
  <2>4. lock_table[l].mode # "UNLOCKED"
    <3>1. HoldersFit(lock_table[l], ModesAt(l))
      BY <1>4, ZenonT(30) DEF Consistent
    <3> QED
      BY <2>1, <3>1, ZenonT(30) DEF HoldersFit
  <2> QED
    BY <1>2, <1>3, <1>5, <1>6, <2>2, <2>3, <2>4, ZenonT(30)
<1>7. CASE l \notin keys[t]
  <2>1. t \notin Members(l) /\ t \notin lock_table[l].holders
    BY <1>1, <1>7, DispatchedComplete, SMTT(30)
  <2>2. lock_table[l].holders \subseteq Members(l)
    BY HoldersAreMembers, SMTT(30)
  <2>3. Members(l)' = Members(l)
    BY <1>2, <2>1, SMTT(30)
  <2> QED
    BY <1>2, <1>3, <1>4, <1>5, <1>7, <2>1, <2>2, <2>3, ZenonT(30)
<1> QED
  BY <1>6, <1>7, ZenonT(30)

\* The locks that pass on are new to their next holders, and only members of
\* the lock get them.
LEMMA ReleaseHeld ==
  ASSUME IInv, NEW t \in TxnId, ReleaseLocks(t), NEW u \in TxnId, u # t
  PROVE  /\ HeldBy(u)' = HeldBy(u) \cup GrantedBy(t, u)
         /\ HeldBy(u) \cap GrantedBy(t, u) = {}
         /\ GrantedBy(t, u) \subseteq LocksOf(txn[u])
         /\ GrantedBy(t, u) # {} => u \in txn_info
<1>1. t \in dispatched /\ keys[t] \subseteq Lock
  BY DispatchedComplete, SMTT(30) DEF ReleaseLocks
<1>2. GrantedBy(t, u) = {l \in keys[t] : u \in lock_table'[l].holders \ lock_table[l].holders}
  BY SMTT(30) DEF GrantedBy, ReleaseLocks
<1>3. \A l \in Lock : /\ u \in lock_table[l].holders => u \in lock_table'[l].holders
                      /\ l \notin keys[t] => lock_table'[l] = lock_table[l]
                      /\ u \in lock_table'[l].holders => u \in Members(l)
  BY ReleaseTable, SMTT(30)
<1>4. HeldBy(u)' = HeldBy(u) \cup GrantedBy(t, u)
  BY <1>1, <1>2, <1>3, SMTT(30) DEF HeldBy
<1>5. HeldBy(u) \cap GrantedBy(t, u) = {}
  BY <1>2, SMTT(30) DEF HeldBy
<1>6. ASSUME NEW l \in GrantedBy(t, u) PROVE l \in LocksOf(txn[u]) /\ u \in txn_info
  <2>1. l \in Lock /\ l[2] \in Region /\ u \in Members(l)
    BY <1>1, <1>2, <1>3, SMTT(30) DEF Lock
  <2>2. u \notin released /\ <<u, l[2]>> \in arrived /\ l \in LocksAt(txn[u], l[2])
    BY <2>1, SMTT(30) DEF Members, ActiveAt
  <2>3. l[2] \in InvolvedReplicas(txn[u]) /\ u \in txn_info
    BY <2>1, <2>2, SMTT(30) DEF IInv, EntriesExact
  <2>4. txn[u] \in Transaction
    BY SMTT(30) DEF IInv, TypeOK
  <2> QED
    BY <2>1, <2>2, <2>3, <2>4, LocksOfShape, SMTT(30)
<1> QED
  BY <1>4, <1>5, <1>6, SMTT(30)

\* num_waiting_for stays exact, and a transaction that had all of its locks
\* gets no more.
LEMMA ReleaseCounts ==
  ASSUME IInv, NEW t \in TxnId, ReleaseLocks(t), NEW u \in TxnId, u # t
  PROVE  /\ num_waiting_for'[u] \in Nat
         /\ u \in txn_info =>
               num_waiting_for'[u] + Cardinality(HeldBy(u)') = NumRequiredLocks(txn[u])
         /\ u \notin txn_info => num_waiting_for'[u] = 0
         /\ GrantedBy(t, u) = {} => num_waiting_for'[u] = num_waiting_for[u]
         /\ GrantedBy(t, u) # {} => num_waiting_for[u] # 0
<1> DEFINE G == GrantedBy(t, u)
           H == HeldBy(u)
<1>1. txn[u] \in Transaction /\ num_waiting_for[u] \in Nat
  BY SMTT(30) DEF IInv, TypeOK
<1>2. num_waiting_for'[u] = num_waiting_for[u] - Cardinality(G)
  BY SMTT(30) DEF ReleaseLocks
<1>3. /\ HeldBy(u)' = H \cup G /\ H \cap G = {}
      /\ G \subseteq LocksOf(txn[u]) /\ H \subseteq LocksOf(txn[u])
      /\ G # {} => u \in txn_info
  BY ReleaseHeld, HeldShape, SMTT(30)
<1>4. u \in txn_info => num_waiting_for[u] + Cardinality(H) = NumRequiredLocks(txn[u])
  BY ZenonT(30) DEF IInv, CountsExact
<1>5. u \notin txn_info => num_waiting_for[u] = 0
  BY ZenonT(30) DEF IInv, CountsExact
<1> HIDE DEF G, H
<1>6. /\ IsFiniteSet(LocksOf(txn[u]))
      /\ NumRequiredLocks(txn[u]) \in Nat
      /\ Cardinality(LocksOf(txn[u])) <= NumRequiredLocks(txn[u])
  BY <1>1, EnoughRequired, ZenonT(30)
<1>7. /\ IsFiniteSet(G) /\ IsFiniteSet(H) /\ IsFiniteSet(H \cup G)
      /\ Cardinality(H \cup G) <= Cardinality(LocksOf(txn[u]))
  <2>1. H \cup G \subseteq LocksOf(txn[u])
    BY <1>3, SMTT(30)
  <2> QED
    BY <1>3, <1>6, <2>1, FS_Subset, SMTT(30)
<1>8. /\ Cardinality(G) \in Nat /\ Cardinality(H) \in Nat
      /\ Cardinality(H \cup G) \in Nat /\ Cardinality(LocksOf(txn[u])) \in Nat
      /\ Cardinality(G) = 0 <=> G = {}
  BY <1>6, <1>7, FS_CardinalityType, FS_EmptySet, SMTT(30)
<1>9. Cardinality(H \cup G) = Cardinality(H) + Cardinality(G)
  <2>1. Cardinality(H \cap G) = 0
    BY <1>3, FS_EmptySet, SMTT(30)
  <2>2. Cardinality(H \cup G) = Cardinality(H) + Cardinality(G) - Cardinality(H \cap G)
    BY <1>7, FS_Union, SMTT(30)
  <2> QED
    BY <1>8, <2>1, <2>2, SMTT(30)
<1>10. CASE u \in txn_info
  <2> DEFINE w == num_waiting_for[u]
             v == num_waiting_for'[u]
             g == Cardinality(G)
             c == Cardinality(H)
             b == Cardinality(H \cup G)
             o == Cardinality(LocksOf(txn[u]))
             n == NumRequiredLocks(txn[u])
  <2>1. /\ w \in Nat /\ g \in Nat /\ c \in Nat /\ b \in Nat /\ o \in Nat /\ n \in Nat
        /\ v = w - g /\ b = c + g /\ w + c = n /\ b <= o /\ o <= n
    BY <1>1, <1>2, <1>4, <1>6, <1>7, <1>8, <1>9, <1>10, ZenonT(30)
  <2> HIDE DEF w, v, g, c, b, o, n
  <2>2. v \in Nat /\ v + b = n /\ (g = 0 => v = w) /\ (g # 0 => w # 0)
    BY <2>1
  <2> QED
    BY <1>3, <1>8, <1>10, <2>2, ZenonT(30) DEF G, w, v, g, b, n
<1>11. CASE u \notin txn_info
  <2>1. G = {} /\ num_waiting_for[u] = 0
    BY <1>3, <1>5, <1>11, ZenonT(30)
  <2>2. Cardinality(G) = 0
    BY <1>8, <2>1, ZenonT(30)
  <2>3. num_waiting_for'[u] = 0 - 0
    BY <1>2, <2>1, <2>2, ZenonT(30)
  <2>4. num_waiting_for'[u] = 0 /\ num_waiting_for'[u] \in Nat
    BY <2>3
  <2> QED
    BY <1>11, <2>1, <2>4, ZenonT(30) DEF G
<1> QED
  BY <1>10, <1>11, ZenonT(30)

LEMMA ReleasePreserves ==
  ASSUME IInv, NEW t \in TxnId, ReleaseLocks(t)
  PROVE  IInv'
<1>1. /\ txn \in [TxnId -> Transaction] /\ txn' = txn /\ ahead' = ahead /\ arrived' = arrived
      /\ released' = released \cup {t}
      /\ txn_info' = txn_info \ {t} /\ txn_info \subseteq TxnId
      /\ dispatched \subseteq txn_info /\ t \in dispatched
      /\ keys \in [TxnId -> SUBSET Lock] /\ keys' = [keys EXCEPT ![t] = {}]
      /\ dispatched' = (dispatched \ {t}) \cup
                         {u \in txn_info \ {t} : /\ GrantedBy(t, u) # {}
                                                 /\ num_waiting_for'[u] = 0}
  BY ZenonT(30) DEF IInv, TypeOK, ReleaseLocks
<1>2. num_waiting_for'[t] = 0 /\ num_waiting_for' = [u \in TxnId |-> num_waiting_for'[u]]
  BY ZenonT(30) DEF ReleaseLocks
<1>3. num_locked_keys' \in Nat /\ NumLockedKeysExact'
  <2> DEFINE D == {l \in keys[t] : /\ lock_table'[l].mode = "UNLOCKED"
                                   /\ lock_table[l].mode # "UNLOCKED"}
  <2>1. /\ num_locked_keys' = num_locked_keys - Cardinality(D)
        /\ IsFiniteSet(LockedLocks) /\ num_locked_keys = Cardinality(LockedLocks)
    BY SMTT(30) DEF IInv, NumLockedKeysExact, ReleaseLocks
  <2>2. LockedLocks' = LockedLocks \ D /\ D \subseteq LockedLocks
    <3>1. keys[t] \subseteq Lock
      BY <1>1, DispatchedComplete, ZenonT(30)
    <3>2. \A l \in Lock : /\ l \in keys[t] => lock_table[l].mode # "UNLOCKED"
                          /\ l \notin keys[t] => lock_table'[l] = lock_table[l]
      BY ReleaseTable, ZenonT(30)
    <3> QED
      BY <3>1, <3>2, SMTT(30) DEF LockedLocks
  <2> HIDE DEF D
  <2>3. LockedLocks \cap D = D
    BY <2>2, SMTT(30)
  <2>4. IsFiniteSet(D) /\ Cardinality(D) <= Cardinality(LockedLocks)
    BY <2>1, <2>2, FS_Subset, SMTT(30)
  <2>5. /\ IsFiniteSet(LockedLocks \ D)
        /\ Cardinality(LockedLocks \ D)
             = Cardinality(LockedLocks) - Cardinality(LockedLocks \cap D)
    BY <2>1, FS_Difference, SMTT(30)
  <2>6. Cardinality(LockedLocks) \in Nat /\ Cardinality(D) \in Nat
    BY <2>1, <2>4, FS_CardinalityType, SMTT(30)
  <2> QED
    BY <2>1, <2>2, <2>3, <2>4, <2>5, <2>6, SMTT(30) DEF NumLockedKeysExact
<1>4. TypeOK'
  <2>1. lock_table' \in [Lock -> LockStates]
    <3>1. lock_table' = [l \in Lock |-> lock_table'[l]]
      BY SMTT(30) DEF ReleaseLocks, TableAfterRelease
    <3> QED
      BY <3>1, ReleaseTable, SMTT(30)
  <2>2. keys' \in [TxnId -> SUBSET Lock]
    BY <1>1, SMTT(30)
  <2>3. num_waiting_for' \in [TxnId -> Nat]
    BY <1>2, ReleaseCounts, SMTT(30)
  <2>4. ahead' \in [Copy -> SUBSET TxnId] /\ arrived' \subseteq Copy /\ released' \subseteq TxnId
    BY <1>1, SMTT(30) DEF IInv, TypeOK
  <2> QED
    BY <1>1, <1>3, <2>1, <2>2, <2>3, <2>4, SMTT(30) DEF TypeOK
<1>5. QueuesConsistent'
  BY ReleaseTable, ZenonT(30) DEF QueuesConsistent
<1>6. CountsExact'
  <2>1. ASSUME NEW u \in txn_info'
        PROVE  /\ num_waiting_for'[u] + Cardinality(HeldBy(u)') = NumRequiredLocks(txn'[u])
               /\ keys'[u] = {l \in Lock : u \in Members(l)'}
    <3>1. u \in TxnId /\ u \in txn_info /\ u # t
      BY <1>1, SMTT(30)
    <3>2. keys'[u] = {l \in Lock : u \in Members(l)}
      BY <1>1, <3>1, ZenonT(30) DEF IInv, CountsExact
    <3>3. \A l \in Lock : u \in Members(l)' <=> u \in Members(l)
      <4> TAKE l \in Lock
      <4>1. Members(l)' = Members(l) \ {t}
        BY ReleaseTable, ZenonT(30)
      <4> QED
        BY <3>1, <4>1
    <3> QED
      BY <1>1, <3>1, <3>2, <3>3, ReleaseCounts, ZenonT(30)
  <2>2. \A u \in TxnId \ txn_info' : num_waiting_for'[u] = 0 /\ keys'[u] = {}
    BY <1>1, <1>2, ReleaseCounts, SMTT(30) DEF IInv, CountsExact
  <2>3. dispatched' = {u \in txn_info' : num_waiting_for'[u] = 0}
    <3>1. dispatched = {u \in txn_info : num_waiting_for[u] = 0}
      BY SMTT(30) DEF IInv, CountsExact
    <3>2. \A u \in txn_info \ {t} :
             /\ GrantedBy(t, u) = {} => num_waiting_for'[u] = num_waiting_for[u]
             /\ GrantedBy(t, u) # {} => num_waiting_for[u] # 0
      BY <1>1, ReleaseCounts, ZenonT(30)
    <3> QED
      BY <1>1, <3>1, <3>2, ZenonT(30)
  <2> QED
    BY <2>1, <2>2, <2>3, SMTT(30) DEF CountsExact
<1>7. EntriesExact'
  <2>1. txn_info' = {u \in TxnId \ released' : \E g \in Region : <<u, g>> \in arrived'}
    BY <1>1, ZenonT(30) DEF IInv, EntriesExact
  <2>2. \A g \in InvolvedReplicas(txn[t]) : <<t, g>> \in arrived
    BY <1>1, DispatchedComplete
  <2> QED
    BY <1>1, <2>1, <2>2, ZenonT(30) DEF IInv, EntriesExact
<1> QED
  BY <1>3, <1>4, <1>5, <1>6, <1>7, SMTT(30) DEF IInv
-----------------------------------------------------------------------------
(* The theorems. *)

LEMMA NextPreserves == IInv /\ [Next]_vars => IInv'
<1> SUFFICES ASSUME IInv, [Next]_vars PROVE IInv'
  OBVIOUS
<1>1. ASSUME NEW t \in TxnId, NEW h \in Region, AcquireLocks(t, h) PROVE IInv'
  BY <1>1, AcquirePreserves, SMTT(30)
<1>2. ASSUME NEW t \in TxnId, ReleaseLocks(t) PROVE IInv'
  BY <1>2, ReleasePreserves, SMTT(30)
<1>3. CASE UNCHANGED vars
  <2>1. /\ UNCHANGED <<txn, lock_table, txn_info, num_waiting_for, keys, num_locked_keys>>
        /\ UNCHANGED <<arrived, ahead, dispatched, released>>
    BY <1>3, SMTT(30) DEF vars, table_vars
  <2>2. TypeOK' /\ EntriesExact' /\ NumLockedKeysExact'
    BY <2>1, ZenonT(30) DEF IInv, TypeOK, EntriesExact, NumLockedKeysExact, LockedLocks
  <2>3. \A l : Members(l)' = Members(l) /\ ModesAt(l)' = ModesAt(l)
    BY <2>1, SMTT(30) DEF Members, ActiveAt, ModesAt
  <2>4. \A h : AheadAt(h)' = AheadAt(h)
    BY <2>1, SMTT(30) DEF AheadAt
  <2>5. QueuesConsistent'
    BY <2>1, <2>3, <2>4, ZenonT(30) DEF IInv, QueuesConsistent
  <2>6. \A t : HeldBy(t)' = HeldBy(t)
    BY <2>1, SMTT(30) DEF HeldBy
  <2>7. CountsExact'
    BY <2>1, <2>3, <2>6, ZenonT(30) DEF IInv, CountsExact
  <2> QED
    BY <2>2, <2>5, <2>7, SMTT(30) DEF IInv
<1> QED
  BY <1>1, <1>2, <1>3, SMTT(30) DEF Next

(***************************************************************************)
(* The bookkeeping of the lock manager is exact in every reachable state:  *)
(* queues in arrival order, counters equal to what they count, entries for *)
(* the active transactions only.                                           *)
(***************************************************************************)
THEOREM Invariance == Spec => []IInv
BY InitIInv, NextPreserves, PTL DEF Spec

\* Type correctness of the lock manager's state: in particular neither
\* num_waiting_for nor num_locked_keys_ ever goes below zero.
THEOREM TypeCorrectness == Spec => []TypeOK
<1>1. IInv => TypeOK
  BY DEF IInv
<1> QED
  BY <1>1, Invariance, PTL

(***************************************************************************)
(* Conflicting transactions are never with the workers at the same time,   *)
(* for any numbers of transactions, keys and regions and any arrival order *)
(* of the copies.                                                          *)
(***************************************************************************)
THEOREM Exclusion == Spec => []MutualExclusion
BY IInvMutualExclusion, Invariance, PTL

\* AcquireLocks and ReleaseLocks keep num_locked_keys_ equal to the number of
\* locks in use.
THEOREM LockedKeysCounted == Spec => []NumLockedKeysExact
<1>1. IInv => NumLockedKeysExact
  BY SMTT(30) DEF IInv
<1> QED
  BY <1>1, Invariance, PTL
=============================================================================
