---------------------------- MODULE Transactions ----------------------------
(***************************************************************************)
(* The part of a transaction that the ordering and locking layers look at: *)
(* the keys with their lock types, the master metadata the forwarder       *)
(* attached to each key, and the new master of a remaster transaction.     *)
(* Values, code and events are left out.                                   *)
(***************************************************************************)
EXTENDS FiniteSets, Naturals

CONSTANTS Key, Region,
          NoRegion,     \* new_master of a transaction that is not a remaster
          Transaction   \* the contents a transaction may have

KeyType == {"READ", "WRITE"}

Contents(K) == [type : [K -> KeyType], master : [K -> Region],
                new_master : Region \cup {NoRegion}]

Keys(d) == DOMAIN d.type

\* program_case() == kRemaster
IsRemaster(d) == d.new_master # NoRegion

ASSUME NoRegionAssumption == NoRegion \notin Region

\* Server::ValidateTransaction rejects an empty key set; a remaster txn has
\* exactly one key (rma_lock_manager.cpp:113).
ASSUME TransactionAssumption ==
  \A d \in Transaction :
     /\ \E K \in SUBSET Key : K # {} /\ IsFiniteSet(K) /\ d \in Contents(K)
     /\ IsRemaster(d) => \E k \in Key : Keys(d) = {k}

(***************************************************************************)
(* The regions that produce a copy of the transaction for the local logs:  *)
(* the home of a single-home txn, one lock-only txn per involved region    *)
(* of a multi-home one.  A remaster also involves its new master.          *)
(***************************************************************************)
InvolvedReplicas(d) ==
  {d.master[k] : k \in Keys(d)} \cup (IF IsRemaster(d) THEN {d.new_master} ELSE {})

Lock == Key \X Region

\* The locks the copy of d for region h asks for.  A remaster asks for its
\* key at every home it is sent to, whatever its metadata says.
LocksAt(d, h) == {<<k, h>> : k \in {k \in Keys(d) : IsRemaster(d) \/ d.master[k] = h}}

LocksOf(d) == UNION {LocksAt(d, h) : h \in InvolvedReplicas(d)}

\* Mutant: a remaster counts one lock, for its one key.
NumRequiredLocksOfKeys(d) == Cardinality(Keys(d))

NumRequiredLocks(d) == IF IsRemaster(d) THEN 2 ELSE Cardinality(Keys(d))

Mode(d, l) == d.type[l[1]]

\* Two transactions disagree on lock l: both ask for it, one of them to write.
ConflictOn(c, d, l) == /\ l \in LocksOf(c) \cap LocksOf(d)
                       /\ Mode(c, l) = "WRITE" \/ Mode(d, l) = "WRITE"
=============================================================================
