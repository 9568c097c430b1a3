------------------------------- MODULE Slices -------------------------------
(***************************************************************************)
(* What the schedulers of one region receive.  A scenario fixes the        *)
(* transactions, the master metadata (and, for the protocols that have     *)
(* them, the counters) that the forwarder attached to their keys, the      *)
(* local log of every region, and the database at the start.  Every        *)
(* partition receives its slice of every log, in the order of that log;    *)
(* the slices of different logs are interleaved in any way.                *)
(***************************************************************************)
EXTENDS Transactions, Sequences

CONSTANTS Partition,
          PartitionOf,  \* PartitionOf[k]: where the sharder puts key k
          Scenario      \* the scenarios to consider

VARIABLE scenario

protocol == scenario.protocol  \* REMASTER_PROTOCOL of the build
txn == scenario.txn
TxnId == DOMAIN txn
counter == scenario.counter
code == scenario.code

Counterless == protocol = "COUNTERLESS"

\* SetTransactionType: a remaster is multi-home in the counterless protocol.
IsMultiHome(t) ==
  \/ Counterless /\ IsRemaster(txn[t])
  \/ \E k, l \in Keys(txn[t]) : txn[t].master[k] # txn[t].master[l]

Masters(t, K) == {txn[t].master[k] : k \in K}

\* The regions whose log has a copy of t: its home, or one lock-only txn each.
LogHomes(t) ==
  IF IsMultiHome(t) /\ Counterless THEN InvolvedReplicas(txn[t])
  ELSE Masters(t, Keys(txn[t]))

KeysAt(t, p) == {k \in Keys(txn[t]) : PartitionOf[k] = p}

\* The copies that have a slice for partition p: a lock-only txn without a key
\* of its home there is redundant, unless it is a remaster.
HomesAt(t, p) ==
  IF KeysAt(t, p) = {} THEN {}
  ELSE IF IsRemaster(txn[t]) THEN LogHomes(t)
  ELSE Masters(t, KeysAt(t, p))

\* involved_replicas of the slice, recomputed from the keys left in it.
NumInvolvedReplicasAt(t, p) == Cardinality(Masters(t, KeysAt(t, p)))

InvolvedPartitions(t) == {PartitionOf[k] : k \in Keys(txn[t])}
ActivePartitions(t) == {PartitionOf[k] : k \in {k \in Keys(txn[t]) : txn[t].type[k] = "WRITE"}}

\* The part of region h's log that reaches partition p.
LogAt(p, h) == SelectSeq(scenario.log[h], LAMBDA t : h \in HomesAt(t, p))
=============================================================================
