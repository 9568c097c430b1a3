---------------------------- MODULE MCInterleaver ----------------------------
(***************************************************************************)
(* Two regions of two partitions, whose sequencers go round the partitions *)
(* of the other region; three regions of one partition, all of which       *)
(* acknowledge the batches; the same without acks; and two regions whose   *)
(* sequencers always send to the same partition.                           *)
(***************************************************************************)
EXTENDS Interleaver

MCConfig ==
  {[num_replicas |-> 2, num_partitions |-> 2, replication_factor |-> 2, replication_order |-> <<1>>,
    sequencer_rrr |-> TRUE, max_batches |-> 1],
   [num_replicas |-> 3, num_partitions |-> 1, replication_factor |-> 3, replication_order |-> <<1, 2>>,
    sequencer_rrr |-> FALSE, max_batches |-> 2],
   [num_replicas |-> 3, num_partitions |-> 1, replication_factor |-> 1, replication_order |-> <<1, 2>>,
    sequencer_rrr |-> FALSE, max_batches |-> 2],
   [num_replicas |-> 2, num_partitions |-> 2, replication_factor |-> 2, replication_order |-> <<1>>,
    sequencer_rrr |-> FALSE, max_batches |-> 1]}
=============================================================================
