----------------------------- MODULE MCSequencer -----------------------------
(* Instances of Sequencer. *)
EXTENDS Sequencer, TLC

CONSTANTS t1, t2, t3, t4, p1, p2

\* Single-partition transactions of each partition and one of both.
MCSlices == (t1 :> {p1}) @@ (t2 :> {p2}) @@ (t3 :> {p1, p2}) @@ (t4 :> {p1})

BatchSizeOnly == [sequencer_batch_size : {1, 2}, replication_delay : {FALSE}]
DelayOnly == [sequencer_batch_size : {0}, replication_delay : {TRUE}]

EitherOption == BatchSizeOnly \cup DelayOnly
BothOptions == [sequencer_batch_size : {2}, replication_delay : {TRUE}]
=============================================================================
