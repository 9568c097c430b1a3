-------------------------- MODULE MultiHomeOrderer --------------------------
(***************************************************************************)
(* The multi-home orderer of every machine (multi_home_orderer.{h,cpp}):   *)
(* it batches the multi-home transactions of its forwarder and has global  *)
(* Paxos put the batches in one order; the orderers of the leader          *)
(* partition of every region feed them to their sequencers in this order.  *)
(*                                                                         *)
(* Global Paxos is the leader's part of it, as the orderers see it: it     *)
(* numbers the proposals and tells the number to every region              *)
(* (SimulatedMultiPaxos implements TotalOrder, which promises that).       *)
(***************************************************************************)
EXTENDS Deployment

CONSTANT MaxBatches  \* bound on the batches of one orderer

VARIABLES
  orderer,  \* orderer[m]: the multi-home orderer of machine m
  slot      \* the next slot of global Paxos

BatchIds == {n * MaxNumMachines + m : n \in 1 .. MaxBatches, m \in Machine}

LOCAL INSTANCE BatchLog WITH Batch <- BatchIds, Queue <- {}

NoTxns == [r \in Region |-> <<>>]

InitOrderer ==
  /\ orderer = [m \in Machine |->
                  [batch_id_counter |-> 1, batch_per_rep |-> NoTxns, batch_size |-> 0,
                   callbacks |-> 0, log |-> EmptyBatchLog]]
  /\ slot = 0

batch_id(m) == orderer[m].batch_id_counter * MaxNumMachines + m

AddToBatch(m, c) ==
  LET o == orderer[m]
      txn == Received(c).txn
  IN /\ Received(c).type = "forward_txn"
     /\ orderer' = [orderer EXCEPT
          ![m].batch_per_rep = [r \in Region |->
             IF r \in InvolvedReplicas(txn) THEN Append(@[r], txn) ELSE @[r]],
          ![m].batch_size = @ + 1,
          ![m].callbacks = @ + (IF o.batch_size = 0 THEN 1 ELSE 0)]
     /\ net' = Take(net, c)
     /\ UNCHANGED slot

\* Mutant: the number of txns in the batch is not reset.
NewBatchKeepingSize(o) ==
  [o EXCEPT !.batch_id_counter = @ + 1, !.batch_per_rep = NoTxns]

NewBatch(o) ==
  [o EXCEPT !.batch_id_counter = @ + 1, !.batch_per_rep = NoTxns, !.batch_size = 0]

\* SendBatch, then NewBatch, when the batch duration is over.
SendBatch(m) ==
  LET from == <<"orderer", m>>
      Leader(r) == MakeMachineId(r, LeaderPartition)
      proposed == SendTo(net, from, <<"global_paxos", MakeMachineId(LeaderReplica, 0)>>,
                         [type |-> "propose", value |-> batch_id(m)])
  IN /\ orderer[m].callbacks > 0
     /\ net' = FoldSet(LAMBDA r, n :
                         SendTo(n, from, <<"orderer", Leader(r)>>,
                                [type |-> "batch_data", id |-> batch_id(m),
                                 txns |-> orderer[m].batch_per_rep[r]]),
                       proposed, Region)
     /\ orderer' = [orderer EXCEPT ![m] = NewBatch([@ EXCEPT !.callbacks = @ - 1])]
     /\ UNCHANGED slot

SendAllTxns(n, m, txns) ==
  FoldLeft(LAMBDA x, txn : SendTo(x, <<"orderer", m>>, <<"sequencer", m>>,
                                  [type |-> "forward_txn", txn |-> txn]), n, txns)

\* Mutant: a batch is sent on when it arrives.
AdvanceWithoutOrder(n, m, log) ==
  /\ net' = SendAllTxns(n, m, FlattenSeq(SetToSeq(Range(log.batches))))
  /\ orderer' = [orderer EXCEPT ![m].log = [log EXCEPT !.batches = <<>>]]

AdvanceLog(n, m, log) ==
  LET batches == NextBatches(log)
  IN /\ net' = SendAllTxns(n, m, FlattenSeq([i \in DOMAIN batches |-> batches[i].data]))
     /\ orderer' = [orderer EXCEPT ![m].log = AfterNextBatches(log)]

ProcessForwardBatchData(m, c) ==
  /\ Received(c).type = "batch_data"
  /\ AdvanceLog(Take(net, c), m, AddBatch(orderer[m].log, Received(c).id, Received(c).txns))
  /\ UNCHANGED slot

ProcessForwardBatchOrder(m, c) ==
  /\ Received(c).type = "batch_order"
  /\ AdvanceLog(Take(net, c), m, AddSlot(orderer[m].log, Received(c).slot, Received(c).id, 0))
  /\ UNCHANGED slot

\* ProcessStatsRequest
OrdererStats(m, c) ==
  /\ Received(c).type = "stats"
  /\ net' = SendTo(Take(net, c), <<"orderer", m>>, <<"server", m>>,
                   [type |-> "stats_response", id |-> Received(c).id])
  /\ UNCHANGED <<orderer, slot>>

OrdererStep(m, c) ==
  \/ AddToBatch(m, c) \/ ProcessForwardBatchData(m, c)
  \/ ProcessForwardBatchOrder(m, c) \/ OrdererStats(m, c)

\* GlobalPaxos::OnCommit at the leader, for the next slot.
OnCommit(m, c) ==
  /\ net' = SendToAll(Take(net, c), <<"global_paxos", m>>, "orderer",
                      {MakeMachineId(r, LeaderPartition) : r \in Region},
                      [type |-> "batch_order", slot |-> slot, id |-> Received(c).value])
  /\ slot' = slot + 1
  /\ UNCHANGED orderer
=============================================================================
