------------------------------ MODULE Forwarder ------------------------------
(***************************************************************************)
(* The forwarder of every machine (forwarder.{h,cpp}): it finds out the    *)
(* master of every key of a transaction, asking the forwarders of the      *)
(* other partitions in batches, and sends the transaction to the sequencer *)
(* of its home or to the multi-home orderer.                               *)
(***************************************************************************)
EXTENDS Deployment

VARIABLES
  forwarder,  \* forwarder[m]: the forwarder of machine m
  index       \* index[r]: the master of the keys stored in region r

NoRequests == [keys |-> {}, txn_ids |-> {}]

InitForwarder ==
  forwarder = [m \in Machine |->
                 [pending_transactions |-> <<>>,
                  partitioned_lookup_request |-> [p \in Partition |-> NoRequests],
                  batch_size |-> 0, callbacks |-> 0]]

\* lookup_master_index_, or metadata_initializer_ for a new key.
Lookup(m, k) ==
  LET stored == index[ReplicaOf(m)]
  IN IF k \in DOMAIN stored THEN stored[k] ELSE DefaultMaster(k)

LocalKeys(m, d) == {k \in Keys(d) : compute_partition(k) = PartitionOfMachine(m)}

\* SetTransactionType, in the counterless protocol.
TransactionType(d) ==
  IF DOMAIN d.master # Keys(d) THEN "UNKNOWN"
  ELSE IF IsRemaster(d) \/ Cardinality(Range(d.master)) > 1 THEN "MULTI_HOME_OR_LOCK_ONLY"
  ELSE "SINGLE_HOME"

\* Mutant: every involved partition of the regions gets the transaction.
EveryMachine(txn, partition) ==
  {MakeMachineId(r, p) : r \in InvolvedReplicas(txn), p \in InvolvedPartitions(txn)}

\* The destinations of a transaction that bypasses the orderer: a machine per region.
BypassDestinations(txn, partition) ==
  {MakeMachineId(r, partition) : r \in InvolvedReplicas(txn)}

\* Forward; partition is what ChooseRandomPartition returned.
Forward(n, m, txn, partition) ==
  LET from == <<"forwarder", m>>
      msg == [type |-> "forward_txn", txn |-> txn]
      home == CHOOSE r \in Range(txn.master) : TRUE
  IN CASE TransactionType(txn) = "SINGLE_HOME" ->
            IF home = ReplicaOf(m) THEN SendTo(n, from, <<"sequencer", m>>, msg)
            ELSE SendCopy(n, from, <<"sequencer", MakeMachineId(home, partition)>>, msg)
       [] TransactionType(txn) # "SINGLE_HOME" /\ config.bypass_mh_orderer ->
            SendCopyToAll(n, from, "sequencer", BypassDestinations(txn, partition), msg)
       [] TransactionType(txn) # "SINGLE_HOME" /\ ~config.bypass_mh_orderer ->
            SendTo(n, from, <<"orderer", m>>, msg)

WithRequest(requests, d, p) ==
  LET K == {k \in Keys(d) : compute_partition(k) = p}
  IN IF K = {} THEN requests
     ELSE [keys |-> requests.keys \cup K, txn_ids |-> requests.txn_ids \cup {d.id}]

\* PopulateInvolvedPartitions throws: the transaction is dropped.
Unpartitioned(d) == Keys(d) \cap NonNumeric # {}

ProcessForwardTxn(m, c) ==
  LET local == LocalKeys(m, Received(c).txn)
      txn == [Received(c).txn EXCEPT !.master = [k \in local |-> Lookup(m, k)]]
      f == forwarder[m]
  IN /\ Received(c).type = "forward_txn"
     /\ IF Unpartitioned(Received(c).txn)
        THEN net' = Take(net, c) /\ UNCHANGED forwarder
        ELSE IF local = Keys(txn)
        THEN /\ net' = Forward(Take(net, c), m, txn, PartitionOfMachine(m))
             /\ UNCHANGED forwarder
        ELSE /\ net' = Take(net, c)
             /\ forwarder' = [forwarder EXCEPT ![m] =
                  [pending_transactions |-> (txn.id :> txn) @@ f.pending_transactions,
                   partitioned_lookup_request |->
                      [p \in Partition |->
                         IF p = PartitionOfMachine(m) THEN NoRequests
                         ELSE WithRequest(f.partitioned_lookup_request[p], txn, p)],
                   batch_size |-> f.batch_size + 1,
                   callbacks |-> f.callbacks + (IF f.batch_size = 0 THEN 1 ELSE 0)]]
     /\ UNCHANGED <<config, index>>

SendLookupMasterRequestBatch(m) ==
  LET requests == forwarder[m].partitioned_lookup_request
      asked == {p \in Partition : requests[p].txn_ids # {}}
  IN /\ forwarder[m].callbacks > 0
     /\ net' = FoldSet(LAMBDA p, n :
                         SendCopy(n, <<"forwarder", m>>,
                                  <<"forwarder", MakeMachineId(ReplicaOf(m), p)>>,
                                  [type |-> "lookup_master", keys |-> requests[p].keys,
                                   txn_ids |-> requests[p].txn_ids]),
                       net, asked)
     /\ forwarder' = [forwarder EXCEPT ![m].callbacks = @ - 1, ![m].batch_size = 0,
                        ![m].partitioned_lookup_request =
                           [p \in Partition |-> NoRequests]]
     /\ UNCHANGED <<config, index>>

ProcessLookUpMasterRequest(m, c) ==
  LET req == Received(c)
      local == {k \in req.keys : compute_partition(k) = PartitionOfMachine(m)}
  IN /\ req.type = "lookup_master"
     /\ net' = SendCopy(Take(net, c), <<"forwarder", m>>, c[1],
                        [type |-> "lookup_response", txn_ids |-> req.txn_ids,
                         master |-> [k \in local |-> Lookup(m, k)]])
     /\ UNCHANGED <<config, index, forwarder>>

\* A master that is already there is kept.
WithMasters(txn, master) ==
  [txn EXCEPT !.master = @ @@ Restrict(master, DOMAIN master \cap Keys(txn))]

\* OnInternalResponseReceived
ReceiveLookupResponse(m, c) ==
  LET res == Received(c)
      f == forwarder[m]
      ids == res.txn_ids \cap DOMAIN f.pending_transactions
      found == [i \in ids |-> WithMasters(f.pending_transactions[i], res.master)]
      ready == {i \in ids : TransactionType(found[i]) # "UNKNOWN"}
  IN /\ res.type = "lookup_response"
     /\ \E partition \in [ready -> Partition] :
          /\ \A i \in ready : partition[i] \in InvolvedPartitions(found[i])
          /\ net' = FoldSet(LAMBDA i, n : Forward(n, m, found[i], partition[i]),
                            Take(net, c), ready)
     /\ forwarder' = [forwarder EXCEPT ![m].pending_transactions =
                        Restrict(found @@ @, DOMAIN @ \ ready)]
     /\ UNCHANGED <<config, index>>

\* ProcessStatsRequest; what is counted is left out.
ForwarderStats(m, c) ==
  /\ Received(c).type = "stats"
  /\ net' = SendTo(Take(net, c), <<"forwarder", m>>, <<"server", m>>,
                   [type |-> "stats_response", id |-> Received(c).id])
  /\ UNCHANGED <<config, index, forwarder>>

ForwarderStep(m, c) ==
  \/ ProcessForwardTxn(m, c) \/ ProcessLookUpMasterRequest(m, c)
  \/ ReceiveLookupResponse(m, c) \/ ForwarderStats(m, c)
=============================================================================
