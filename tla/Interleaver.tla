----------------------------- MODULE Interleaver -----------------------------
(***************************************************************************)
(* The interleavers of all machines (interleaver.{h,cpp}) at work on the   *)
(* log of one home region: its sequencers distribute batches, its Paxos    *)
(* group orders the sequencers' queues, the first machine replicates the   *)
(* resulting order to the other regions, and every machine emits its own   *)
(* partition of the batches to its scheduler.  An interleaver keeps one    *)
(* such log per home region; the logs share no state.                      *)
(*                                                                         *)
(* Batch <<p, i>> is the one that the sequencer of partition p sent with   *)
(* home_position i.  Messages travel in a bag and arrive in any order:     *)
(* this covers the FIFO sockets, the sockets of different senders and      *)
(* modules racing each other, and data held back by replication_delay.     *)
(***************************************************************************)
EXTENDS Integers, Sequences, FiniteSets, Bags, SequencesExt

CONSTANTS
  Home,       \* the region whose log this is
  Partitions, \* partition numbers of all configurations
  Config,     \* the configurations, see ConfigType
  BatchBound  \* bound: batches of a sequencer in any configuration

ConfigType ==
  [num_replicas : Nat \ {0}, num_partitions : Nat \ {0},
   replication_factor : Nat \ {0},
   replication_order : Seq(Nat),  \* of Home, without Home
   sequencer_rrr : BOOLEAN,
   max_batches : 0 .. BatchBound] \* bound: batches sent by every sequencer

\* The region waits for replication_factor - 1 acks but asks only the regions of
\* replication_order: with fewer of them, no batch of its own is ever emitted.
ASSUME InterleaverAssumption ==
  /\ Config \subseteq ConfigType
  /\ \A c \in Config : /\ Home < c.num_replicas /\ 0 .. (c.num_partitions - 1) \subseteq Partitions
                       /\ c.replication_factor <= Len(c.replication_order) + 1

Batch == Partitions \X (0 .. (BatchBound - 1))

INSTANCE BatchLog WITH Queue <- Partitions

VARIABLES
  config,    \* the configuration, which never changes
  num_sent,  \* num_sent[p]: batches sent by the sequencer of partition p
  order,     \* the queue ids in the order of the Paxos slots, from slot 0
  local_log, \* local_log_ of every machine
  log,       \* single_home_logs_[Home] of every machine
  network,   \* messages in flight
  emitted    \* the batches every machine has sent to its scheduler

vars == <<config, num_sent, order, local_log, log, network, emitted>>

NumReplicas == config.num_replicas
NumPartitions == config.num_partitions
ReplicationFactor == config.replication_factor
ReplicationOrder == config.replication_order

Region == 0 .. (NumReplicas - 1)
Partition == 0 .. (NumPartitions - 1)
Machine == Region \X Partition

\* The local Paxos leader, in charge of replicating the order.
Leader == <<Home, 0>>

HomeMachines == {Home} \X Partition

OtherPartitions(m) == ({m[1]} \X Partition) \ {m}

\* Mutant: one region too few.
NeedAckFromFewer ==
  {ReplicationOrder[r] : r \in {r \in DOMAIN ReplicationOrder : r < ReplicationFactor - 1}}

\* need_ack_from_replica_
NeedAckFrom == {ReplicationOrder[r] : r \in {r \in DOMAIN ReplicationOrder : r < ReplicationFactor}}

Init ==
  /\ config \in Config
  /\ num_sent = [p \in Partition |-> 0]
  /\ order = <<>>
  /\ local_log = [m \in Machine |-> EmptyLocalLog]
  /\ log = [m \in Machine |-> EmptyBatchLog]
  /\ network = EmptyBag
  /\ emitted = [m \in Machine |-> <<>>]

\* The partition of region r that receives from the leader, and from the
\* sequencers unless they go round the partitions.
FixedPartition(r) == ((r + NumReplicas - Home) % NumReplicas) % NumPartitions

ReceivingPartition(r, i) == IF config.sequencer_rrr THEN i % NumPartitions ELSE FixedPartition(r)

\* Sequencer::SendBatches for one batch: every local partition gets its slice,
\* one machine of every other region gets all of them.
SendBatch(p) ==
  LET i == num_sent[p]
      data(m, slices) ==
        [type |-> "data", from |-> <<Home, p>>, to |-> m, id |-> <<p, i>>, slices |-> slices]
  IN /\ i < config.max_batches
     /\ num_sent' = [num_sent EXCEPT ![p] = @ + 1]
     /\ network' = network (+) SetToBag(
          {data(<<Home, q>>, {q}) : q \in Partition}
            \cup {data(<<r, ReceivingPartition(r, i)>>, Partition) : r \in Region \ {Home}})
     /\ UNCHANGED <<config, order, local_log, log, emitted>>

NumOrdered(p) == Cardinality({s \in DOMAIN order : order[s] = p})

\* The Paxos group gives the next slot to a proposal of p's sequencer and
\* LocalPaxos::OnCommit tells the machines of the region.
CommitOrder(p) ==
  /\ NumOrdered(p) < num_sent[p]
  /\ order' = Append(order, p)
  /\ network' = network (+) SetToBag(
       {[type |-> "local_order", to |-> m, slot |-> Len(order), queue |-> p] :
          m \in HomeMachines})
  /\ UNCHANGED <<config, num_sent, local_log, log, emitted>>
-----------------------------------------------------------------------------
\* The order of batch e.id, for every other region.
RemoteOrders(e) ==
  {[type |-> "remote_order", from |-> Leader, to |-> <<r, FixedPartition(r)>>,
    slot |-> e.slot, id |-> e.id, need_ack |-> r \in NeedAckFrom] : r \in Region \ {Home}}

\* AddSlot for every batch of es, which the local log just put in order.
AddSlots(blog, es) ==
  FoldLeft(LAMBDA l, e : AddSlot(l, e.slot, e.id, ReplicationFactor - 1), blog, es)

\* The rest of every handler at m: llog and blog are its logs after the message
\* msg was applied, replies what it sent so far.
AdvanceLogs(m, msg, llog, blog, replies) ==
  \E ordered \in {NextLocalBatches(llog)} : \E blog2 \in {AddSlots(blog, ordered)} :
     /\ local_log' = [local_log EXCEPT ![m] = AfterNextLocalBatches(llog)]
     /\ emitted' = [emitted EXCEPT ![m] = @ \o NextBatches(blog2)]
     /\ log' = [log EXCEPT ![m] = AfterNextBatches(blog2)]
     /\ network' = ((network (-) SetToBag({msg})) (+) SetToBag(replies)) (+)
          SetToBag(IF m = Leader
                   THEN UNION {RemoteOrders(ordered[i]) : i \in DOMAIN ordered} ELSE {})
     /\ UNCHANGED <<config, num_sent, order>>

\* An ack from another region is passed on to the other local partitions.
ProcessBatchReplicationAck(m, msg) ==
  /\ msg.type = "ack"
  /\ AdvanceLogs(m, msg, local_log[m], AckReplication(log[m], msg.id),
       IF msg.from[1] # m[1]
       THEN {[msg EXCEPT !.from = m, !.to = n] : n \in OtherPartitions(m)} ELSE {})

\* Data from another region comes with all slices, which are passed on to the
\* partitions they are for.
ProcessForwardBatchData(m, msg) ==
  /\ msg.type = "data"
  /\ LET mine == IF msg.from[1] = m[1] THEN CHOOSE p \in msg.slices : TRUE ELSE m[2]
         llog == IF Home = m[1]
                 THEN AddBatchId(local_log[m], msg.from[2], msg.id[2], msg.id)
                 ELSE local_log[m]
     IN AdvanceLogs(m, msg, llog, AddBatch(log[m], msg.id, mine),
          IF msg.from[1] # m[1]
          THEN {[msg EXCEPT !.from = m, !.to = n, !.slices = {n[2]}] : n \in OtherPartitions(m)}
          ELSE {})

ProcessLocalBatchOrder(m, msg) ==
  /\ msg.type = "local_order"
  /\ AdvanceLogs(m, msg, AddLocalSlot(local_log[m], msg.slot, msg.queue), log[m], {})

\* The machine that hears from the home region passes the order on and answers
\* for its region.
ProcessRemoteBatchOrder(m, msg) ==
  /\ msg.type = "remote_order"
  /\ AdvanceLogs(m, msg, local_log[m], AddSlot(log[m], msg.slot, msg.id, 0),
       IF msg.from[1] # m[1]
       THEN {[msg EXCEPT !.from = m, !.to = n] : n \in OtherPartitions(m)}
              \cup (IF msg.need_ack
                    THEN {[type |-> "ack", from |-> m, to |-> msg.from, id |-> msg.id]}
                    ELSE {})
       ELSE {})

Receive(m) ==
  \E msg \in BagToSet(network) :
     /\ msg.to = m
     /\ \/ ProcessBatchReplicationAck(m, msg)
        \/ ProcessForwardBatchData(m, msg)
        \/ ProcessLocalBatchOrder(m, msg)
        \/ ProcessRemoteBatchOrder(m, msg)

\* What happens once the batches are sent.
Work == (\E p \in Partition : CommitOrder(p)) \/ (\E m \in Machine : Receive(m))

Next == (\E p \in Partition : SendBatch(p)) \/ Work

\* Paxos decides every proposal and every message arrives.  There are finitely
\* many of both, so it is enough that the work there is goes on: WF_vars(Work).
HasWork == network # EmptyBag \/ \E p \in Partition : NumOrdered(p) < num_sent[p]

Fairness == []<>~HasWork \/ []<><<Work>>_vars

Spec == Init /\ [][Next]_vars /\ Fairness
-----------------------------------------------------------------------------
\* The batch that slot s stands for: the next one of the sequencer it names.
BatchInSlot(s) == <<order[s], Cardinality({j \in 1 .. (s - 1) : order[j] = order[s]})>>

(***************************************************************************)
(* Every machine of every region emits the batches of the home region in   *)
(* the one order that Paxos gave their sequencers, each once and each      *)
(* with the slice of its own partition: orders, data and acks may arrive   *)
(* in any order, through any of the machines that pass them on.            *)
(***************************************************************************)
EmittedInOrder ==
  \A m \in Machine :
     /\ Len(emitted[m]) <= Len(order)
     /\ \A s \in DOMAIN emitted[m] :
           emitted[m][s] = [slot |-> s - 1, id |-> BatchInSlot(s), data |-> m[2]]

\* The regions where some machine has the slot of the batch in its log.
RegionsWithOrder(s) ==
  {r \in Region : \E p \in Partition : LET slots == log[<<r, p>>].slots
                                       IN s < slots.next \/ s \in DOMAIN slots.log}

(***************************************************************************)
(* Before a machine of the home region emits a batch, its place in the log *)
(* is known in ReplicationFactor regions: acks that arrive before the      *)
(* local order does are not lost and none is counted twice.                *)
(***************************************************************************)
OrderReplicated ==
  \A m \in HomeMachines : \A s \in DOMAIN emitted[m] :
     /\ NeedAckFrom \subseteq RegionsWithOrder(s - 1)
     /\ Cardinality(RegionsWithOrder(s - 1)) >= ReplicationFactor

\* What the sequencers have sent has been emitted on every machine.
CaughtUp ==
  \A p \in Partition : \A i \in 0 .. (num_sent[p] - 1) :
     \A m \in Machine : \E s \in DOMAIN emitted[m] : emitted[m][s].id = <<p, i>>

(***************************************************************************)
(* Every machine catches up with the sequencers again and again: no batch  *)
(* waits for ever for its data, its slot or an ack.                        *)
(***************************************************************************)
EverythingEmitted == []<>CaughtUp
=============================================================================
