----------------------------- MODULE Deployment -----------------------------
(***************************************************************************)
(* Where things are: machines, the partition and the default master of a   *)
(* key (configuration.cpp, sharder.cpp, metadata_initializer.cpp, for      *)
(* simple partitioning), and the messages between machines (sender.cpp,    *)
(* networked_module.cpp, broker.cpp).                                      *)
(*                                                                         *)
(* Every module of every machine is an endpoint <<module, machine>> with   *)
(* an event loop of its own.  Messages of one endpoint to another arrive   *)
(* in the order they were sent, once each, as ZeroMQ delivers them; but a  *)
(* module reaches another one of its own machine through one of two        *)
(* sockets, in process or over the network, which are not ordered.         *)
(***************************************************************************)
EXTENDS Transactions, Integers, Sequences, SequencesExt

CONSTANTS NumPartitions,
          MaxNumMachines, \* kMaxNumMachines
          NonNumeric      \* the keys that std::stoll does not parse

ASSUME DeploymentAssumption ==
  /\ Region = 0 .. (Cardinality(Region) - 1)
  /\ NumPartitions \in Nat \ {0}
  /\ NonNumeric \subseteq Key /\ Key \ NonNumeric \subseteq Nat
  /\ MaxNumMachines \in Nat /\ MaxNumMachines >= NumPartitions * Cardinality(Region)

VARIABLES
  config,  \* the part of the configuration that varies, and what the clients will do
  net      \* net[<<from, to, via>>]: the messages under way, if any

Partition == 0 .. (NumPartitions - 1)

MakeMachineId(replica, partition) == replica * NumPartitions + partition

Machine == {MakeMachineId(r, p) : r \in Region, p \in Partition}

\* UnpackMachineId
ReplicaOf(m) == m \div NumPartitions
PartitionOfMachine(m) == m % NumPartitions

LeaderReplica == 0
LeaderPartition == 0

\* Of a numeric key; for the others it throws.
compute_partition(k) == k % NumPartitions

\* SimpleMetadataInitializer::Compute
DefaultMaster(k) == (k \div NumPartitions) % Cardinality(Region)

InvolvedPartitions(d) == {compute_partition(k) : k \in Keys(d)}
-----------------------------------------------------------------------------
Queued(n, c) == IF c \in DOMAIN n THEN n[c] ELSE <<>>

Put(n, c, msg) == (c :> Append(Queued(n, c), msg)) @@ n

\* The first message of c is taken.
Take(n, c) ==
  IF Len(n[c]) = 1 THEN Restrict(n, DOMAIN n \ {c}) ELSE [n EXCEPT ![c] = Tail(@)]

\* Sender::Send of an EnvelopePtr: in process to the own machine.
SendTo(n, from, to, msg) ==
  Put(n, <<from, to, IF from[2] = to[2] THEN "inproc" ELSE "tcp">>, msg)

\* Sender::Send of an Envelope: always over the network.
SendCopy(n, from, to, msg) == Put(n, <<from, to, "tcp">>, msg)

\* Sender::Send to several machines.
SendToAll(n, from, module, machines, msg) ==
  FoldSet(LAMBDA m, x : SendTo(x, from, <<module, m>>, msg), n, machines)

SendCopyToAll(n, from, module, machines, msg) ==
  FoldSet(LAMBDA m, x : SendCopy(x, from, <<module, m>>, msg), n, machines)

\* The channels with a message for module of machine m: Loop takes one of them.
Incoming(module, m) == {c \in DOMAIN net : c[2] = <<module, m>>}

Received(c) == Head(net[c])
=============================================================================
