------------------------------ MODULE FrontEnd ------------------------------
(***************************************************************************)
(* The way of a transaction from a client through server, forwarder and    *)
(* multi-home orderer to the sequencers of its homes, and of its results   *)
(* back to the client, over all machines of all regions.                   *)
(*                                                                         *)
(* What happens between the sequencers and the workers is in Sequencer,    *)
(* Interleaver and Execution.  Here, a region can execute a transaction    *)
(* once the sequencers of all its homes have it, and its partitions may    *)
(* finish in any order and commit or abort; a remaster changes the master  *)
(* that the forwarders of that region look up.  (A key that is written for *)
(* the first time is stored with the default master the forwarder found,   *)
(* so that writes leave the index as it is.)                               *)
(***************************************************************************)
EXTENDS Server, Forwarder, MultiHomeOrderer, TxnGenerator

CONSTANTS Config

VARIABLES
  sequenced,  \* sequenced[m]: the transactions the sequencer of machine m was given
  executed,   \* executed[id][p]: status of the sub-transaction in its coordinator's region
  remastered  \* the <<region, id>> of the remasters a region has executed

pipeline_vars == <<sequenced, executed, remastered>>
vars == <<config, net, server, forwarder, index, orderer, slot, generator, console, pipeline_vars>>

Init ==
  /\ config \in Config
  /\ net = <<>>
  /\ InitServer /\ InitForwarder /\ InitOrderer /\ InitClients
  /\ index = [r \in Region |-> config.stored]
  /\ sequenced = [m \in Machine |-> <<>>]
  /\ executed = <<>>
  /\ remastered = {}
-----------------------------------------------------------------------------
\* BatchTxn, as far as the order of the transactions goes.
SequencerReceive(m, c) ==
  /\ Received(c).type = "forward_txn"
  /\ sequenced' = [sequenced EXCEPT ![m] = Append(@, Received(c).txn)]
  /\ net' = Take(net, c)
  /\ UNCHANGED <<executed, remastered>>

\* ProcessStatsRequest of the sequencer and of the scheduler.
ModuleStats(module, m, c) ==
  /\ Received(c).type = "stats"
  /\ net' = SendTo(Take(net, c), <<module, m>>, <<"server", m>>,
                   [type |-> "stats_response", id |-> Received(c).id])
  /\ UNCHANGED pipeline_vars

SequencedIn(r) == UNION {ToSet(sequenced[MakeMachineId(r, p)]) : p \in Partition}

Sequenced == UNION {SequencedIn(r) : r \in Region}

InLogs(txn) == \A r \in InvolvedReplicas(txn) : txn \in SequencedIn(r)

StatusesOf(id) == IF id \in DOMAIN executed THEN executed[id] ELSE <<>>

\* Worker::Finish at partition p of the coordinating server's region.
FinishSubtxn(txn, p, status) ==
  LET region == ReplicaOf(txn.coordinating_server)
      statuses == (p :> status) @@ StatusesOf(txn.id)
      kept == IF config.return_dummy_txn THEN {}
              ELSE {k \in Keys(txn) : compute_partition(k) = p}
  IN /\ InLogs(txn)
     /\ p \in InvolvedPartitions(txn) \ DOMAIN StatusesOf(txn.id)
     /\ executed' = (txn.id :> statuses) @@ executed
     /\ net' = SendCopy(net, <<"worker", MakeMachineId(region, p)>>,
                        <<"server", txn.coordinating_server>>,
                        [type |-> "finished_subtxn", id |-> txn.id,
                         num_partitions |-> Cardinality(InvolvedPartitions(txn)),
                         sub |-> [status |-> status, keys |-> kept]])
     /\ UNCHANGED <<sequenced, remastered, index>>

\* A region executes a remaster: Execute.
Remaster(txn, r) ==
  /\ InLogs(txn) /\ IsRemaster(txn)
  /\ <<r, txn.id>> \notin remastered
  /\ remastered' = remastered \cup {<<r, txn.id>>}
  /\ index' = [index EXCEPT ![r] = [k \in Keys(txn) |-> txn.new_master] @@ @]
  /\ UNCHANGED <<sequenced, executed, net>>
-----------------------------------------------------------------------------
(* Each module of machine m takes a message, and leaves the others alone. *)

ClientStep ==
  /\ \/ SendNextTxn \/ DurationReached \/ RunCommand
     \/ \E c \in DOMAIN net : ReceiveResponse(c) \/ ReceiveAnswer(c)
  /\ UNCHANGED <<server, forwarder, index, orderer, slot, pipeline_vars>>

ServerNext(m) ==
  /\ \E c \in Incoming("server", m) : ServerStep(m, c)
  /\ UNCHANGED <<config, forwarder, index, orderer, slot, generator, console, pipeline_vars>>

ForwarderNext(m) ==
  /\ \/ SendLookupMasterRequestBatch(m)
     \/ \E c \in Incoming("forwarder", m) : ForwarderStep(m, c)
  /\ UNCHANGED <<server, orderer, slot, generator, console, pipeline_vars>>

OrdererNext(m) ==
  /\ \/ SendBatch(m)
     \/ \E c \in Incoming("orderer", m) : OrdererStep(m, c)
     \/ \E c \in Incoming("global_paxos", m) : OnCommit(m, c)
  /\ UNCHANGED <<config, server, forwarder, index, generator, console, pipeline_vars>>

SequencerNext(m) ==
  /\ \/ \E c \in Incoming("sequencer", m) :
          SequencerReceive(m, c) \/ ModuleStats("sequencer", m, c)
     \/ \E c \in Incoming("scheduler", m) : ModuleStats("scheduler", m, c)
  /\ UNCHANGED <<config, server, forwarder, index, orderer, slot, generator, console>>

Execute ==
  /\ \E txn \in Sequenced :
        \/ \E p \in Partition, status \in {"COMMITTED", "ABORTED"} : FinishSubtxn(txn, p, status)
        \/ \E r \in Region : Remaster(txn, r)
  /\ UNCHANGED <<config, server, forwarder, orderer, slot, generator, console>>

Next ==
  \/ ClientStep
  \/ \E m \in Machine : \/ ServerNext(m) \/ ForwarderNext(m)
                        \/ OrdererNext(m) \/ SequencerNext(m)
  \/ Execute

\* Every message is delivered, every callback is run, every event loop goes on
\* and time passes.  No behaviour goes on for ever, so it is enough that some
\* step is taken as long as there is one.
Fairness == WF_vars(Next)

Spec == Init /\ [][Next]_vars /\ Fairness
-----------------------------------------------------------------------------
\* The transactions that a server or a forwarder can have under way.
IsTxn(txn) ==
  /\ txn.coordinating_server \in Machine
  /\ txn.id % MaxNumMachines = txn.coordinating_server
  /\ Keys(txn) \subseteq Key /\ Keys(txn) # {}
  /\ DOMAIN txn.master \subseteq Keys(txn) /\ Range(txn.master) \subseteq Region

TypeOK ==
  /\ config \in Config
  /\ \A c \in DOMAIN net : net[c] # <<>>
  /\ \A m \in Machine :
        /\ \A id \in DOMAIN server[m].pending_responses : id % MaxNumMachines = m
        /\ DOMAIN server[m].finished_txns \subseteq DOMAIN server[m].pending_responses
        /\ \A id \in DOMAIN server[m].finished_txns :
              server[m].finished_txns[id].remaining \in 1 .. (NumPartitions - 1)
        /\ \A id \in DOMAIN forwarder[m].pending_transactions :
              IsTxn(forwarder[m].pending_transactions[id])
        /\ orderer[m].callbacks \in 0 .. 1 /\ forwarder[m].callbacks \in 0 .. 1
        /\ orderer[m].batch_id_counter \in 1 .. (MaxBatches + 1)
  /\ \A txn \in Sequenced : IsTxn(txn)

(***************************************************************************)
(* Every transaction reaches the sequencers of a region at most once, with *)
(* the master of every key and only in the regions that have to log it,    *)
(* and its copies in several regions carry the same masters, even when a   *)
(* remaster changes the masters while they are looked up.                  *)
(***************************************************************************)
RoutedOnce ==
  /\ \A m, n \in Machine : \A i \in DOMAIN sequenced[m], j \in DOMAIN sequenced[n] :
        LET txn == sequenced[m][i]
        IN txn.id = sequenced[n][j].id =>
              /\ ReplicaOf(m) = ReplicaOf(n) => m = n /\ i = j
              /\ txn = sequenced[n][j]
  /\ \A r \in Region : \A txn \in SequencedIn(r) :
        TransactionType(txn) # "UNKNOWN" /\ r \in InvolvedReplicas(txn)

MultiHome(txn) == TransactionType(txn) # "SINGLE_HOME"

\* The multi-home transactions in the order of region r.
MultiHomeOrder(r) ==
  SelectSeq(sequenced[MakeMachineId(r, LeaderPartition)], MultiHome)

InOrder(s, a, b) == \E i, j \in DOMAIN s : i < j /\ s[i] = a /\ s[j] = b

(***************************************************************************)
(* With the multi-home orderer, all regions sequence the multi-home        *)
(* transactions they share in one order, at the leader partition, whatever *)
(* the order in which batches and slots arrive.                            *)
(***************************************************************************)
OneGlobalOrder ==
  ~config.bypass_mh_orderer =>
     /\ \A m \in Machine : PartitionOfMachine(m) # LeaderPartition =>
           \A txn \in ToSet(sequenced[m]) : ~MultiHome(txn)
     /\ \A r, q \in Region :
           \A a, b \in ToSet(MultiHomeOrder(r)) \cap ToSet(MultiHomeOrder(q)) :
              InOrder(MultiHomeOrder(r), a, b) => InOrder(MultiHomeOrder(q), a, b)

\* What a response tells of the transaction that the client sent as stream_id.
CorrectResponse(res) ==
  LET keys == Keys(TxnRequest(res.stream_id).txn)
      partitions == {compute_partition(k) : k \in keys}
      statuses == StatusesOf(res.id)
  IN IF res.status = "ABORTED" THEN keys = {} \/ "ABORTED" \in Range(statuses)
     ELSE /\ partitions = DOMAIN statuses /\ Range(statuses) = {"COMMITTED"}
          /\ res.keys = IF config.return_dummy_txn THEN {} ELSE keys

ToGenerator == UNION {ToSet(net[c]) : c \in {d \in DOMAIN net : d[2] = Generator}}

(***************************************************************************)
(* The generator gets one response for each of its transactions, made from *)
(* the results of all its partitions: aborted if a partition aborted, else *)
(* with all its keys.  It never gets the response of another transaction.  *)
(***************************************************************************)
ResponsesCorrect ==
  /\ \A res \in ToGenerator : res.stream_id \notin DOMAIN generator.finished
  /\ \A a, b \in ToGenerator \cup Range(generator.finished) :
        a.stream_id = b.stream_id <=> a.id = b.id
  /\ \A res \in ToGenerator \cup Range(generator.finished) : CorrectResponse(res)

\* Nobody answers a request for the statistics of no module, nor a transaction
\* with a key that has no partition.
Unanswerable(request) == request.module = "none" \/ Unpartitioned(request.txn)

\* The server keeps the entry of such a request.
Abandoned(pending) ==
  \E i \in DOMAIN config.commands :
     pending.client = Console(i) /\ Unanswerable(config.commands[i].request)

\* The console client has run all its commands, or hangs in an unanswerable one.
ConsoleDone ==
  \/ console = [started |-> Len(config.commands), awaiting |-> 0]
  \/ console.awaiting > 0 /\ Unanswerable(config.commands[console.started].request)

\* The duration of a constant rate is counted from the first response on, and a
\* dry run gets none: it goes on for ever.
Endless == config.dry_run /\ config.kind = "rate"

\* Every client has its answers, and no module keeps anything of a request.
AllAnswered ==
  /\ generator.stopped <=> ~Endless
  /\ ConsoleDone
  /\ \A m \in Machine :
        /\ \A id \in DOMAIN server[m].pending_responses :
              Abandoned(server[m].pending_responses[id])
        /\ server[m].finished_txns = <<>> /\ forwarder[m].pending_transactions = <<>>
        /\ orderer[m].batch_size = 0

(***************************************************************************)
(* The generator stops, every command of the console client returns, and   *)
(* no server, forwarder or orderer keeps anything of a request.  Not so    *)
(* exactly for the unanswerable requests and the endless dry run above.    *)
(***************************************************************************)
EventuallyAnswered == <>[]AllAnswered
=============================================================================
