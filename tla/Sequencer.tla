------------------------------ MODULE Sequencer ------------------------------
(***************************************************************************)
(* The sequencer of one machine (sequencer.{h,cpp}).  It collects the      *)
(* transactions it is sent into batches; a callback set up by the first    *)
(* one distributes them: for every batch a proposal to the local Paxos     *)
(* group, the slice of every partition to the local log of that partition, *)
(* and all slices together to the interleavers of the other regions.       *)
(*                                                                         *)
(* Events are the receipt of a transaction and the firing of the timed     *)
(* callbacks of the event loop.  The callbacks of one delay fire in the    *)
(* order they were set up; different delays race.  All destinations in     *)
(* other regions get the same messages, so they are one channel here.      *)
(***************************************************************************)
EXTENDS Integers, Sequences, FiniteSets, SequencesExt

CONSTANTS
  Txn,              \* the transactions clients will send here
  Partition,
  Slices,           \* Slices[t]: the partitions where t locks a key of this region
  Config            \* the configurations to consider

ASSUME SequencerAssumption ==
  /\ Partition # {} /\ IsFiniteSet(Partition)
  /\ Slices \in [Txn -> SUBSET Partition \ {{}}]
  /\ Config \subseteq [sequencer_batch_size : Nat, replication_delay : BOOLEAN]

VARIABLES
  config,              \* config(): batch size (0 for no limit), replication_delay_pct > 0
  incoming,            \* transactions not received yet
  postponed,           \* waiting for their sequencer_delay_ms
  batches,             \* batches_
  batch_id_counter,    \* batch_id_counter_
  current_batch_size,  \* current_batch_size_
  total_batch_size,    \* total_batch_size_
  send_callbacks,      \* pending callbacks that send the batches
  proposals,           \* number of proposals made to the local Paxos group
  to_local,            \* to_local[p]: messages sent to the local log of partition p
  to_remote,           \* messages sent to the other regions
  delayed_envs         \* messages held back by replication_delay

batch_vars == <<batches, batch_id_counter, current_batch_size, total_batch_size>>
out_vars == <<proposals, to_local, to_remote, delayed_envs>>
vars == <<config, incoming, postponed, batch_vars, send_callbacks, out_vars>>

Batch == [id : Nat, data : [Partition -> Seq(Txn)]]
LocalMessage == [home_position : Nat, id : Nat, data : Seq(Txn)]
RemoteMessage == [home_position : Nat, id : Nat, data : [Partition -> Seq(Txn)]]

TypeOK ==
  /\ config \in Config
  /\ incoming \subseteq Txn
  /\ postponed \subseteq Txn \ incoming
  /\ batches \in Seq(Batch) /\ batches # <<>>
  /\ batch_id_counter \in Nat
  /\ current_batch_size \in Nat
  /\ total_batch_size \in Nat
  /\ send_callbacks \in Nat
  /\ proposals \in Nat
  /\ to_local \in [Partition -> Seq(LocalMessage)]
  /\ to_remote \in Seq(RemoteMessage)
  /\ delayed_envs \in Seq(RemoteMessage)

EmptyBatch(id) == [id |-> id, data |-> [p \in Partition |-> <<>>]]

Init ==
  /\ config \in Config
  /\ incoming = Txn
  /\ postponed = {}
  /\ batches = <<EmptyBatch(1)>>
  /\ batch_id_counter = 1
  /\ current_batch_size = 0
  /\ total_batch_size = 0
  /\ send_callbacks = 0
  /\ proposals = 0
  /\ to_local = [p \in Partition |-> <<>>]
  /\ to_remote = <<>>
  /\ delayed_envs = <<>>

\* GeneratePartitionedTxn yields nothing for the partitions outside Slices[t].
WithTxn(batch, t) ==
  [batch EXCEPT !.data = [p \in Partition |-> IF p \in Slices[t] THEN Append(@[p], t) ELSE @[p]]]

BatchFull ==
  /\ config.sequencer_batch_size > 0
  /\ current_batch_size + 1 >= config.sequencer_batch_size

\* Mutant: the first transaction of every batch sets up a callback.
FirstOfBatch == current_batch_size = 0

\* The transaction is the first one after starting over.
FirstTxn == total_batch_size = 0

BatchTxn(t) ==
  LET grown == ReplaceAt(batches, Len(batches), WithTxn(Last(batches), t))
  IN /\ total_batch_size' = total_batch_size + 1
     /\ send_callbacks' = IF FirstTxn THEN send_callbacks + 1 ELSE send_callbacks
     /\ IF BatchFull
        THEN /\ batches' = Append(grown, EmptyBatch(batch_id_counter + 1))
             /\ batch_id_counter' = batch_id_counter + 1
             /\ current_batch_size' = 0
        ELSE /\ batches' = grown
             /\ current_batch_size' = current_batch_size + 1
             /\ UNCHANGED batch_id_counter
     /\ UNCHANGED out_vars

ForwardTxn(t) ==
  /\ t \in incoming
  /\ incoming' = incoming \ {t}
  /\ BatchTxn(t)
  /\ UNCHANGED <<config, postponed>>

PostponeTxn(t) ==
  /\ t \in incoming
  /\ incoming' = incoming \ {t}
  /\ postponed' = postponed \cup {t}
  /\ UNCHANGED <<config, batch_vars, send_callbacks, out_vars>>

BatchPostponedTxn(t) ==
  /\ t \in postponed
  /\ postponed' = postponed \ {t}
  /\ BatchTxn(t)
  /\ UNCHANGED <<config, incoming>>

\* Mutants: off by one either way.
HomePositionFromOne(i) == batch_id_counter - Len(batches) + i
HomePositionTooLow(i) == batch_id_counter - Len(batches) + i - 2

HomePosition(i) == batch_id_counter - Len(batches) + (i - 1)

RemoteMessageOf(i) ==
  [home_position |-> HomePosition(i), id |-> batches[i].id, data |-> batches[i].data]

LocalMessageOf(i, p) ==
  [home_position |-> HomePosition(i), id |-> batches[i].id, data |-> batches[i].data[p]]

\* Mutants: the loop leaves out the last batch; a batch held back for a delay
\* is sent at once as well.
AllButLast(d) == IF d = 0 THEN Len(batches) - 1 ELSE d - 1
SentAndDelayed(d) == IF d = 0 THEN Len(batches) ELSE d

\* The loop over the batches when the first one drawn for a delay is number d
\* (none if d = 0): it returns there, with that batch sent to the local logs only.
NumSentLocally(d) == IF d = 0 THEN Len(batches) ELSE d
NumSentRemotely(d) == IF d = 0 THEN Len(batches) ELSE d - 1

StartOver ==
  /\ total_batch_size' = 0
  /\ current_batch_size' = 0
  /\ batch_id_counter' = batch_id_counter + 1
  /\ batches' = <<EmptyBatch(batch_id_counter + 1)>>

SendBatches(d) ==
  /\ send_callbacks > 0
  /\ send_callbacks' = send_callbacks - 1
  /\ proposals' = proposals + NumSentLocally(d)
  /\ to_local' = [p \in Partition |->
       to_local[p] \o [i \in 1 .. NumSentLocally(d) |-> LocalMessageOf(i, p)]]
  /\ to_remote' = to_remote \o [i \in 1 .. NumSentRemotely(d) |-> RemoteMessageOf(i)]
  /\ delayed_envs' = delayed_envs \o (IF d = 0 THEN <<>> ELSE <<RemoteMessageOf(d)>>)
  /\ StartOver
  /\ UNCHANGED <<config, incoming, postponed>>

SendDelayedBatch ==
  /\ delayed_envs # <<>>
  /\ to_remote' = Append(to_remote, Head(delayed_envs))
  /\ delayed_envs' = Tail(delayed_envs)
  /\ UNCHANGED <<config, incoming, postponed, batch_vars, send_callbacks, proposals, to_local>>

DelayDraws == IF config.replication_delay THEN 0 .. Len(batches) ELSE {0}

FireSendCallback == \E d \in DelayDraws : SendBatches(d)

Next ==
  \/ \E t \in Txn : ForwardTxn(t) \/ PostponeTxn(t) \/ BatchPostponedTxn(t)
  \/ FireSendCallback
  \/ SendDelayedBatch

\* The event loop runs every callback once its time has come.
Fairness ==
  /\ \A t \in Txn : WF_vars(BatchPostponedTxn(t))
  /\ WF_vars(FireSendCallback)
  /\ WF_vars(SendDelayedBatch)

Spec == Init /\ [][Next]_vars /\ Fairness
-----------------------------------------------------------------------------
\* All slices for partition p that were sent or wait in batches_, in order.
SentTo(p) == FlattenSeq([i \in 1 .. Len(to_local[p]) |-> to_local[p][i].data])
BufferedFor(p) == FlattenSeq([i \in 1 .. Len(batches) |-> batches[i].data[p]])

Batched == Txn \ (incoming \cup postponed)

(***************************************************************************)
(* Every transaction that entered a batch is in exactly one slice of each  *)
(* of its partitions, sent or still buffered: none is lost or repeated     *)
(* when batches_ is started over.                                          *)
(***************************************************************************)
NothingLost ==
  \A p \in Partition : LET s == SentTo(p) \o BufferedFor(p)
                       IN /\ IsInjective(s)
                          /\ ToSet(s) = {t \in Batched : p \in Slices[t]}

(***************************************************************************)
(* Every local log gets the batches of this machine numbered 0, 1, 2...,   *)
(* with one proposal for each: the local logs pair the k-th slot won by    *)
(* this machine with the batch in position k.                              *)
(***************************************************************************)
PositionsMatchProposals ==
  \A p \in Partition : /\ Len(to_local[p]) = proposals
                       /\ \A i \in 1 .. proposals : to_local[p][i].home_position = i - 1

(***************************************************************************)
(* What is sent or about to be sent to the other regions under a position  *)
(* is what the local logs have there, delayed or not, and no position is   *)
(* sent twice.                                                             *)
(***************************************************************************)
RegionsAgree ==
  LET remote == to_remote \o delayed_envs
  IN /\ \A m \in ToSet(remote), p \in Partition :
           \E n \in ToSet(to_local[p]) :
              n = [home_position |-> m.home_position, id |-> m.id, data |-> m.data[p]]
     /\ \A i, j \in 1 .. Len(remote) :
           remote[i].home_position = remote[j].home_position => i = j

(***************************************************************************)
(* The callback that sends the batches is pending exactly when there is    *)
(* something to send: only the first transaction after a start-over sets   *)
(* it up, however the batches fill in between.                             *)
(***************************************************************************)
CallbackPending == send_callbacks = IF total_batch_size > 0 THEN 1 ELSE 0

(***************************************************************************)
(* Every transaction received is eventually on its way to all of its       *)
(* partitions in this region and to the other regions.                     *)
(***************************************************************************)
SentEverywhere(t) ==
  /\ \A p \in Slices[t] : t \in ToSet(SentTo(p))
  /\ \A p \in Slices[t] : \E m \in ToSet(to_remote) : t \in ToSet(m.data[p])

EventuallySent == \A t \in Txn : t \notin incoming ~> SentEverywhere(t)
=============================================================================
