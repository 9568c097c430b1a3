------------------------------ MODULE BatchLog ------------------------------
(***************************************************************************)
(* The three logs that put batches in order, as values with operators:     *)
(* AsyncLog (items read in the order of their numbers, whatever order they *)
(* are added in), BatchLog (data, slots and replication acks of batches)   *)
(* and LocalLog (batches of every local sequencer and slots that name a    *)
(* sequencer).  The loops UpdateReadyBatches take items while the next one *)
(* is ready; FirstUnready is where they stop.                              *)
(***************************************************************************)
EXTENDS Integers, Sequences, FiniteSets

CONSTANTS Batch,  \* batch ids
          Queue   \* queue ids: the local partitions

EmptyAsyncLog == [next |-> 0, log |-> <<>>]

\* Positions already read are ignored.  A position is never taken twice.
Insert(a, position, item) ==
  IF position < a.next THEN a
  ELSE [a EXCEPT !.log = [i \in DOMAIN @ \cup {position} |->
                            IF i = position THEN item ELSE @[i]]]

\* After reading every item below n.
Advance(a, n) ==
  [next |-> n, log |-> [i \in {j \in DOMAIN a.log : j >= n} |-> a.log[i]]]

\* The items that could be read one after the other.
Consecutive(a) == {s \in DOMAIN a.log : a.next .. s \subseteq DOMAIN a.log}

\* Reading stops at the first item that is not ready.
FirstUnready(a, ready) ==
  CHOOSE n \in a.next .. (a.next + Cardinality(ready)) :
     n \notin ready /\ a.next .. (n - 1) \subseteq ready
-----------------------------------------------------------------------------
(* BatchLog *)

EmptyBatchLog ==
  [slots |-> EmptyAsyncLog, batches |-> <<>>, replication |-> [b \in Batch |-> 0]]

AddBatch(log, id, data) ==
  [log EXCEPT !.batches = [b \in DOMAIN @ \cup {id} |-> IF b = id THEN data ELSE @[b]]]

AckReplication(log, id) == [log EXCEPT !.replication[id] = @ - 1]

AddSlot(log, slot, id, replication_factor) ==
  [log EXCEPT !.slots = Insert(@, slot, id), !.replication[id] = @ + replication_factor]

\* Mutant: acks are not waited for.
BatchReadyUnacked(log, s) == log.slots.log[s] \in DOMAIN log.batches

\* AddSlot also makes the entry in replication_ that the loop looks for.
BatchReady(log, s) ==
  /\ log.slots.log[s] \in DOMAIN log.batches
  /\ log.replication[log.slots.log[s]] = 0

EndOfReadyBatches(log) ==
  FirstUnready(log.slots, {s \in Consecutive(log.slots) : BatchReady(log, s)})

\* What NextBatch returns until HasNextBatch is false.
NextBatches(log) ==
  [i \in 1 .. (EndOfReadyBatches(log) - log.slots.next) |->
     LET s == log.slots.next + i - 1
     IN [slot |-> s, id |-> log.slots.log[s], data |-> log.batches[log.slots.log[s]]]]

AfterNextBatches(log) ==
  LET n == EndOfReadyBatches(log)
      taken == {log.slots.log[s] : s \in log.slots.next .. (n - 1)}
  IN [slots |-> Advance(log.slots, n),
      batches |-> [b \in DOMAIN log.batches \ taken |-> log.batches[b]],
      replication |-> log.replication]
-----------------------------------------------------------------------------
(* LocalLog *)

EmptyLocalLog == [slots |-> EmptyAsyncLog, queues |-> [q \in Queue |-> EmptyAsyncLog]]

\* Mutant: slots are numbered as they come.
NextFree(a) == a.next + Cardinality(DOMAIN a.log)
AddLocalSlotAsItComes(log, slot, queue) ==
  [log EXCEPT !.slots = Insert(@, NextFree(@), queue)]

AddBatchId(log, queue, position, id) ==
  [log EXCEPT !.queues[queue] = Insert(@, position, id)]

AddLocalSlot(log, slot, queue) == [log EXCEPT !.slots = Insert(@, slot, queue)]

\* The number of slots from slots_.next to s - 1 that name queue q.
NumTaken(log, q, s) ==
  Cardinality({j \in log.slots.next .. (s - 1) : log.slots.log[j] = q})

\* The position in its queue that slot s takes.
QueuePosition(log, s) ==
  LET q == log.slots.log[s] IN log.queues[q].next + NumTaken(log, q, s)

LocalReady(log, s) == QueuePosition(log, s) \in DOMAIN log.queues[log.slots.log[s]].log

EndOfLocalBatches(log) ==
  FirstUnready(log.slots, {s \in Consecutive(log.slots) : LocalReady(log, s)})

NextLocalBatches(log) ==
  [i \in 1 .. (EndOfLocalBatches(log) - log.slots.next) |->
     LET s == log.slots.next + i - 1
     IN [slot |-> s, id |-> log.queues[log.slots.log[s]].log[QueuePosition(log, s)]]]

AfterNextLocalBatches(log) ==
  LET n == EndOfLocalBatches(log)
  IN [slots  |-> Advance(log.slots, n),
      queues |-> [q \in Queue |->
                    Advance(log.queues[q], log.queues[q].next + NumTaken(log, q, n))]]
=============================================================================
