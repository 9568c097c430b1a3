------------------------------ MODULE Execution ------------------------------
(***************************************************************************)
(* The machines of one region executing the logs: at every partition the   *)
(* scheduler, its workers (worker.{h,cpp}), the broker thread that         *)
(* redirects remote reads to them (broker.cpp) and the storage.            *)
(*                                                                         *)
(* The scheduler, the broker and every worker are threads that exchange    *)
(* messages.  Workers never wait for each other, so each dispatched        *)
(* transaction has a worker of its own here; fewer workers only take       *)
(* interleavings away.  A worker reads its storage in one step and         *)
(* executes and finishes in another.  A remote read result is one message, *)
(* at: where it is on its way from worker to worker.                       *)
(***************************************************************************)
EXTENDS Scheduler, KeyValueExecution

CONSTANTS NoState, NoResult, Value

Status == {"NOT_STARTED", "ABORTED", "COMMITTED"}

VARIABLES
  next,              \* next[p][h]: how much of LogAt(p, h) the scheduler of p received
  sched,             \* sched[p]: the scheduler of p
  worker,            \* worker[p][t]: txn_states_, or NoState
  remote_reads,      \* remote read results under way
  redirect_requests, \* redirect_requests[p]: requests under way from the workers of p
  redirect,          \* redirect[p]: the transactions with a redirect_[t].to
  to_scheduler,      \* to_scheduler[p]: the transactions reported as done
  storage,           \* storage[k]: the record of key k at its partition
  result             \* result[p][t]: the sub-transaction sent to the server

worker_vars == <<worker, remote_reads, redirect_requests>>
vars == <<scenario, next, sched, worker_vars, redirect, to_scheduler, storage, result>>

Init ==
  /\ scenario \in Scenario
  /\ next = [p \in Partition |-> [h \in Region |-> 0]]
  /\ sched = [p \in Partition |-> NewScheduler]
  /\ worker = [p \in Partition |-> [t \in TxnId |-> NoState]]
  /\ remote_reads = {}
  /\ redirect_requests = [p \in Partition |-> {}]
  /\ redirect = [p \in Partition |-> {}]
  /\ to_scheduler = [p \in Partition |-> {}]
  /\ storage = scenario.stored
  /\ result = [p \in Partition |-> [t \in TxnId |-> NoResult]]

Alive(p) == sched[p].failed = ""
Holder(p, t) == sched[p].active[t]
-----------------------------------------------------------------------------
(* The scheduler. *)

ReceiveTxn(p, h) ==
  /\ Alive(p)
  /\ next[p][h] < Len(LogAt(p, h))
  /\ next' = [next EXCEPT ![p][h] = @ + 1]
  /\ sched' = [sched EXCEPT ![p] =
                 ProcessTransaction(@, storage, p, LogAt(p, h)[next[p][h] + 1], h)]
  /\ UNCHANGED <<scenario, worker_vars, redirect, to_scheduler, storage, result>>

TxnDone(p, t) ==
  /\ Alive(p)
  /\ t \in to_scheduler[p]
  /\ to_scheduler' = [to_scheduler EXCEPT ![p] = @ \ {t}]
  /\ sched' = [sched EXCEPT ![p] = OnCustomSocket(@, storage, p, t)]
  /\ UNCHANGED <<scenario, next, worker_vars, redirect, storage, result>>
-----------------------------------------------------------------------------
(* The workers. *)

\* Mutant: the master of a key is not checked.
ReadsOutdated(t, K) == {}

\* The keys whose stored master is not the one in the transaction.
Outdated(t, K) == {k \in K \cap DOMAIN storage : storage[k].master # txn[t].master[k]}

\* abort_reason after ReadLocalStorage checked counters, then keys: the last one stays.
LocalAbortReason(t, K) ==
  IF Outdated(t, K) # {} THEN "Outdated master"
  ELSE IF IsRemaster(txn[t]) /\ K \cap DOMAIN storage = {} THEN "Remaster non-existent key"
  ELSE IF ~Counterless /\ CheckCounters(storage, t, K) = "ABORT" THEN "Outdated counter"
  ELSE ""

\* A transaction dispatched twice, or with a high counter, is fatal.
WorkerFails(p, t) ==
  LET K == KeysAt(t, p)
  IN \/ worker[p][t] # NoState
     \/ /\ ~Counterless
        /\ Holder(p, t).status # "ABORTED"
        /\ CheckCounters(storage, t, K) \in {"WAITING", "FATAL"}

LocalValues(K) == [k \in K |-> IF k \in DOMAIN storage THEN storage[k].value ELSE EmptyValue]

\* The holder after ReadLocalStorage.
HolderAfterRead(p, t) ==
  LET K == KeysAt(t, p)
      holder == Holder(p, t)
  IN IF holder.status = "ABORTED" THEN holder
     ELSE IF LocalAbortReason(t, K) = "" THEN [holder EXCEPT !.value = LocalValues(K)]
     ELSE [holder EXCEPT !.status = "ABORTED", !.abort_reason = LocalAbortReason(t, K)]

\* NotifyOtherPartitions: to every other active partition.
ReadResults(p, t, holder) ==
  {[txn |-> t, from |-> p, to |-> q, at |-> "network",
    will_abort |-> holder.status = "ABORTED", abort_reason |-> holder.abort_reason,
    reads |-> IF holder.status = "ABORTED" THEN <<>> ELSE holder.value] :
   q \in ActivePartitions(t) \ {p}}

\* Mutant: the partition waits for its own reads, too.
WaitForAll(p, t) == IF p \in ActivePartitions(t) THEN Cardinality(InvolvedPartitions(t)) ELSE 0

\* Only an active partition waits for the reads of the others.
NumRemoteReads(p, t) ==
  IF p \in ActivePartitions(t) THEN Cardinality(InvolvedPartitions(t)) - 1 ELSE 0

\* A worker picks up a transaction and runs ReadLocalStorage.
ReadLocalStorage(p, t) ==
  LET holder == HolderAfterRead(p, t)
      waits == NumRemoteReads(p, t) > 0
  IN /\ Alive(p)
     /\ t \in sched[p].to_worker
     /\ IF WorkerFails(p, t)
        THEN /\ sched' = [sched EXCEPT ![p] = Fail(@, "worker")]
             /\ UNCHANGED worker_vars
        ELSE /\ sched' = [sched EXCEPT ![p].to_worker = @ \ {t}, ![p].active[t] = holder]
             /\ worker' = [worker EXCEPT ![p][t] =
                  [phase |-> IF waits THEN "WAIT_REMOTE_READ" ELSE "EXECUTE",
                   remote_reads_waiting_on |-> NumRemoteReads(p, t)]]
             /\ remote_reads' = remote_reads \cup ReadResults(p, t, holder)
             /\ redirect_requests' = [redirect_requests EXCEPT ![p] =
                  @ \cup IF waits THEN {[txn |-> t, stop |-> FALSE]} ELSE {}]
     /\ UNCHANGED <<scenario, next, redirect, to_scheduler, storage, result>>

\* Mutant: the abort of another partition is missed.
IgnoreRemoteAbort(holder, m) ==
  IF holder.status = "ABORTED" THEN holder
  ELSE [holder EXCEPT !.value = [k \in DOMAIN @ \cup DOMAIN m.reads |->
                                   IF k \in DOMAIN @ THEN @[k] ELSE m.reads[k]]]

\* The holder after a remote read result; an abort stays.
HolderAfterResult(holder, m) ==
  IF holder.status = "ABORTED" THEN holder
  ELSE IF m.will_abort THEN [holder EXCEPT !.status = "ABORTED", !.abort_reason = m.abort_reason]
  ELSE [holder EXCEPT !.value = [k \in DOMAIN @ \cup DOMAIN m.reads |->
                                   IF k \in DOMAIN @ THEN @[k] ELSE m.reads[k]]]

ReceiveRemoteRead(p, m) ==
  LET t == m.txn
      left == worker[p][t].remote_reads_waiting_on - 1
  IN /\ Alive(p)
     /\ m \in remote_reads /\ m.to = p /\ m.at = "worker"
     /\ worker[p][t] = NoState \/ worker[p][t].phase = "WAIT_REMOTE_READ"
     /\ remote_reads' = remote_reads \ {m}
     /\ IF worker[p][t] = NoState THEN UNCHANGED <<sched, worker, redirect_requests>>
        ELSE /\ sched' = [sched EXCEPT ![p].active[t] = HolderAfterResult(@, m)]
             /\ worker' = [worker EXCEPT ![p][t] =
                  [phase |-> IF left = 0 THEN "EXECUTE" ELSE @.phase,
                   remote_reads_waiting_on |-> left]]
             /\ redirect_requests' = [redirect_requests EXCEPT ![p] =
                  @ \cup IF left = 0 THEN {[txn |-> t, stop |-> TRUE]} ELSE {}]
     /\ UNCHANGED <<scenario, next, redirect, to_scheduler, storage, result>>

\* The code of a transaction aborted here or elsewhere is skipped.
Executes(holder) == holder.status # "ABORTED"

\* Execute of a transaction with code: the holder and the storage it leaves.
HolderAfterCode(holder, r) ==
  IF ~Executes(holder) THEN holder
  ELSE IF r.aborted THEN [holder EXCEPT !.status = "ABORTED", !.abort_reason = "EQ"]
  ELSE [holder EXCEPT !.status = "COMMITTED"]

\* ApplyWrites.
Store(db, t, written, new_value) ==
  [k \in DOMAIN db \cup written |->
     IF k \in written
     THEN [master |-> txn[t].master[k], counter |-> counter[t][k], value |-> new_value[k]]
     ELSE db[k]]

StoreMaster(db, t) ==
  LET K == Keys(txn[t])
  IN [k \in DOMAIN db \cup K |->
        IF k \in K
        THEN [master |-> txn[t].new_master, counter |-> counter[t][k] + 1,
              value |-> IF k \in DOMAIN db THEN db[k].value ELSE EmptyValue]
        ELSE db[k]]

\* Finish: the result goes to the server before the scheduler hears of it.
Finish(p, t, holder, new_value) ==
  /\ sched' = [sched EXCEPT ![p].active[t] = FinalizeAndRelease(holder)]
  /\ result' = [result EXCEPT ![p][t] =
       [status |-> holder.status, abort_reason |-> holder.abort_reason,
        value |-> holder.value, new_value |-> new_value]]
  /\ to_scheduler' = [to_scheduler EXCEPT ![p] = @ \cup {t}]
  /\ worker' = [worker EXCEPT ![p][t] = NoState]

ExecuteCode(p, t) ==
  LET holder == Holder(p, t)
      r == Run(code[t], txn[t].type, holder.value)
      after == HolderAfterCode(holder, r)
  IN /\ Alive(p)
     /\ worker[p][t] # NoState /\ worker[p][t].phase = "EXECUTE"
     /\ ~IsRemaster(txn[t])
     /\ IF Executes(holder) /\ r.undefined
        THEN /\ sched' = [sched EXCEPT ![p] = Fail(@, "code")]
             /\ UNCHANGED <<storage, worker, to_scheduler, result>>
        ELSE /\ storage' = IF after.status = "ABORTED" THEN storage
                           ELSE Store(storage, t,
                                      Written(txn[t].type, holder.value, KeysAt(t, p)),
                                      r.new_value)
             /\ Finish(p, t, after, IF after.status = "ABORTED" THEN <<>> ELSE r.new_value)
     /\ UNCHANGED <<scenario, next, remote_reads, redirect_requests, redirect>>

\* A remaster commits whatever its status was.
ExecuteRemaster(p, t) ==
  LET holder == Holder(p, t)
  IN /\ Alive(p)
     /\ worker[p][t] # NoState /\ worker[p][t].phase = "EXECUTE"
     /\ IsRemaster(txn[t])
     /\ storage' = StoreMaster(storage, t)
     /\ Finish(p, t, [holder EXCEPT !.status = "COMMITTED", !.remastered = TRUE], <<>>)
     /\ UNCHANGED <<scenario, next, remote_reads, redirect_requests, redirect>>
-----------------------------------------------------------------------------
(* The broker thread. *)

Move(m, place) == [m EXCEPT !.at = place]

\* Mutant: a result that comes before the redirection is dropped.
DropEarly(p, m) ==
  IF m.txn \in redirect[p] THEN {Move(m, "worker")} ELSE {}

\* A result without a redirection waits in pending_msgs.
Redirected(p, m) == {Move(m, IF m.txn \in redirect[p] THEN "worker" ELSE "pending")}

HandleIncomingMessage(p, m) ==
  /\ Alive(p)
  /\ m \in remote_reads /\ m.to = p /\ m.at = "network"
  /\ remote_reads' = (remote_reads \ {m}) \cup Redirected(p, m)
  /\ UNCHANGED <<scenario, next, sched, worker, redirect_requests, redirect, to_scheduler,
                 storage, result>>

StartRedirect(p, t) ==
  LET pending == {m \in remote_reads : m.txn = t /\ m.to = p /\ m.at = "pending"}
  IN /\ Alive(p)
     /\ [txn |-> t, stop |-> FALSE] \in redirect_requests[p]
     /\ redirect_requests' = [redirect_requests EXCEPT ![p] = @ \ {[txn |-> t, stop |-> FALSE]}]
     /\ redirect' = [redirect EXCEPT ![p] = @ \cup {t}]
     /\ remote_reads' = (remote_reads \ pending) \cup {Move(m, "worker") : m \in pending}
     /\ UNCHANGED <<scenario, next, sched, worker, to_scheduler, storage, result>>

\* erase(tag) also drops what is pending.
StopRedirect(p, t) ==
  /\ Alive(p)
  /\ [txn |-> t, stop |-> TRUE] \in redirect_requests[p]
  /\ redirect_requests' = [redirect_requests EXCEPT ![p] = @ \ {[txn |-> t, stop |-> TRUE]}]
  /\ redirect' = [redirect EXCEPT ![p] = @ \ {t}]
  /\ remote_reads' = {m \in remote_reads : ~(m.txn = t /\ m.to = p /\ m.at = "pending")}
  /\ UNCHANGED <<scenario, next, sched, worker, to_scheduler, storage, result>>
-----------------------------------------------------------------------------
Next ==
  \E p \in Partition :
     \/ \E h \in Region : ReceiveTxn(p, h)
     \/ \E t \in TxnId : \/ TxnDone(p, t)
                        \/ ReadLocalStorage(p, t)
                        \/ ExecuteCode(p, t) \/ ExecuteRemaster(p, t)
                        \/ StartRedirect(p, t) \/ StopRedirect(p, t)
     \/ \E m \in remote_reads : HandleIncomingMessage(p, m) \/ ReceiveRemoteRead(p, m)

\* A thread of p has an event to handle; ENABLED Next is \E p \in Partition : HasWork(p).
HasWork(p) ==
  /\ Alive(p)
  /\ \/ \E h \in Region : next[p][h] < Len(LogAt(p, h))
     \/ to_scheduler[p] # {} \/ sched[p].to_worker # {} \/ redirect_requests[p] # {}
     \/ \E t \in TxnId : worker[p][t] # NoState /\ worker[p][t].phase = "EXECUTE"
     \/ \E m \in remote_reads : m.to = p /\ m.at # "pending"

\* Every message is delivered and every event loop goes on; no step is ever
\* repeated, so it is enough that some thread with work to do goes on.  This is
\* WF_vars(Next), with its enabling condition written out.
Fairness == []<>(\A p \in Partition : ~HasWork(p)) \/ []<><<Next>>_vars

Spec == Init /\ [][Next]_vars /\ Fairness
-----------------------------------------------------------------------------
Values(K) == UNION {[L -> {EmptyValue} \cup Value] : L \in SUBSET K}

Holders(p, t) ==
  [main : HomesAt(t, p), lo : SUBSET HomesAt(t, p), num_lo : Nat, done : BOOLEAN,
   aborting : BOOLEAN, status : Status, abort_reason : STRING, value : Values(Keys(txn[t])),
   remastered : BOOLEAN]

TypeOK ==
  /\ scenario \in Scenario
  /\ \A p \in Partition, t \in TxnId :
        /\ Holder(p, t) # NoHolder => Holder(p, t) \in Holders(p, t)
        /\ worker[p][t] # NoState =>
              /\ Holder(p, t) # NoHolder /\ HasTxn(Holder(p, t))
              /\ worker[p][t].phase \in {"WAIT_REMOTE_READ", "EXECUTE"}
              /\ worker[p][t].remote_reads_waiting_on \in 0 .. (Cardinality(Partition) - 1)
        /\ result[p][t] # NoResult => result[p][t].status \in {"ABORTED", "COMMITTED"}
  /\ \A m \in remote_reads : m.at \in {"network", "pending", "worker"}
  /\ \A k \in DOMAIN storage : storage[k].master \in Region /\ storage[k].counter \in Nat

\* A copy came after the transaction was aborted and its worker had released it.
LateCopy(p) ==
  /\ sched[p].failed = "txn()"
  /\ \E t \in TxnId : /\ Holder(p, t) # NoHolder /\ Holder(p, t).aborting
                      /\ result[p][t] # NoResult /\ Holder(p, t).lo # {}

\* Two blocked copies of a transaction were aborted in one go.
AbortedTwice(p) ==
  /\ sched[p].failed \in {"Duplicate transactions returned for abort",
                          "Abort was triggered twice"}
  /\ protocol = "SIMPLE"
  /\ \E t \in TxnId : /\ Holder(p, t) # NoHolder /\ Holder(p, t).lo = HomesAt(t, p)
                      /\ Cardinality(HomesAt(t, p)) > 1

\* A key that is not stored yet is compared with a record of region 0.
NewKeyElsewhere(p) ==
  /\ sched[p].failed = "Masters don't match"
  /\ \E t \in TxnId : \E k \in KeysAt(t, p) \ DOMAIN storage : txn[t].master[k] # Region0

(***************************************************************************)
(* The CHECKs and LOG(FATAL)s of the scheduler, its holders, the counter   *)
(* check and the workers hold: a holder is there, with its transaction,    *)
(* whenever a handler uses it, no abort is triggered twice, and no         *)
(* transaction reaches a worker twice or with a counter above the stored   *)
(* one.  With the default protocol none fails; with the other two, a       *)
(* scheduler fails in the three ways above and in no other.                *)
(***************************************************************************)
OnlyKnownChecksFail ==
  \A p \in Partition :
     Alive(p) \/ (~Counterless /\ (LateCopy(p) \/ AbortedTwice(p) \/ NewKeyElsewhere(p)))

AllFinished == \A t \in TxnId : \A p \in InvolvedPartitions(t) : result[p][t] # NoResult

\* What the client is told: aborted if any partition aborted, else the values read.
Outcome(t) ==
  IF \E p \in InvolvedPartitions(t) : result[p][t].status = "ABORTED" THEN "ABORTED"
  ELSE IF IsRemaster(txn[t]) THEN "COMMITTED"
  ELSE [k \in Keys(txn[t]) |-> result[PartitionOf[k]][t].value[k]]

\* One transaction executed by itself, on the whole database.
SerialStep(s, t) ==
  LET K == Keys(txn[t])
      current == \A k \in K : /\ k \in DOMAIN s.db => s.db[k].master = txn[t].master[k]
                              /\ Counterless \/ counter[t][k] = StoredCounter(s.db, k)
      value == [k \in K |-> IF k \in DOMAIN s.db THEN s.db[k].value ELSE EmptyValue]
      r == Run(code[t], txn[t].type, value)
  IN IF ~current \/ r.aborted THEN [s EXCEPT !.outcome[t] = "ABORTED"]
     ELSE IF IsRemaster(txn[t])
     THEN [db |-> StoreMaster(s.db, t), outcome |-> [s.outcome EXCEPT ![t] = "COMMITTED"]]
     ELSE [db |-> Store(s.db, t, Written(txn[t].type, value, K), r.new_value),
           outcome |-> [s.outcome EXCEPT ![t] = value]]

SerialRun(order) ==
  FoldLeft(SerialStep, [db |-> scenario.stored, outcome |-> [t \in TxnId |-> NoResult]], order)

ExecutedAs(order) ==
  SerialRun(order) = [db |-> storage, outcome |-> [t \in TxnId |-> Outcome(t)]]

\* The orders of the transactions that agree with every log.
LogOrders ==
  {o \in SetToSeqs(TxnId) :
     \A h \in Region : SelectSeq(o, LAMBDA t : t \in ToSet(scenario.log[h])) = scenario.log[h]}

(***************************************************************************)
(* What a region makes of the logs is determined by the logs: whatever the *)
(* interleaving of the logs and of the threads, the outcomes and the       *)
(* database are those of executing the transactions one at a time, in      *)
(* any order that agrees with the logs.  Hence all regions end up with the *)
(* same database.                                                          *)
(***************************************************************************)
Deterministic == Counterless /\ AllFinished => \A o \in LogOrders : ExecutedAs(o)

(***************************************************************************)
(* The execution is serializable over all partitions, also with the        *)
(* protocols that make copies wait for counters, and so take them out of   *)
(* the order of their log.                                                 *)
(***************************************************************************)
Serializable == AllFinished => \E o \in SetToSeqs(TxnId) : ExecutedAs(o)

(***************************************************************************)
(* "If two transactions hold separate locks for the same key, then one has *)
(* an incorrect master and will be aborted" (rma_lock_manager.h).          *)
(***************************************************************************)
IncorrectMasterAborts ==
  \A p \in Partition, t \in TxnId :
     result[p][t] # NoResult /\ result[p][t].abort_reason # "" => result[p][t].status = "ABORTED"

\* The holder of a remaster of the counterless protocol is never collected:
\* its two copies are compared with one involved replica.
Collected(p, t) ==
  Holder(p, t) = NoHolder \/ (Counterless /\ IsRemaster(txn[t]) /\ Holder(p, t).done)

\* No message, redirection, blocked copy, lock or holder is left.
Clean ==
  /\ remote_reads = {}
  /\ \A p \in Partition :
        /\ redirect[p] = {} /\ redirect_requests[p] = {} /\ to_scheduler[p] = {}
        /\ sched[p].locks = NewScheduler.locks /\ sched[p].blocked = NoneBlocked
        /\ \A t \in TxnId : Collected(p, t)

\* A copy that PerKeyRemasterManager blocked for a key of another home is in the
\* queues of its own keys only: nothing blocks it any more, and nobody looks.
Forgotten(p) ==
  /\ protocol = "PER_KEY"
  /\ \E t \in TxnId : \E h \in HomesAt(t, p) :
        /\ \A k \in HomeKeys(p, <<t, h>>) : <<t, h>> \in ToSet(sched[p].blocked[k])
        /\ AtFront(sched[p].blocked, p, <<t, h>>)
        /\ CheckCopy(storage, p, <<t, h>>) = "VALID"
        /\ Cardinality(HomesAt(t, p)) > 1

(***************************************************************************)
(* Every transaction of the logs finishes at all of its partitions, and    *)
(* everything it left in the scheduler, the lock manager, the remaster     *)
(* manager and the broker is cleaned up; unless a CHECK ended a process    *)
(* (OnlyKnownChecksFail says when), or a copy is Forgotten.                *)
(***************************************************************************)
EventuallyClean ==
  <>[]((AllFinished /\ Clean) \/ \E p \in Partition : ~Alive(p) \/ Forgotten(p))
=============================================================================
