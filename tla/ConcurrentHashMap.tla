------------------------- MODULE ConcurrentHashMap -------------------------
(***************************************************************************)
(* The table behind MemOnlyStorage: an array of segments created on        *)
(* demand, each a chained hash table under a reader-writer latch           *)
(* (data_structure/concurrent_hash_map.h, data_structure/rwlatch.h).  A    *)
(* thread's call goes through the states of pc:                            *)
(*                                                                         *)
(*   load, create     EnsureSegment                                        *)
(*   lock             about to test the condition of RLock or WLock        *)
(*   wait_reader      in reader_.wait                                      *)
(*   drain            WLock with writer_entered_ set, testing reader_count_*)
(*   wait_writer      in writer_.wait                                      *)
(*   read, write      inside the segment, with the latch                   *)
(*   rehash           a writer in the loop of Rehash                       *)
(*   unlock           RUnlock or WUnlock is next                           *)
(*                                                                         *)
(* Every step of the latch holds its mutex, so it is one step here.        *)
(***************************************************************************)
EXTENDS Naturals, Sequences, SequencesExt, FiniteSets

CONSTANTS Thread, Key, Value, NoValue,
          HashFn,              \* hash of a key
          NumShards,           \* 2^8 in the code
          InitialBucketCount,  \* 8 in the code
          MaxReaders,          \* UINT_MAX in the code
          MaxCalls             \* bound: the calls each thread may make, one choice of several

ASSUME TableAssumption ==
  /\ HashFn \in [Key -> Nat] /\ NumShards \in Nat \ {0} /\ IsFiniteSet(Thread)
  /\ MaxCalls \subseteq [Thread -> Nat]
  /\ InitialBucketCount \in Nat \ {0} /\ MaxReaders \in Nat \ {0}

VARIABLES segments, reader_count, writer_entered, pc, call, new_buckets, calls

latch == <<reader_count, writer_entered>>
vars == <<segments, latch, pc, call, new_buckets, calls>>

-----------------------------------------------------------------------------
(* The segments.                                                           *)

Shard == 0 .. NumShards - 1

PickSegment(key) == HashFn[key] % NumShards

GetIndex(count, key) == (HashFn[key] \div NumShards) % count

CreateBuckets(count) == [i \in 0 .. count - 1 |-> << >>]

Count(buckets) == Cardinality(DOMAIN buckets)

NoSegment == [buckets |-> << >>, size |-> 0]

NewSegment == [buckets |-> CreateBuckets(InitialBucketCount), size |-> 0]

\* kLoadFactor is 1.05, and the product is truncated.
LoadFactorMaxSize(buckets) == (105 * Count(buckets)) \div 100

Bucket(s, key) == s.buckets[GetIndex(Count(s.buckets), key)]

Position(chain, key) == SelectInSeq(chain, LAMBDA n: n.key = key)

Lookup(chain, key) ==
  LET i == Position(chain, key) IN IF i = 0 THEN NoValue ELSE chain[i].value

\* The segment after a call found its place in the bucket.
Changed(s, c) ==
  LET idx == GetIndex(Count(s.buckets), c.key)
      chain == s.buckets[idx]
      i == Position(chain, c.key)
      node == [key |-> c.key, value |-> c.value]
  IN CASE c.op = "Write" /\ i # 0 -> [s EXCEPT !.buckets[idx][i] = node]
       [] c.op = "Write" /\ i = 0 -> [buckets |-> [s.buckets EXCEPT ![idx] = <<node>> \o @],
                                      size |-> s.size + 1]
       [] c.op = "Delete" /\ i # 0 -> [s EXCEPT !.buckets[idx] = RemoveAt(@, i)]
       [] OTHER -> s

\* A bucket's nodes, each put at the front of its new bucket.
Relink(buckets, chain) ==
  FoldLeft(LAMBDA b, n: [b EXCEPT ![GetIndex(Count(b), n.key)] = <<n>> \o @], buckets, chain)

-----------------------------------------------------------------------------
(* Calls.                                                                  *)

IsWriter(t) == call[t].op \in {"Write", "Delete"}
SegmentOf(t) == PickSegment(call[t].key)

Init ==
  /\ segments = [s \in Shard |-> NoSegment]
  /\ reader_count = [s \in Shard |-> 0]
  /\ writer_entered = [s \in Shard |-> FALSE]
  /\ pc = [t \in Thread |-> "idle"]
  /\ call = [t \in Thread |-> [op |-> "none"]]
  /\ new_buckets = [t \in Thread |-> << >>]
  /\ calls \in MaxCalls

Goto(t, label) == pc' = [pc EXCEPT ![t] = label]

Operation == [op: {"Read", "Delete"}, key: Key, value: {NoValue}]
             \cup [op: {"Write"}, key: Key, value: Value]

\* MemOnlyStorage's methods: a call of the table each.  GetMasterMetadata is a Read
\* that returns a part of the record.
Invoke(t) ==
  /\ pc[t] = "idle" /\ calls[t] > 0
  /\ \E o \in Operation: call' = [call EXCEPT ![t] = o]
  /\ Goto(t, "load")
  /\ calls' = [calls EXCEPT ![t] = @ - 1]
  /\ UNCHANGED <<segments, latch, new_buckets>>

LoadSegment(t) ==
  /\ pc[t] = "load"
  /\ Goto(t, IF segments[SegmentOf(t)] = NoSegment THEN "create" ELSE "lock")
  /\ UNCHANGED <<segments, latch, call, new_buckets, calls>>

\* Mutant: a plain store in place of compare_exchange_strong.
StoreSegment(t) ==
  /\ pc[t] = "create"
  /\ segments' = [segments EXCEPT ![SegmentOf(t)] = NewSegment]
  /\ Goto(t, "lock")
  /\ UNCHANGED <<latch, call, new_buckets, calls>>

\* compare_exchange_strong; a thread that loses deletes its segment and uses the other's.
CreateSegment(t) ==
  /\ pc[t] = "create"
  /\ segments' = [segments EXCEPT ![SegmentOf(t)] = IF @ = NoSegment THEN NewSegment ELSE @]
  /\ Goto(t, "lock")
  /\ UNCHANGED <<latch, call, new_buckets, calls>>

-----------------------------------------------------------------------------
(* The latch.                                                              *)

\* Mutant: RLock without its look at writer_entered_: a reader passes a waiting writer.
RLockUnlessFull(t) ==
  LET s == SegmentOf(t) IN
  /\ pc[t] = "lock" /\ ~IsWriter(t)
  /\ IF reader_count[s] = MaxReaders
     THEN Goto(t, "wait_reader") /\ UNCHANGED latch
     ELSE /\ Goto(t, "read")
          /\ reader_count' = [reader_count EXCEPT ![s] = @ + 1]
          /\ UNCHANGED writer_entered
  /\ UNCHANGED <<segments, call, new_buckets, calls>>

RLock(t) ==
  LET s == SegmentOf(t) IN
  /\ pc[t] = "lock" /\ ~IsWriter(t)
  /\ IF writer_entered[s] \/ reader_count[s] = MaxReaders
     THEN Goto(t, "wait_reader") /\ UNCHANGED latch
     ELSE /\ Goto(t, "read")
          /\ reader_count' = [reader_count EXCEPT ![s] = @ + 1]
          /\ UNCHANGED writer_entered
  /\ UNCHANGED <<segments, call, new_buckets, calls>>

WLock(t) ==
  LET s == SegmentOf(t) IN
  /\ pc[t] = "lock" /\ IsWriter(t)
  /\ IF writer_entered[s]
     THEN Goto(t, "wait_reader") /\ UNCHANGED latch
     ELSE /\ Goto(t, "drain")
          /\ writer_entered' = [writer_entered EXCEPT ![s] = TRUE]
          /\ UNCHANGED reader_count
  /\ UNCHANGED <<segments, call, new_buckets, calls>>

Drain(t) ==
  /\ pc[t] = "drain"
  /\ Goto(t, IF reader_count[SegmentOf(t)] > 0 THEN "wait_writer" ELSE "write")
  /\ UNCHANGED <<segments, latch, call, new_buckets, calls>>

Waiting(cond, s) == {t \in Thread: pc[t] = cond /\ SegmentOf(t) = s}

Woken(cond) == IF cond = "wait_reader" THEN "lock" ELSE "drain"

Return(t) == call' = [call EXCEPT ![t] = [op |-> "none"]]

\* notify_one after thread t left: one waiting thread, if there is one.
NotifyOne(t, cond, s) ==
  IF Waiting(cond, s) = {} THEN Goto(t, "idle")
  ELSE \E u \in Waiting(cond, s): pc' = [pc EXCEPT ![t] = "idle", ![u] = Woken(cond)]

\* Mutant: the wake-up of the waiting writer is forgotten.
RUnlockSilently(t) ==
  LET s == SegmentOf(t) IN
  /\ pc[t] = "unlock" /\ ~IsWriter(t)
  /\ reader_count' = [reader_count EXCEPT ![s] = @ - 1]
  /\ Goto(t, "idle") /\ Return(t)
  /\ UNCHANGED <<segments, writer_entered, new_buckets, calls>>

RUnlock(t) ==
  LET s == SegmentOf(t) IN
  /\ pc[t] = "unlock" /\ ~IsWriter(t)
  /\ reader_count' = [reader_count EXCEPT ![s] = @ - 1]
  /\ \/ writer_entered[s] /\ reader_count'[s] = 0 /\ NotifyOne(t, "wait_writer", s)
     \/ writer_entered[s] /\ reader_count'[s] # 0 /\ Goto(t, "idle")
     \/ ~writer_entered[s] /\ reader_count'[s] = MaxReaders - 1 /\ NotifyOne(t, "wait_reader", s)
     \/ ~writer_entered[s] /\ reader_count'[s] # MaxReaders - 1 /\ Goto(t, "idle")
  /\ Return(t)
  /\ UNCHANGED <<segments, writer_entered, new_buckets, calls>>

WUnlock(t) ==
  LET s == SegmentOf(t) IN
  /\ pc[t] = "unlock" /\ IsWriter(t)
  /\ writer_entered' = [writer_entered EXCEPT ![s] = FALSE]
  /\ pc' = [u \in Thread |-> IF u = t THEN "idle"
                             ELSE IF u \in Waiting("wait_reader", s) THEN "lock" ELSE pc[u]]
  /\ Return(t)
  /\ UNCHANGED <<segments, reader_count, new_buckets, calls>>

\* A condition variable may wake a thread for no reason.
SpuriousWakeup(t) ==
  /\ pc[t] \in {"wait_reader", "wait_writer"}
  /\ Goto(t, Woken(pc[t]))
  /\ UNCHANGED <<segments, latch, call, new_buckets, calls>>

-----------------------------------------------------------------------------
(* Inside a segment.                                                       *)

WithResult(t, ret) ==
  call' = [call EXCEPT ![t] = [op |-> @.op, key |-> @.key, value |-> @.value, ret |-> ret]]

Get(t) ==
  /\ pc[t] = "read"
  /\ WithResult(t, Lookup(Bucket(segments[SegmentOf(t)], call[t].key), call[t].key))
  /\ Goto(t, "unlock")
  /\ UNCHANGED <<segments, latch, new_buckets, calls>>

\* InsertOrUpdate and Erase, up to the rehash.  Erase does not decrement size_.
Modify(t) ==
  LET s == SegmentOf(t)
      after == Changed(segments[s], call[t])
      full == call[t].op = "Write" /\ after.size >= LoadFactorMaxSize(after.buckets)
  IN /\ pc[t] = "write"
     /\ WithResult(t, Lookup(Bucket(segments[s], call[t].key), call[t].key) # NoValue)
     /\ segments' = [segments EXCEPT ![s] = after]
     /\ new_buckets' = [new_buckets EXCEPT ![t] =
                          IF full THEN CreateBuckets(2 * Count(after.buckets)) ELSE << >>]
     /\ Goto(t, IF full THEN "rehash" ELSE "unlock")
     /\ UNCHANGED <<latch, calls>>

\* Rehash, a bucket at a time; the last step puts the new buckets in place.
Rehash(t) ==
  LET s == SegmentOf(t)
      old == segments[s].buckets
      left == {i \in DOMAIN old: old[i] # << >>}
  IN /\ pc[t] = "rehash"
     /\ IF left # {}
        THEN LET idx == CHOOSE i \in left: \A j \in left: i <= j
             IN /\ new_buckets' = [new_buckets EXCEPT ![t] = Relink(@, old[idx])]
                /\ segments' = [segments EXCEPT ![s].buckets[idx] = << >>]
                /\ UNCHANGED pc
        ELSE /\ segments' = [segments EXCEPT ![s].buckets = new_buckets[t]]
             /\ new_buckets' = [new_buckets EXCEPT ![t] = << >>]
             /\ Goto(t, "unlock")
     /\ UNCHANGED <<latch, call, calls>>

-----------------------------------------------------------------------------

Step(t) ==
  \/ LoadSegment(t) \/ CreateSegment(t)
  \/ RLock(t) \/ WLock(t) \/ Drain(t) \/ RUnlock(t) \/ WUnlock(t)
  \/ Get(t) \/ Modify(t) \/ Rehash(t)

Next == \E t \in Thread: Invoke(t) \/ Step(t) \/ SpuriousWakeup(t)

CanStep(t) == pc[t] \notin {"idle", "wait_reader", "wait_writer"}

\* A thread that is not waiting goes on: WF_vars(Step(t)) for every thread.
Fairness == \A t \in Thread: []<>~CanStep(t) \/ []<><<Step(t)>>_vars

Spec == Init /\ [][Next]_vars /\ Fairness

-----------------------------------------------------------------------------
(* Properties.                                                             *)

Readers(s) == {t \in Thread: pc[t] \in {"read", "unlock"} /\ ~IsWriter(t) /\ SegmentOf(t) = s}
Writers(s) == {t \in Thread: pc[t] \in {"write", "rehash", "unlock"} /\ IsWriter(t) /\ SegmentOf(t) = s}
Entered(s) == {t \in Thread: pc[t] \in {"drain", "wait_writer"} /\ SegmentOf(t) = s} \cup Writers(s)

\* The latch: at most one thread is inside a segment when one of them writes,
\* at most one writer has entered, and the words of the latch agree with what
\* the threads are doing.
Exclusive ==
  \A s \in Shard:
    /\ Writers(s) # {} => Readers(s) = {}
    /\ \A t, u \in Entered(s): t = u
    /\ writer_entered[s] <=> Entered(s) # {}
    /\ reader_count[s] = Cardinality(Readers(s)) /\ reader_count[s] <= MaxReaders

\* The records in the table, wherever a rehash has put them so far.
Nodes(key) ==
  UNION {UNION {Range(b[i]): i \in DOMAIN b}:
           b \in {segments[PickSegment(key)].buckets}
                 \cup {new_buckets[t]: t \in {u \in Thread: pc[u] = "rehash" /\ SegmentOf(u) = PickSegment(key)}}}

Stored == [k \in Key |-> LET ns == {n \in Nodes(k): n.key = k}
                         IN IF ns = {} THEN NoValue ELSE (CHOOSE n \in ns: TRUE).value]

Pending ==
  [t \in Thread |->
    IF pc[t] = "idle" THEN [state |-> "idle"]
    ELSE LET o == [op |-> call[t].op, key |-> call[t].key, value |-> call[t].value]
         IN IF "ret" \in DOMAIN call[t]
            THEN [state |-> "applied", o |-> o, ret |-> call[t].ret]
            ELSE [state |-> "called", o |-> o]]

Abstract == INSTANCE Storage WITH map <- Stored, call <- Pending

\* Every call of the storage takes effect at one moment between its start and
\* its return, whatever the other threads do: no call sees a segment in the
\* middle of a rehash, misses a record because two threads created its segment
\* at once, or overwrites another's change.
ImplementsStorage == Abstract!Spec

\* Every call returns: no wake-up of the latch is lost.
EveryCallReturns == \A t \in Thread: []<>(pc[t] = "idle")
=============================================================================
