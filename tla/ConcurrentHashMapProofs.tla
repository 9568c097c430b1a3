---------------------- MODULE ConcurrentHashMapProofs ----------------------
(***************************************************************************)
(* The latch of a segment keeps writers apart from everyone else, for      *)
(* every number of threads, keys and shards.                               *)
(*                                                                         *)
(* Exclusive is inductive once it is known which kind of call can be where *)
(* in the code (Calls).  A step changes who is inside a segment in one of  *)
(* five ways only, each the subject of a lemma; every other step leaves    *)
(* the sets of readers and writers as they were (StandStill).              *)
(***************************************************************************)
EXTENDS ConcurrentHashMap, TLAPS, FiniteSetTheorems

Label == {"idle", "load", "create", "lock", "wait_reader", "drain", "wait_writer",
          "read", "write", "rehash", "unlock"}

\* What a thread's call is while the thread is at each label.
Calls ==
  /\ pc \in [Thread -> Label]
  /\ call = [t \in Thread |-> call[t]]
  /\ \A t \in Thread: pc[t] # "idle" => call[t].key \in Key
  /\ \A t \in Thread: pc[t] = "read" => ~IsWriter(t)
  /\ \A t \in Thread: pc[t] \in {"drain", "wait_writer", "write", "rehash"} => IsWriter(t)
  /\ reader_count \in [Shard -> Int]
  /\ writer_entered \in [Shard -> BOOLEAN]

Inv == Calls /\ Exclusive

\* No thread goes into or out of a segment's latch.
StandStill ==
  /\ UNCHANGED latch
  /\ \A s \in Shard: /\ Readers(s)' = Readers(s)
                     /\ Writers(s)' = Writers(s)
                     /\ Entered(s)' = Entered(s)

\* The segments are those of the array.
LEMMA PickedIsShard ==
  ASSUME NEW k \in Key
  PROVE  PickSegment(k) \in Shard
<1>1. HashFn[k] \in Nat /\ NumShards \in Nat /\ NumShards > 0
  BY TableAssumption
<1>2. \A h, n \in Nat: n > 0 => h % n \in 0 .. n - 1
  OBVIOUS
<1> QED
  BY <1>1, <1>2 DEF PickSegment, Shard

\* The readers are some of finitely many threads, so they can be counted.
LEMMA ReadersFinite ==
  ASSUME NEW s
  PROVE  IsFiniteSet(Readers(s))
BY TableAssumption, FS_Subset DEF Readers

\* A step that moves nobody through a latch keeps the latches right.
LEMMA StandStillKeeps ==
  ASSUME Exclusive, StandStill
  PROVE  Exclusive'
BY DEF Exclusive, StandStill, latch

\* At the start no thread is in any segment.
LEMMA Start == Init => Inv
<1> SUFFICES ASSUME Init PROVE Inv
  OBVIOUS
<1>1. Calls
  BY DEF Init, Calls, Label
<1>2. \A s \in Shard: Readers(s) = {} /\ Writers(s) = {} /\ Entered(s) = {}
  BY DEF Init, Readers, Writers, Entered
<1>3. Cardinality({}) = 0 /\ 0 <= MaxReaders
  BY FS_EmptySet, TableAssumption
<1>4. \A s \in Shard: reader_count[s] = 0 /\ ~writer_entered[s]
  BY DEF Init
<1>5. Exclusive
  BY <1>2, <1>3, <1>4 DEF Exclusive
<1> QED
  BY <1>1, <1>5 DEF Inv

-----------------------------------------------------------------------------
(* Steps that pass no latch.                                               *)

\* A thread that goes between labels of the same side of the latch, its call
\* still of the same kind and on the same key, stands still.
LEMMA MoveAside ==
  ASSUME Calls, NEW t \in Thread, NEW l \in Label, Goto(t, l), UNCHANGED latch,
         call' = [u \in Thread |-> call'[u]],
         \A u \in Thread: u # t => call'[u] = call[u],
         l # "idle" => call'[t].key \in Key,
         \/ /\ pc[t] \in {"idle", "load", "create", "lock", "wait_reader"}
            /\ l \in {"load", "create", "lock", "wait_reader"}
         \/ /\ call'[t].op = call[t].op /\ call'[t].key = call[t].key
            /\ \/ pc[t] \in {"drain", "wait_writer"} /\ l \in {"drain", "wait_writer"}
               \/ pc[t] = "read" /\ l = "unlock"
               \/ pc[t] \in {"write", "rehash"} /\ l \in {"rehash", "unlock"}
  PROVE  Calls' /\ StandStill
<1>1. pc' = [pc EXCEPT ![t] = l]
  BY DEF Goto
<1>2. \A u \in Thread: u # t => /\ pc'[u] = pc[u]
                                /\ IsWriter(u)' <=> IsWriter(u)
                                /\ SegmentOf(u)' = SegmentOf(u)
  BY <1>1 DEF Calls, IsWriter, SegmentOf
<1>3. pc'[t] = l /\ pc' \in [Thread -> Label]
  BY <1>1 DEF Calls
<1>4. CASE /\ pc[t] \in {"idle", "load", "create", "lock", "wait_reader"}
           /\ l \in {"load", "create", "lock", "wait_reader"}
  <2>1. Calls'
    BY <1>2, <1>3, <1>4 DEF Calls, latch
  <2>2. StandStill
    BY <1>2, <1>3, <1>4 DEF StandStill, Readers, Writers, Entered
  <2> QED
    BY <2>1, <2>2
<1>5. CASE /\ call'[t].op = call[t].op /\ call'[t].key = call[t].key
           /\ \/ pc[t] \in {"drain", "wait_writer"} /\ l \in {"drain", "wait_writer"}
              \/ pc[t] = "read" /\ l = "unlock"
              \/ pc[t] \in {"write", "rehash"} /\ l \in {"rehash", "unlock"}
  <2>1. (IsWriter(t)' <=> IsWriter(t)) /\ SegmentOf(t)' = SegmentOf(t)
    BY <1>5 DEF IsWriter, SegmentOf
  <2>2. pc[t] = "read" => ~IsWriter(t)
    BY DEF Calls
  <2>3. pc[t] \in {"drain", "wait_writer", "write", "rehash"} => IsWriter(t)
    BY DEF Calls
  <2>4. Calls'
    BY <1>2, <1>3, <1>5, <2>1, <2>2, <2>3 DEF Calls, latch
  <2>5. StandStill
    BY <1>2, <1>3, <1>5, <2>1, <2>2, <2>3 DEF StandStill, Readers, Writers, Entered
  <2> QED
    BY <2>4, <2>5
<1> QED
  BY <1>4, <1>5

\* A call starts, looks for its segment, reads or changes it, or wakes up.
LEMMA OffLatch ==
  ASSUME Calls, NEW t \in Thread,
         \/ Invoke(t) \/ LoadSegment(t) \/ CreateSegment(t) \/ SpuriousWakeup(t)
         \/ Get(t) \/ Modify(t) \/ Rehash(t)
  PROVE  Calls' /\ StandStill
<1>1. CASE Invoke(t)
  <2>1. PICK o \in Operation: call' = [call EXCEPT ![t] = o]
    BY <1>1 DEF Invoke
  <2>2. o.key \in Key
    BY DEF Operation
  <2> QED
    BY <1>1, <2>1, <2>2, MoveAside DEF Invoke, Calls, Label
<1>2. CASE LoadSegment(t)
  BY <1>2, MoveAside DEF LoadSegment, Calls, Label
<1>3. CASE CreateSegment(t)
  BY <1>3, MoveAside DEF CreateSegment, Calls, Label
<1>4. CASE SpuriousWakeup(t)
  BY <1>4, MoveAside DEF SpuriousWakeup, Woken, Calls, Label
<1>5. CASE Get(t)
  <2>1. PICK r: call' = [call EXCEPT ![t] = [op |-> @.op, key |-> @.key, value |-> @.value, ret |-> r]]
    BY <1>5 DEF Get, WithResult
  <2> QED
    BY <1>5, <2>1, MoveAside DEF Get, Calls, Label
<1>6. CASE Modify(t)
  <2>1. PICK r: call' = [call EXCEPT ![t] = [op |-> @.op, key |-> @.key, value |-> @.value, ret |-> r]]
    BY <1>6 DEF Modify, WithResult
  <2>2. PICK l \in {"rehash", "unlock"}: Goto(t, l)
    BY <1>6 DEF Modify
  <2> QED
    BY <1>6, <2>1, <2>2, MoveAside DEF Modify, Calls, Label
<1>7. CASE Rehash(t)
  <2>1. pc[t] = "rehash" /\ UNCHANGED <<latch, call, calls>>
    BY <1>7, Zenon DEF Rehash
  <2>2. UNCHANGED pc \/ Goto(t, "unlock")
    BY <1>7, Zenon DEF Rehash
  <2>3. UNCHANGED pc => Goto(t, "rehash")
    BY <2>1 DEF Goto, Calls
  <2> QED
    BY <2>1, <2>2, <2>3, MoveAside DEF Calls, Label
<1> QED
  BY <1>1, <1>2, <1>3, <1>4, <1>5, <1>6, <1>7

-----------------------------------------------------------------------------
(* The latch.                                                              *)

\* RLock waits, or adds a reader to a segment no writer has entered.
LEMMA RLockKeeps ==
  ASSUME Inv, NEW t \in Thread, RLock(t)
  PROVE  Inv'
<1>1. PICK s \in Shard: s = SegmentOf(t)
  BY PickedIsShard DEF Inv, Calls, RLock, SegmentOf
<1>2. CASE writer_entered[s] \/ reader_count[s] = MaxReaders
  BY <1>1, <1>2, MoveAside, StandStillKeeps DEF RLock, Inv, Calls, Label
<1>3. CASE ~(writer_entered[s] \/ reader_count[s] = MaxReaders)
  <2>1. /\ pc[t] = "lock" /\ ~IsWriter(t) /\ pc' = [pc EXCEPT ![t] = "read"]
        /\ reader_count' = [reader_count EXCEPT ![s] = @ + 1]
        /\ writer_entered' = writer_entered /\ call' = call
    BY <1>1, <1>3 DEF RLock, Goto
  <2>2. Calls'
    BY <1>1, <2>1 DEF Inv, Calls, Label, IsWriter
  <2>3. \A r \in Shard: Entered(r)' = Entered(r) /\ Writers(r)' = Writers(r)
    BY <1>1, <2>1 DEF Inv, Calls, Entered, Writers, IsWriter, SegmentOf
  <2>4. \A r \in Shard: Readers(r)' = IF r = s THEN Readers(r) \cup {t} ELSE Readers(r)
    BY <1>1, <2>1 DEF Inv, Calls, Readers, IsWriter, SegmentOf
  <2>5. t \notin Readers(s) /\ Writers(s) = {}
    BY <1>1, <1>3, <2>1 DEF Inv, Exclusive, Readers, Entered
  <2>6. Cardinality(Readers(s)') = reader_count'[s] /\ reader_count'[s] <= MaxReaders
    <3>1. reader_count'[s] = reader_count[s] + 1
      BY <1>1, <2>1 DEF Inv, Calls
    <3>2. Cardinality(Readers(s)') = Cardinality(Readers(s)) + 1
      BY <1>1, <2>4, <2>5, ReadersFinite, FS_AddElement
    <3>3. reader_count[s] \in Int /\ reader_count[s] < MaxReaders /\ reader_count[s] = Cardinality(Readers(s))
      BY <1>1, <1>3, TableAssumption DEF Inv, Calls, Exclusive
    <3> QED
      BY <3>1, <3>2, <3>3, TableAssumption
  <2>7. \A r \in Shard: r # s => reader_count'[r] = reader_count[r]
    BY <2>1 DEF Inv, Calls
  <2>8. Exclusive'
    <3> SUFFICES ASSUME NEW r \in Shard
                 PROVE  /\ Writers(r)' # {} => Readers(r)' = {}
                        /\ \A x, u \in Entered(r)': x = u
                        /\ writer_entered'[r] <=> Entered(r)' # {}
                        /\ reader_count'[r] = Cardinality(Readers(r)') /\ reader_count'[r] <= MaxReaders
      BY DEF Exclusive
    <3>1. CASE r = s
      BY <2>1, <2>3, <2>5, <2>6, <3>1 DEF Inv, Exclusive
    <3>2. CASE r # s
      BY <2>1, <2>3, <2>4, <2>7, <3>2 DEF Inv, Exclusive
    <3> QED
      BY <3>1, <3>2
  <2> QED
    BY <2>2, <2>8 DEF Inv
<1> QED
  BY <1>2, <1>3

\* WLock waits, or is the only one to enter.
LEMMA WLockKeeps ==
  ASSUME Inv, NEW t \in Thread, WLock(t)
  PROVE  Inv'
<1>1. PICK s \in Shard: s = SegmentOf(t)
  BY PickedIsShard DEF Inv, Calls, WLock, SegmentOf
<1>2. CASE writer_entered[s]
  BY <1>1, <1>2, MoveAside, StandStillKeeps DEF WLock, Inv, Calls, Label
<1>3. CASE ~writer_entered[s]
  <2>1. /\ pc[t] = "lock" /\ IsWriter(t) /\ pc' = [pc EXCEPT ![t] = "drain"]
        /\ writer_entered' = [writer_entered EXCEPT ![s] = TRUE]
        /\ reader_count' = reader_count /\ call' = call
    BY <1>1, <1>3 DEF WLock, Goto
  <2>2. Calls'
    BY <1>1, <2>1 DEF Inv, Calls, Label, IsWriter
  <2>3. \A r \in Shard: Readers(r)' = Readers(r) /\ Writers(r)' = Writers(r)
    BY <2>1 DEF Inv, Calls, Readers, Writers, IsWriter, SegmentOf
  <2>4. \A r \in Shard: Entered(r)' = IF r = s THEN Entered(r) \cup {t} ELSE Entered(r)
    BY <1>1, <2>1 DEF Inv, Calls, Entered, Writers, IsWriter, SegmentOf
  <2>5. Entered(s) = {}
    BY <1>1, <1>3 DEF Inv, Exclusive
  <2>6. writer_entered'[s] /\ \A r \in Shard: r # s => writer_entered'[r] = writer_entered[r]
    BY <1>1, <2>1 DEF Inv, Calls
  <2>7. Exclusive'
    <3> SUFFICES ASSUME NEW r \in Shard
                 PROVE  /\ \A x, u \in Entered(r)': x = u
                        /\ writer_entered'[r] <=> Entered(r)' # {}
      BY <2>1, <2>3 DEF Inv, Exclusive
    <3>1. CASE r = s
      BY <2>4, <2>5, <2>6, <3>1
    <3>2. CASE r # s
      BY <2>4, <2>6, <3>2 DEF Inv, Exclusive
    <3> QED
      BY <3>1, <3>2
  <2> QED
    BY <2>2, <2>7 DEF Inv
<1> QED
  BY <1>2, <1>3

\* WLock goes on once the readers it found have left.
LEMMA DrainKeeps ==
  ASSUME Inv, NEW t \in Thread, Drain(t)
  PROVE  Inv'
<1>1. PICK s \in Shard: s = SegmentOf(t)
  BY PickedIsShard DEF Inv, Calls, Drain, SegmentOf
<1>2. CASE reader_count[s] > 0
  BY <1>1, <1>2, MoveAside, StandStillKeeps DEF Drain, Inv, Calls, Label
<1>3. CASE ~(reader_count[s] > 0)
  <2>1. /\ pc[t] = "drain" /\ IsWriter(t) /\ pc' = [pc EXCEPT ![t] = "write"]
        /\ writer_entered' = writer_entered /\ reader_count' = reader_count /\ call' = call
    BY <1>1, <1>3 DEF Drain, Goto, latch, Inv, Calls
  <2>2. Calls'
    BY <2>1 DEF Inv, Calls, Label, IsWriter
  <2>3. \A r \in Shard: Readers(r)' = Readers(r) /\ Entered(r)' = Entered(r)
    BY <2>1 DEF Inv, Calls, Readers, Entered, Writers, IsWriter, SegmentOf
  <2>4. \A r \in Shard: r # s => Writers(r)' = Writers(r)
    BY <1>1, <2>1 DEF Inv, Calls, Writers, IsWriter, SegmentOf
  <2>5. Readers(s) = {}
    <3>1. Cardinality(Readers(s)) \in Nat /\ ~(Cardinality(Readers(s)) > 0)
      BY <1>3, ReadersFinite, FS_CardinalityType DEF Inv, Exclusive
    <3> QED
      BY <3>1, ReadersFinite, FS_EmptySet
  <2>6. Exclusive'
    BY <2>1, <2>3, <2>4, <2>5 DEF Inv, Exclusive
  <2> QED
    BY <2>2, <2>6 DEF Inv
<1> QED
  BY <1>2, <1>3

\* t returns, and threads that wait may be woken.
Leaves(t) ==
  /\ pc' \in [Thread -> Label] /\ pc'[t] = "idle"
  /\ \A u \in Thread: u # t =>
       \/ pc'[u] = pc[u]
       \/ pc[u] = "wait_reader" /\ pc'[u] = "lock"
       \/ pc[u] = "wait_writer" /\ pc'[u] = "drain"

\* Waking a thread moves no one through a latch.
LEMMA NotifyOneLeaves ==
  ASSUME Calls, NEW t \in Thread, pc[t] = "unlock", NEW s,
         NEW c \in {"wait_reader", "wait_writer"}, NotifyOne(t, c, s)
  PROVE  Leaves(t)
<1>1. CASE Waiting(c, s) = {}
  BY <1>1 DEF NotifyOne, Goto, Leaves, Calls, Label
<1>2. CASE Waiting(c, s) # {}
  <2>1. PICK u \in Waiting(c, s): pc' = [pc EXCEPT ![t] = "idle", ![u] = Woken(c)]
    BY <1>2 DEF NotifyOne
  <2>2. u \in Thread /\ pc[u] = c /\ u # t
    BY <2>1 DEF Waiting
  <2> QED
    BY <2>1, <2>2 DEF Woken, Leaves, Calls, Label
<1> QED
  BY <1>1, <1>2

\* The thread that returns is the only one to leave its segment.
LEMMA LeavesAlone ==
  ASSUME Calls, NEW t \in Thread, pc[t] = "unlock", Leaves(t), Return(t),
         reader_count' \in [Shard -> Int], writer_entered' \in [Shard -> BOOLEAN]
  PROVE  /\ Calls'
         /\ \A r \in Shard: /\ Readers(r)' = Readers(r) \ {t}
                            /\ Writers(r)' = Writers(r) \ {t}
                            /\ Entered(r)' = Entered(r) \ {t}
<1>1. call' = [u \in Thread |-> call'[u]] /\ \A u \in Thread: u # t => call'[u] = call[u]
  BY DEF Calls, Return
<1>2. \A u \in Thread: u # t => /\ IsWriter(u)' <=> IsWriter(u)
                                /\ SegmentOf(u)' = SegmentOf(u)
  BY <1>1 DEF IsWriter, SegmentOf
<1>3. Calls'
  BY <1>1, <1>2 DEF Calls, Leaves
<1>4. ASSUME NEW r \in Shard
      PROVE  /\ Readers(r)' = Readers(r) \ {t}
             /\ Writers(r)' = Writers(r) \ {t}
             /\ Entered(r)' = Entered(r) \ {t}
  BY <1>2 DEF Leaves, Readers, Writers, Entered
<1> QED
  BY <1>3, <1>4

\* RUnlock takes one reader out.
LEMMA RUnlockKeeps ==
  ASSUME Inv, NEW t \in Thread, RUnlock(t)
  PROVE  Inv'
<1>1. PICK s \in Shard: s = SegmentOf(t)
  BY PickedIsShard DEF Inv, Calls, RUnlock, SegmentOf
<1>2. /\ pc[t] = "unlock" /\ ~IsWriter(t) /\ Return(t)
      /\ reader_count' = [reader_count EXCEPT ![s] = @ - 1] /\ writer_entered' = writer_entered
  BY <1>1 DEF RUnlock
<1>3. NotifyOne(t, "wait_writer", s) \/ NotifyOne(t, "wait_reader", s) \/ Goto(t, "idle")
  BY <1>1 DEF RUnlock
<1>4. Goto(t, "idle") => Leaves(t)
  BY <1>2 DEF Goto, Leaves, Inv, Calls, Label
<1>5. Leaves(t)
  BY <1>2, <1>3, <1>4, NotifyOneLeaves DEF Inv
<1>6. reader_count' \in [Shard -> Int] /\ writer_entered' \in [Shard -> BOOLEAN]
  BY <1>2 DEF Inv, Calls
<1>7. /\ Calls'
      /\ \A r \in Shard: /\ Readers(r)' = Readers(r) \ {t}
                         /\ Writers(r)' = Writers(r) \ {t}
                         /\ Entered(r)' = Entered(r) \ {t}
  BY <1>2, <1>5, <1>6, LeavesAlone DEF Inv
<1>8. \A r \in Shard: t \notin Writers(r) /\ t \notin Entered(r) /\ (t \in Readers(r) <=> r = s)
  BY <1>1, <1>2 DEF Readers, Writers, Entered
<1>9. \A r \in Shard: reader_count'[r] = Cardinality(Readers(r)') /\ reader_count'[r] <= MaxReaders
  <2> SUFFICES ASSUME NEW r \in Shard
               PROVE  reader_count'[r] = Cardinality(Readers(r)') /\ reader_count'[r] <= MaxReaders
    OBVIOUS
  <2>1. /\ reader_count[r] \in Int /\ reader_count[r] = Cardinality(Readers(r))
        /\ reader_count[r] <= MaxReaders
    BY DEF Inv, Calls, Exclusive
  <2>2. CASE r = s
    <3>1. reader_count'[r] = reader_count[r] - 1
      BY <1>2, <2>2 DEF Inv, Calls
    <3>2. Cardinality(Readers(r)') = Cardinality(Readers(r)) - 1
      BY <1>7, <1>8, <2>2, ReadersFinite, FS_RemoveElement
    <3> QED
      BY <2>1, <3>1, <3>2, TableAssumption
  <2>3. CASE r # s
    <3>1. reader_count'[r] = reader_count[r]
      BY <1>2, <2>3 DEF Inv, Calls
    <3>2. Readers(r)' = Readers(r)
      BY <1>7, <1>8, <2>3
    <3> QED
      BY <2>1, <3>1, <3>2
  <2> QED
    BY <2>2, <2>3
<1>10. ASSUME NEW r \in Shard
       PROVE  /\ Writers(r)' = Writers(r) /\ Entered(r)' = Entered(r)
              /\ Readers(r) = {} => Readers(r)' = {}
  <2>1. Writers(r)' = Writers(r)
    BY <1>7, <1>8
  <2>2. Entered(r)' = Entered(r)
    BY <1>7, <1>8
  <2>3. Readers(r) = {} => Readers(r)' = {}
    BY <1>7
  <2> QED
    BY <2>1, <2>2, <2>3
<1>11. Exclusive'
  BY <1>2, <1>9, <1>10 DEF Inv, Exclusive
<1> QED
  BY <1>7, <1>11 DEF Inv

\* WUnlock takes out the one writer that had entered.
LEMMA WUnlockKeeps ==
  ASSUME Inv, NEW t \in Thread, WUnlock(t)
  PROVE  Inv'
<1>1. PICK s \in Shard: s = SegmentOf(t)
  BY PickedIsShard DEF Inv, Calls, WUnlock, SegmentOf
<1>2. /\ pc[t] = "unlock" /\ IsWriter(t) /\ Return(t)
      /\ writer_entered' = [writer_entered EXCEPT ![s] = FALSE] /\ reader_count' = reader_count
  BY <1>1 DEF WUnlock
<1>3. Leaves(t)
  BY DEF WUnlock, Waiting, Leaves, Inv, Calls, Label
<1>4. reader_count' \in [Shard -> Int] /\ writer_entered' \in [Shard -> BOOLEAN]
  BY <1>2 DEF Inv, Calls
<1>5. /\ Calls'
      /\ \A r \in Shard: /\ Readers(r)' = Readers(r) \ {t}
                         /\ Writers(r)' = Writers(r) \ {t}
                         /\ Entered(r)' = Entered(r) \ {t}
  BY <1>2, <1>3, <1>4, LeavesAlone DEF Inv
<1>6. \A r \in Shard: t \notin Readers(r) /\ (t \in Entered(r) <=> r = s)
  BY <1>1, <1>2 DEF Readers, Writers, Entered
<1>7. ASSUME NEW r \in Shard
      PROVE  Readers(r)' = Readers(r) /\ Writers(r)' \subseteq Writers(r)
  <2>1. Readers(r)' = Readers(r) \ {t} /\ Writers(r)' = Writers(r) \ {t} /\ t \notin Readers(r)
    BY <1>5, <1>6, ZenonT(30)
  <2> QED
    BY <2>1
<1>8. Entered(s)' = {}
  BY <1>5, <1>6 DEF Inv, Exclusive
<1>9. ASSUME NEW r \in Shard, r # s PROVE Entered(r)' = Entered(r)
  BY <1>5, <1>6, <1>9
<1>10. ~writer_entered'[s] /\ \A r \in Shard: r # s => writer_entered'[r] = writer_entered[r]
  BY <1>2 DEF Inv, Calls
<1>11. Exclusive'
  <2> SUFFICES ASSUME NEW r \in Shard
               PROVE  /\ \A x, u \in Entered(r)': x = u
                      /\ writer_entered'[r] <=> Entered(r)' # {}
    BY <1>2, <1>7 DEF Inv, Exclusive
  <2>1. CASE r = s
    BY <1>8, <1>10, <2>1
  <2>2. CASE r # s
    BY <1>9, <1>10, <2>2 DEF Inv, Exclusive
  <2> QED
    BY <2>1, <2>2
<1> QED
  BY <1>5, <1>11 DEF Inv

-----------------------------------------------------------------------------

\* The reader-writer latch does its work in every execution: nobody is inside a
\* segment with a writer, one writer at most has entered, and reader_count_ and
\* writer_entered_ are what the threads inside say they are, so RUnlock never
\* takes the count below zero.
THEOREM LatchExclusive == Spec => []Exclusive
<1>1. Init => Inv
  BY Start
<1>2. Inv /\ [Next]_vars => Inv'
  <2> SUFFICES ASSUME Inv, [Next]_vars PROVE Inv'
    OBVIOUS
  <2>1. CASE UNCHANGED vars
    <3>1. Calls'
      BY <2>1 DEF vars, latch, Inv, Calls, IsWriter
    <3>2. StandStill
      BY <2>1 DEF vars, latch, StandStill, Readers, Writers, Entered, IsWriter, SegmentOf
    <3> QED
      BY <3>1, <3>2, StandStillKeeps DEF Inv
  <2>2. CASE Next
    <3>1. PICK t \in Thread: Invoke(t) \/ Step(t) \/ SpuriousWakeup(t)
      BY <2>2 DEF Next
    <3>2. CASE \/ Invoke(t) \/ LoadSegment(t) \/ CreateSegment(t) \/ SpuriousWakeup(t)
               \/ Get(t) \/ Modify(t) \/ Rehash(t)
      BY <3>2, OffLatch, StandStillKeeps DEF Inv
    <3>3. CASE RLock(t) \/ WLock(t) \/ Drain(t) \/ RUnlock(t) \/ WUnlock(t)
      BY <3>3, RLockKeeps, WLockKeeps, DrainKeeps, RUnlockKeeps, WUnlockKeeps
    <3> QED
      BY <3>1, <3>2, <3>3 DEF Step
  <2> QED
    BY <2>1, <2>2
<1>3. Inv => Exclusive
  BY DEF Inv
<1> QED
  BY <1>1, <1>2, <1>3, PTL DEF Spec
=============================================================================
