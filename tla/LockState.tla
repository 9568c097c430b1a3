------------------------------ MODULE LockState ------------------------------
(***************************************************************************)
(* The state of one lock <key, region> of the remaster-aware lock manager  *)
(* (class LockState of rma_lock_manager) and its three operations.  The    *)
(* order of holders_ is never used, so the holders are a set; the waiters  *)
(* are a queue.                                                            *)
(***************************************************************************)
EXTENDS Naturals, Sequences

CONSTANT TxnId

LockMode == {"UNLOCKED", "READ", "WRITE"}

Waiter == [txn : TxnId, mode : {"READ", "WRITE"}]

LockStates == [mode : LockMode, holders : SUBSET TxnId, waiters : Seq(Waiter)]

FreeLock == [mode |-> "UNLOCKED", holders |-> {}, waiters |-> <<>>]

Enqueue(s, t, m) == [s EXCEPT !.waiters = Append(@, [txn |-> t, mode |-> m])]

Hold(s, t, m) == [s EXCEPT !.mode = m, !.holders = @ \cup {t}]

\* Mutant: a reader overtakes the waiters.
BargingReadLock(s, t) ==
  IF s.mode # "WRITE" THEN Hold(s, t, "READ") ELSE Enqueue(s, t, "READ")

\* A reader joins the current readers only if nobody is waiting.
AcquireReadLock(s, t) ==
  IF s.mode = "UNLOCKED" \/ (s.mode = "READ" /\ s.waiters = <<>>)
  THEN Hold(s, t, "READ")
  ELSE Enqueue(s, t, "READ")

AcquireWriteLock(s, t) ==
  IF s.mode = "UNLOCKED" THEN Hold(s, t, "WRITE") ELSE Enqueue(s, t, "WRITE")

Acquire(s, t, m) ==
  IF m = "READ" THEN AcquireReadLock(s, t) ELSE AcquireWriteLock(s, t)

\* Mutant: the whole queue gets the lock.
GrantEveryone(q) == Len(q)

\* The waiters that get the lock when its last holder leaves: every reader at
\* the head of the queue, or the single writer there.
NumGrantees(q) ==
  IF q[1].mode = "WRITE" THEN 1
  ELSE CHOOSE n \in 1 .. Len(q) :
          /\ \A i \in 1 .. n : q[i].mode = "READ"
          /\ n < Len(q) => q[n + 1].mode = "WRITE"

Grant(q) ==
  LET n == NumGrantees(q)
  IN  [mode    |-> q[1].mode,
       holders |-> {q[i].txn : i \in 1 .. n},
       waiters |-> SubSeq(q, n + 1, Len(q))]

\* Mutant: the last holder leaves without handing the lock over.
ReleaseWithoutGrant(s, t) ==
  IF t \notin s.holders
  THEN [s EXCEPT !.waiters = SelectSeq(@, LAMBDA w : w.txn # t)]
  ELSE [s EXCEPT !.holders = @ \ {t},
                 !.mode = IF s.holders = {t} THEN "UNLOCKED" ELSE @]

Release(s, t) ==
  IF t \notin s.holders
  THEN [s EXCEPT !.waiters = SelectSeq(@, LAMBDA w : w.txn # t)]
  ELSE IF s.holders # {t} THEN [s EXCEPT !.holders = @ \ {t}]
  ELSE IF s.waiters = <<>> THEN FreeLock
  ELSE Grant(s.waiters)
-----------------------------------------------------------------------------
(***************************************************************************)
(* A consistent lock: its members A are split between the holders and the  *)
(* queue, m[t] is the mode in which member t asked, and before[t] the      *)
(* members that asked before it.  The queue is in the order of asking, the *)
(* holders fit together, and the first waiter cannot join them.            *)
(***************************************************************************)
Queued(s) == {s.waiters[i].txn : i \in 1 .. Len(s.waiters)}

HoldersFit(s, m) ==
  /\ s.mode = "UNLOCKED" <=> s.holders = {}
  /\ \A t \in s.holders : m[t] = s.mode
  /\ s.mode = "WRITE" => \A t, u \in s.holders : t = u

QueueFits(s, m) ==
  /\ \A i \in 1 .. Len(s.waiters) : s.waiters[i].mode = m[s.waiters[i].txn]
  /\ \A i, j \in 1 .. Len(s.waiters) : s.waiters[i].txn = s.waiters[j].txn => i = j
  /\ s.waiters # <<>> => s.mode = "WRITE" \/ (s.mode = "READ" /\ s.waiters[1].mode = "WRITE")

InOrder(s, before, A) ==
  /\ \A t \in s.holders : before[t] \cap A \subseteq s.holders \ {t}
  /\ \A i \in 1 .. Len(s.waiters) :
        before[s.waiters[i].txn] \cap A
          = s.holders \cup {s.waiters[j].txn : j \in 1 .. (i - 1)}

Consistent(s, m, before, A) ==
  /\ A = s.holders \cup Queued(s)
  /\ s.holders \cap Queued(s) = {}
  /\ HoldersFit(s, m)
  /\ QueueFits(s, m)
  /\ InOrder(s, before, A)
=============================================================================
