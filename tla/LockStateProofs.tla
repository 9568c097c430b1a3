--------------------------- MODULE LockStateProofs ---------------------------
(***************************************************************************)
(* Each operation on a lock keeps it consistent.                           *)
(***************************************************************************)
EXTENDS LockState, TLAPS, WellFoundedInduction, SequenceTheorems

\* A member that leaves or joins somewhere else does not disturb a lock:
\* consistency looks at the modes and arrival sets of its members only.
LEMMA ConsistentFrame ==
  ASSUME NEW s \in LockStates, NEW A, NEW m, NEW n, NEW a, NEW b,
         Consistent(s, m, a, A),
         \A t \in A : n[t] = m[t] /\ b[t] = a[t]
  PROVE  Consistent(s, n, b, A)
<1>1. \A t \in s.holders : t \in A /\ n[t] = m[t] /\ b[t] = a[t]
  BY DEF Consistent
<1>2. \A i \in 1 .. Len(s.waiters) :
        LET t == s.waiters[i].txn IN t \in A /\ n[t] = m[t] /\ b[t] = a[t]
  BY DEF Consistent, Queued
<1>3. HoldersFit(s, n)
  BY <1>1 DEF Consistent, HoldersFit
<1>4. QueueFits(s, n)
  BY <1>2 DEF Consistent, QueueFits
<1>5. InOrder(s, b, A)
  BY <1>1, <1>2 DEF Consistent, InOrder
<1> QED
  BY <1>3, <1>4, <1>5 DEF Consistent

\* A free lock is consistent with no member.
LEMMA FreeLockConsistent ==
  ASSUME NEW m, NEW a
  PROVE  FreeLock \in LockStates /\ Consistent(FreeLock, m, a, {})
BY DEF FreeLock, LockStates, LockMode, Waiter, Consistent, Queued, HoldersFit, QueueFits, InOrder

\* t is the last of A and itself to ask.
Last(t, a, A) == a[t] \cap (A \cup {t}) = A /\ \A u \in A : t \notin a[u]

\* A request of mode k is granted at once.
Joins(s, k) == \/ s.mode = "UNLOCKED"
               \/ s.mode = "READ" /\ k = "READ" /\ s.waiters = <<>>

\* What Hold does to the fields of a lock.
LEMMA HoldShape ==
  ASSUME NEW s \in LockStates, NEW t \in TxnId, NEW k \in {"READ", "WRITE"}
  PROVE  /\ Hold(s, t, k) \in LockStates
         /\ Hold(s, t, k).mode = k
         /\ Hold(s, t, k).holders = s.holders \cup {t}
         /\ Hold(s, t, k).waiters = s.waiters
BY DEF Hold, LockStates, LockMode

\* Joining the holders.
LEMMA HoldConsistent ==
  ASSUME NEW s \in LockStates, NEW A, NEW m, NEW a, NEW t \in TxnId, t \notin A,
         Consistent(s, m, a, A), NEW k \in {"READ", "WRITE"}, m[t] = k,
         Last(t, a, A),
         Joins(s, k)
  PROVE  Consistent(Hold(s, t, k), m, a, A \cup {t})
<1> DEFINE r == Hold(s, t, k)
<1>1. s.waiters = <<>>
  BY DEF Consistent, HoldersFit, QueueFits, Joins
<1>2. r.mode = k /\ r.holders = s.holders \cup {t} /\ r.waiters = <<>>
  BY <1>1, HoldShape
<1> HIDE DEF r
<1>3. Queued(r) = {} /\ A = s.holders
  BY <1>1, <1>2 DEF Consistent, Queued
<1>4. HoldersFit(r, m)
  BY <1>2 DEF Consistent, HoldersFit, Joins
<1>5. QueueFits(r, m)
  BY <1>2 DEF QueueFits
<1>6. InOrder(r, a, A \cup {t})
  BY <1>2, <1>3 DEF Consistent, InOrder, Last
<1> QED
  BY <1>2, <1>3, <1>4, <1>5, <1>6 DEF Consistent, r

\* What Enqueue does to the fields of a lock.
LEMMA EnqueueShape ==
  ASSUME NEW s \in LockStates, NEW t \in TxnId, NEW k \in {"READ", "WRITE"}
  PROVE  /\ Enqueue(s, t, k) \in LockStates
         /\ Enqueue(s, t, k).mode = s.mode
         /\ Enqueue(s, t, k).holders = s.holders
         /\ Len(s.waiters) \in Nat
         /\ Len(Enqueue(s, t, k).waiters) = Len(s.waiters) + 1
         /\ \A i \in 1 .. Len(s.waiters) : Enqueue(s, t, k).waiters[i] = s.waiters[i]
         /\ Enqueue(s, t, k).waiters[Len(s.waiters) + 1].txn = t
         /\ Enqueue(s, t, k).waiters[Len(s.waiters) + 1].mode = k
         /\ Enqueue(s, t, k).waiters # <<>>
<1> DEFINE w == [txn |-> t, mode |-> k]
<1>1. w \in Waiter /\ w.txn = t /\ w.mode = k
  BY DEF Waiter
<1>2. s.waiters \in Seq(Waiter)
  BY DEF LockStates
<1>3. Enqueue(s, t, k) = [s EXCEPT !.waiters = Append(s.waiters, w)]
  BY DEF Enqueue
<1> HIDE DEF w
<1>4. Append(s.waiters, w) \in Seq(Waiter)
  BY <1>1, <1>2
<1>5. ASSUME NEW q \in Seq(Waiter)
      PROVE  LET r == [s EXCEPT !.waiters = q]
             IN  r \in LockStates /\ r.mode = s.mode /\ r.holders = s.holders /\ r.waiters = q
  BY SMTT(30) DEF LockStates
<1>6. /\ Enqueue(s, t, k) \in LockStates
      /\ Enqueue(s, t, k).mode = s.mode
      /\ Enqueue(s, t, k).holders = s.holders
      /\ Enqueue(s, t, k).waiters = Append(s.waiters, w)
  BY <1>3, <1>4, <1>5
<1>7. /\ Len(s.waiters) \in Nat
      /\ Len(Append(s.waiters, w)) = Len(s.waiters) + 1
      /\ \A i \in 1 .. Len(s.waiters) : Append(s.waiters, w)[i] = s.waiters[i]
      /\ Append(s.waiters, w)[Len(s.waiters) + 1] = w
      /\ Append(s.waiters, w) # <<>>
  BY <1>1, <1>2
<1> QED
  BY <1>1, <1>6, <1>7

\* Joining the queue.
LEMMA EnqueueConsistent ==
  ASSUME NEW s \in LockStates, NEW A, NEW m, NEW a, NEW t \in TxnId, t \notin A,
         Consistent(s, m, a, A), NEW k \in {"READ", "WRITE"}, m[t] = k,
         Last(t, a, A),
         ~Joins(s, k)
  PROVE  Consistent(Enqueue(s, t, k), m, a, A \cup {t})
<1> DEFINE r == Enqueue(s, t, k)
           n == Len(s.waiters)
<1>1. /\ r \in LockStates /\ r.mode = s.mode /\ r.holders = s.holders
      /\ n \in Nat /\ Len(r.waiters) = n + 1
      /\ \A i \in 1 .. n : r.waiters[i] = s.waiters[i]
      /\ r.waiters[n + 1].txn = t /\ r.waiters[n + 1].mode = k
      /\ r.waiters # <<>>
  BY EnqueueShape, SMTT(30)
<1> HIDE DEF r
<1>2. \A i \in 1 .. n : s.waiters[i].txn \in A /\ s.waiters[i].txn # t
  BY DEF Consistent, Queued
<1> DEFINE q == s.waiters
           p == r.waiters
<1>3. ASSUME NEW i \in 1 .. Len(p)
      PROVE  \/ i \in 1 .. n /\ p[i] = q[i]
             \/ i = n + 1 /\ p[i].txn = t /\ p[i].mode = k
  BY <1>1
<1>4. Queued(r) = Queued(s) \cup {t}
  <2>1. ASSUME NEW x \in Queued(r) PROVE x \in Queued(s) \cup {t}
    <3>1. PICK i \in 1 .. Len(p) : x = p[i].txn
      BY DEF Queued
    <3> QED
      BY <3>1, <1>3 DEF Queued
  <2>2. ASSUME NEW x \in Queued(s) PROVE x \in Queued(r)
    <3>1. PICK i \in 1 .. n : x = q[i].txn
      BY DEF Queued
    <3>2. i \in 1 .. Len(p) /\ p[i] = q[i]
      BY <1>1
    <3> QED
      BY <3>1, <3>2 DEF Queued
  <2>3. t \in Queued(r)
    BY <1>1 DEF Queued
  <2> QED
    BY <2>1, <2>2, <2>3
<1>5. HoldersFit(r, m)
  BY <1>1 DEF Consistent, HoldersFit
<1>6. QueueFits(r, m)
  <2>1. ASSUME NEW i \in 1 .. Len(p) PROVE p[i].mode = m[p[i].txn]
    BY <1>3, SMTT(30) DEF Consistent, QueueFits
  <2>2. ASSUME NEW i \in 1 .. Len(p), NEW j \in 1 .. Len(p), p[i].txn = p[j].txn
        PROVE  i = j
    <3>1. \A x, y \in 1 .. n : q[x].txn = q[y].txn => x = y
      BY DEF Consistent, QueueFits
    <3>2. \/ i \in 1 .. n /\ p[i] = q[i]
          \/ i = n + 1 /\ p[i].txn = t
      BY <1>3
    <3>3. \/ j \in 1 .. n /\ p[j] = q[j]
          \/ j = n + 1 /\ p[j].txn = t
      BY <1>3
    <3> HIDE DEF p, q, n
    <3> QED
      BY <2>2, <3>1, <3>2, <3>3, <1>2 DEF q
  <2>3. r.mode = "WRITE" \/ (r.mode = "READ" /\ p[1].mode = "WRITE")
    <3>1. CASE s.waiters = <<>>
      <4>1. n = 0
        BY <3>1
      <4> QED
        BY <3>1, <4>1, <1>1 DEF LockStates, LockMode, Joins
    <3>2. CASE s.waiters # <<>>
      <4>1. 1 \in 1 .. n
        BY <3>2, <1>1 DEF LockStates
      <4> QED
        BY <3>2, <4>1, <1>1 DEF Consistent, QueueFits
    <3> QED
      BY <3>1, <3>2
  <2> QED
    BY <2>1, <2>2, <2>3 DEF QueueFits
<1>7. InOrder(r, a, A \cup {t})
  <2>1. ASSUME NEW u \in r.holders
        PROVE  a[u] \cap (A \cup {t}) \subseteq r.holders \ {u}
    BY <1>1 DEF Consistent, InOrder, Last
  <2>2. ASSUME NEW i \in 1 .. Len(p)
        PROVE  a[p[i].txn] \cap (A \cup {t}) = r.holders \cup {p[j].txn : j \in 1 .. (i - 1)}
    <3>1. {p[j].txn : j \in 1 .. (i - 1)} = {q[j].txn : j \in 1 .. (i - 1)}
      <4>1. \A j \in 1 .. (i - 1) : p[j] = q[j]
        BY <1>1
      <4> HIDE DEF p, q
      <4> QED
        BY <4>1
    <3>2. CASE i \in 1 .. n
      <4>1. a[q[i].txn] \cap (A \cup {t}) = a[q[i].txn] \cap A
        BY <3>2, <1>2 DEF Last
      <4>2. a[q[i].txn] \cap A = s.holders \cup {q[j].txn : j \in 1 .. (i - 1)}
        BY <3>2 DEF Consistent, InOrder
      <4>3. p[i] = q[i] /\ r.holders = s.holders
        BY <3>2, <1>1
      <4> HIDE DEF p, q
      <4> QED
        BY <3>1, <4>1, <4>2, <4>3
    <3>3. CASE i = n + 1
      <4>1. {q[j].txn : j \in 1 .. (i - 1)} = Queued(s)
        BY <3>3, <1>1 DEF Queued
      <4>2. a[p[i].txn] \cap (A \cup {t}) = A
        BY <3>3, <1>1 DEF Last
      <4>3. A = r.holders \cup Queued(s)
        BY <1>1 DEF Consistent
      <4> QED
        BY <3>1, <4>1, <4>2, <4>3
    <3> QED
      BY <3>2, <3>3, <1>1
  <2> QED
    BY <2>1, <2>2 DEF InOrder
<1>8. Consistent(r, m, a, A \cup {t})
  BY <1>1, <1>4, <1>5, <1>6, <1>7 DEF Consistent
<1> QED
  BY <1>8 DEF r

\* Asking for a lock adds one member, last in order; it holds the lock at
\* once or waits, and nobody else's holding changes.
LEMMA AcquireConsistent ==
  ASSUME NEW s \in LockStates, NEW A, NEW m, NEW a, NEW t \in TxnId, t \notin A,
         Consistent(s, m, a, A), NEW k \in {"READ", "WRITE"}, m[t] = k,
         Last(t, a, A)
  PROVE  /\ Acquire(s, t, k) \in LockStates
         /\ Consistent(Acquire(s, t, k), m, a, A \cup {t})
         /\ Acquire(s, t, k).holders \in {s.holders, s.holders \cup {t}}
<1>1. CASE Joins(s, k)
  <2>1. Acquire(s, t, k) = Hold(s, t, k)
    BY <1>1 DEF Acquire, AcquireReadLock, AcquireWriteLock, Joins
  <2>2. Hold(s, t, k) \in LockStates /\ Hold(s, t, k).holders = s.holders \cup {t}
    BY HoldShape
  <2>3. Consistent(Hold(s, t, k), m, a, A \cup {t})
    BY <1>1, HoldConsistent
  <2> QED
    BY <2>1, <2>2, <2>3
<1>2. CASE ~Joins(s, k)
  <2>1. Acquire(s, t, k) = Enqueue(s, t, k)
    BY <1>2 DEF Acquire, AcquireReadLock, AcquireWriteLock, Joins
  <2>2. Enqueue(s, t, k) \in LockStates /\ Enqueue(s, t, k).holders = s.holders
    BY EnqueueShape
  <2>3. Consistent(Enqueue(s, t, k), m, a, A \cup {t})
    BY <1>2, EnqueueConsistent
  <2> QED
    BY <2>1, <2>2, <2>3
<1> QED
  BY <1>1, <1>2

\* A set of naturals has a least element.
LEMMA LeastNat ==
  ASSUME NEW S \in SUBSET Nat, S # {}
  PROVE  \E n \in S : \A k \in S : n <= k
<1>1. IsWellFoundedOn(OpToRel(<, Nat), Nat)
  BY NatLessThanWellFounded
<1>2. PICK n \in S : \A k \in S : <<k, n>> \notin OpToRel(<, Nat)
  BY <1>1, WFMin
<1>3. \A k \in S : ~(k < n)
  BY <1>2 DEF OpToRel
<1> QED
  BY <1>3

\* The queue has a longest prefix of readers, so NumGrantees is well defined.
LEMMA NumGranteesSpec ==
  ASSUME NEW q \in Seq(Waiter), q # <<>>
  PROVE  LET n == NumGrantees(q)
         IN  /\ n \in 1 .. Len(q)
             /\ q[1].mode = "WRITE" => n = 1
             /\ q[1].mode = "READ" => /\ \A i \in 1 .. n : q[i].mode = "READ"
                                      /\ n < Len(q) => q[n + 1].mode = "WRITE"
<1>1. Len(q) \in Nat /\ 1 \in 1 .. Len(q)
  OBVIOUS
<1>2. \A i \in 1 .. Len(q) : q[i].mode \in {"READ", "WRITE"}
  <2>1. \A i \in 1 .. Len(q) : q[i] \in Waiter
    OBVIOUS
  <2> QED
    BY <2>1 DEF Waiter
<1>3. CASE q[1].mode = "WRITE"
  BY <1>1, <1>3 DEF NumGrantees
<1>4. CASE q[1].mode = "READ"
  <2> DEFINE P(n) == /\ \A i \in 1 .. n : q[i].mode = "READ"
                     /\ n < Len(q) => q[n + 1].mode = "WRITE"
             W == {i \in 1 .. Len(q) : q[i].mode = "WRITE"}
  <2>1. \E n \in 1 .. Len(q) : P(n)
    <3>1. CASE W = {}
      <4>1. P(Len(q))
        BY <3>1, <1>1, <1>2
      <4> QED
        BY <4>1, <1>1
    <3>2. CASE W # {}
      <4>1. W \in SUBSET Nat
        BY <1>1
      <4>2. PICK w \in W : \A i \in W : w <= i
        BY <3>2, <4>1, LeastNat
      <4>3. w - 1 \in 1 .. Len(q) /\ w # 1
        BY <1>4, <1>1
      <4>4. \A i \in 1 .. (w - 1) : q[i].mode = "READ"
        BY <4>2, <1>1, <1>2
      <4>5. P(w - 1)
        BY <4>3, <4>4
      <4> QED
        BY <4>3, <4>5
    <3> QED
      BY <3>1, <3>2
  <2>2. NumGrantees(q) = CHOOSE n \in 1 .. Len(q) : P(n)
    BY <1>4 DEF NumGrantees
  <2>3. NumGrantees(q) \in 1 .. Len(q) /\ P(NumGrantees(q))
    BY <2>1, <2>2
  <2> QED
    BY <1>4, <2>3
<1> QED
  BY <1>1, <1>2, <1>3, <1>4

\* What is left of a queue once its first n waiters are taken.
LEMMA RestOfQueue ==
  ASSUME NEW S, NEW q \in Seq(S), NEW n \in 1 .. Len(q)
  PROVE  /\ SubSeq(q, n + 1, Len(q)) \in Seq(S)
         /\ Len(SubSeq(q, n + 1, Len(q))) = Len(q) - n
         /\ \A i \in 1 .. (Len(q) - n) : SubSeq(q, n + 1, Len(q))[i] = q[i + n]
<1> DEFINE L == Len(q)
           k == n + 1
           p == SubSeq(q, k, L)
<1>1. L \in Nat /\ n \in Nat /\ 1 <= n /\ n <= L
  OBVIOUS
<1>2. k \in Int /\ L \in Int /\ \A i \in k .. L : q[i] \in S
  BY <1>1
<1>3. /\ p \in Seq(S)
      /\ Len(p) = IF k <= L THEN L - k + 1 ELSE 0
      /\ \A i \in 1 .. (L - k + 1) : p[i] = q[k + i - 1]
  <2> HIDE DEF L, k
  <2> QED
    BY <1>2, SubSeqProperties, SMTT(30)
<1> HIDE DEF L, p
<1>4. Len(p) = L - n
  BY <1>1, <1>3
<1>5. ASSUME NEW i \in 1 .. (L - n) PROVE p[i] = q[i + n]
  <2>1. i \in 1 .. (L - k + 1) /\ k + i - 1 = i + n
    BY <1>1
  <2> HIDE DEF k
  <2>2. p[i] = q[k + i - 1]
    BY <1>3, <2>1, ZenonT(30)
  <2> QED
    BY <2>1, <2>2, ZenonT(30)
<1> QED
  BY <1>3, <1>4, <1>5, ZenonT(30) DEF L, p

\* Handing a lock over when its last holder leaves.
LEMMA GrantConsistent ==
  ASSUME NEW s \in LockStates, NEW A, NEW m, NEW a, NEW t \in TxnId,
         Consistent(s, m, a, A), s.holders = {t}, s.waiters # <<>>
  PROVE  /\ Grant(s.waiters) \in LockStates
         /\ Consistent(Grant(s.waiters), m, a, A \ {t})
         /\ t \notin Grant(s.waiters).holders
<1> DEFINE q == s.waiters
           L == Len(q)
           n == NumGrantees(q)
           r == Grant(q)
           p == SubSeq(q, n + 1, L)
<1>1. q \in Seq(Waiter) /\ L \in Nat /\ 1 \in 1 .. L /\ \A i \in 1 .. L : q[i] \in Waiter
  BY DEF LockStates
<1>2. /\ n \in 1 .. L
      /\ q[1].mode = "WRITE" => n = 1
      /\ q[1].mode = "READ" => /\ \A i \in 1 .. n : q[i].mode = "READ"
                               /\ n < L => q[n + 1].mode = "WRITE"
  BY <1>1, NumGranteesSpec
<1>3. \A i \in 1 .. L : q[i].mode \in {"READ", "WRITE"} /\ q[i].txn \in TxnId
  BY <1>1 DEF Waiter
<1>4. r.mode = q[1].mode /\ r.holders = {q[i].txn : i \in 1 .. n} /\ r.waiters = p
  BY DEF Grant
<1> HIDE DEF n
<1>5. /\ p \in Seq(Waiter) /\ Len(p) = L - n
      /\ \A i \in 1 .. (L - n) : p[i] = q[i + n]
  BY <1>1, <1>2, RestOfQueue
<1>6. r \in LockStates
  <2>1. q[1].mode \in LockMode
    BY <1>1, <1>3 DEF LockMode
  <2>2. {q[i].txn : i \in 1 .. n} \in SUBSET TxnId
    <3>1. \A i \in 1 .. n : i \in 1 .. L
      BY <1>1, <1>2
    <3> QED
      BY <1>3, <3>1, ZenonT(30)
  <2>3. r = [mode |-> q[1].mode, holders |-> {q[i].txn : i \in 1 .. n}, waiters |-> p]
    BY ZenonT(30) DEF Grant, n
  <2> DEFINE hs == {q[i].txn : i \in 1 .. n}
             md == q[1].mode
  <2> HIDE DEF hs, md, r, p
  <2> QED
    BY <1>5, <2>1, <2>2, <2>3, ZenonT(30) DEF LockStates, hs, md
<1> HIDE DEF r, p
<1>7. /\ \A i \in 1 .. L : q[i].txn # t /\ q[i].mode = m[q[i].txn]
      /\ \A i, j \in 1 .. L : q[i].txn = q[j].txn => i = j
      /\ A = {t} \cup {q[i].txn : i \in 1 .. L}
      /\ \A i \in 1 .. L : a[q[i].txn] \cap A = {t} \cup {q[j].txn : j \in 1 .. (i - 1)}
  <2>1. \A i \in 1 .. L : q[i].txn # t
    BY DEF Consistent, Queued
  <2>2. \A i \in 1 .. L : q[i].mode = m[q[i].txn]
    BY DEF Consistent, QueueFits
  <2>3. \A i, j \in 1 .. L : q[i].txn = q[j].txn => i = j
    BY DEF Consistent, QueueFits
  <2>4. A = {t} \cup {q[i].txn : i \in 1 .. L}
    BY DEF Consistent, Queued
  <2>5. \A i \in 1 .. L : a[q[i].txn] \cap A = {t} \cup {q[j].txn : j \in 1 .. (i - 1)}
    BY DEF Consistent, InOrder
  <2> QED
    BY <2>1, <2>2, <2>3, <2>4, <2>5
<1> HIDE DEF q, L
<1>8. \A x \in r.holders : \E i \in 1 .. n : i \in 1 .. L /\ x = q[i].txn
  BY <1>1, <1>2, <1>4
<1>9. t \notin r.holders
  BY <1>7, <1>8
<1>10. Queued(r) = {q[i].txn : i \in (n + 1) .. L}
  <2>1. Queued(r) = {p[i].txn : i \in 1 .. (L - n)}
    BY <1>4, <1>5 DEF Queued
  <2>2. ASSUME NEW x \in Queued(r) PROVE x \in {q[i].txn : i \in (n + 1) .. L}
    <3>1. PICK i \in 1 .. (L - n) : x = p[i].txn
      BY <2>1
    <3>2. i + n \in (n + 1) .. L /\ x = q[i + n].txn
      BY <3>1, <1>1, <1>2, <1>5
    <3> QED
      BY <3>2
  <2>3. ASSUME NEW i \in (n + 1) .. L PROVE q[i].txn \in Queued(r)
    <3>1. i - n \in 1 .. (L - n) /\ p[i - n] = q[(i - n) + n] /\ (i - n) + n = i
      BY <1>1, <1>2, <1>5, SMTT(30)
    <3> QED
      BY <2>1, <3>1
  <2> QED
    BY <2>2, <2>3
<1>11. A \ {t} = r.holders \cup Queued(r) /\ r.holders \cap Queued(r) = {}
  <2>1. 1 .. L = 1 .. n \cup (n + 1) .. L /\ 1 .. n \cap (n + 1) .. L = {}
    BY <1>1, <1>2
  <2>2. A \ {t} = {q[i].txn : i \in 1 .. L}
    BY <1>7
  <2>3. \A i \in 1 .. n, j \in (n + 1) .. L : q[i].txn # q[j].txn
    BY <2>1, <1>7
  <2> QED
    BY <2>1, <2>2, <2>3, <1>4, <1>10
<1>12. HoldersFit(r, m)
  <2>1. q[1].txn \in r.holders
    BY <1>2, <1>4, <1>1, SMTT(30)
  <2>2. \A x \in r.holders : m[x] = r.mode
    BY <1>1, <1>2, <1>3, <1>4, <1>7, <1>8, SMTT(30)
  <2>3. r.mode = "WRITE" => \A x, y \in r.holders : x = y
    BY <1>2, <1>4, <1>8
  <2>4. r.mode # "UNLOCKED"
    BY <1>1, <1>3, <1>4
  <2> QED
    BY <2>1, <2>2, <2>3, <2>4 DEF HoldersFit
<1>13. QueueFits(r, m)
  <2>1. ASSUME NEW i \in 1 .. Len(r.waiters)
        PROVE  r.waiters[i].mode = m[r.waiters[i].txn]
    <3>1. i + n \in 1 .. L /\ r.waiters[i] = q[i + n]
      BY <1>1, <1>2, <1>4, <1>5
    <3> QED
      BY <3>1, <1>7
  <2>2. ASSUME NEW i \in 1 .. Len(r.waiters), NEW j \in 1 .. Len(r.waiters),
               r.waiters[i].txn = r.waiters[j].txn
        PROVE  i = j
    <3>1. /\ i + n \in 1 .. L /\ r.waiters[i] = q[i + n]
          /\ j + n \in 1 .. L /\ r.waiters[j] = q[j + n]
      BY <1>1, <1>2, <1>4, <1>5
    <3>2. i + n = j + n
      BY <2>2, <3>1, <1>7
    <3> QED
      BY <3>2, <1>1, <1>2, <1>4, <1>5
  <2>3. ASSUME r.waiters # <<>>
        PROVE  r.mode = "WRITE" \/ (r.mode = "READ" /\ r.waiters[1].mode = "WRITE")
    <3>1. n < L
      BY <2>3, <1>1, <1>2, <1>4, <1>5
    <3>2. r.waiters[1] = q[n + 1]
      BY <3>1, <1>1, <1>2, <1>4, <1>5
    <3> QED
      BY <3>1, <3>2, <1>1, <1>2, <1>3, <1>4, SMTT(30)
  <2> QED
    BY <2>1, <2>2, <2>3 DEF QueueFits
<1>14. InOrder(r, a, A \ {t})
  <2>1. ASSUME NEW x \in r.holders
        PROVE  a[x] \cap (A \ {t}) \subseteq r.holders \ {x}
    <3>1. PICK i \in 1 .. n : i \in 1 .. L /\ x = q[i].txn
      BY <1>8
    <3>2. a[x] \cap (A \ {t}) \subseteq {q[j].txn : j \in 1 .. (i - 1)}
      BY <3>1, <1>7
    <3>3. \A j \in 1 .. (i - 1) : j \in 1 .. n /\ j \in 1 .. L /\ j # i
      BY <3>1, <1>1, <1>2
    <3>4. \A j \in 1 .. (i - 1) : q[j].txn \in r.holders /\ q[j].txn # x
      BY <3>1, <3>3, <1>4, <1>7
    <3> QED
      BY <3>2, <3>4
  <2>2. ASSUME NEW i \in 1 .. Len(r.waiters)
        PROVE  a[r.waiters[i].txn] \cap (A \ {t})
                 = r.holders \cup {r.waiters[j].txn : j \in 1 .. (i - 1)}
    <3>1. i \in Nat /\ i + n \in 1 .. L /\ r.waiters[i] = q[i + n]
      BY <1>1, <1>2, <1>4, <1>5, SMTT(30)
    <3> DEFINE Q == {q[j].txn : j \in 1 .. (i + n - 1)}
    <3>2. a[r.waiters[i].txn] \cap (A \ {t}) = Q
      <4>1. a[q[i + n].txn] \cap A = {t} \cup Q
        <5>1. PICK x \in 1 .. L : x = i + n
          BY <3>1
        <5>2. a[q[x].txn] \cap A = {t} \cup {q[j].txn : j \in 1 .. (x - 1)}
          BY <1>7, ZenonT(30)
        <5>3. x - 1 = i + n - 1
          BY <5>1, <3>1, <1>1, <1>2
        <5>4. {q[j].txn : j \in 1 .. (x - 1)} = Q
          BY <5>3
        <5> HIDE DEF Q
        <5> QED
          BY <5>1, <5>2, <5>4
      <4>2. \A j \in 1 .. (i + n - 1) : j \in 1 .. L
        BY <3>1, <1>1, <1>2
      <4>3. t \notin Q
        BY <4>2, <1>7
      <4> HIDE DEF Q
      <4>4. a[r.waiters[i].txn] \cap A = {t} \cup Q
        BY <3>1, <4>1
      <4> QED
        BY <4>3, <4>4
    <3>3. {r.waiters[j].txn : j \in 1 .. (i - 1)} = {q[j].txn : j \in (n + 1) .. (i + n - 1)}
      <4>1. \A j \in 1 .. (i - 1) : r.waiters[j] = q[j + n] /\ j + n \in (n + 1) .. (i + n - 1)
        BY <3>1, <1>1, <1>2, <1>4, <1>5
      <4>2. \A j \in (n + 1) .. (i + n - 1) :
               j - n \in 1 .. (i - 1) /\ r.waiters[j - n] = q[j]
        <5>1. \A j \in (n + 1) .. (i + n - 1) : j - n \in 1 .. (i - 1) /\ (j - n) + n = j
          BY <3>1, <1>2
        <5> QED
          BY <4>1, <5>1
      <4>3. ASSUME NEW x \in {r.waiters[j].txn : j \in 1 .. (i - 1)}
            PROVE  x \in {q[j].txn : j \in (n + 1) .. (i + n - 1)}
        <5>1. PICK j \in 1 .. (i - 1) : x = r.waiters[j].txn
          BY <4>3
        <5> QED
          BY <4>1, <5>1, SMTT(30)
      <4>4. ASSUME NEW x \in {q[j].txn : j \in (n + 1) .. (i + n - 1)}
            PROVE  x \in {r.waiters[j].txn : j \in 1 .. (i - 1)}
        <5>1. PICK j \in (n + 1) .. (i + n - 1) : x = q[j].txn
          BY <4>4
        <5> QED
          BY <4>2, <5>1, SMTT(30)
      <4> QED
        BY <4>3, <4>4
    <3>4. 1 .. (i + n - 1) = 1 .. n \cup (n + 1) .. (i + n - 1)
      BY <3>1, <1>2
    <3> QED
      BY <3>2, <3>3, <3>4, <1>4
  <2> QED
    BY <2>1, <2>2 DEF InOrder
<1>15. Consistent(r, m, a, A \ {t})
  BY <1>11, <1>12, <1>13, <1>14, SMTT(30) DEF Consistent
<1> QED
  BY <1>6, <1>9, <1>15 DEF r, q

\* A holder that leaves keeps the lock consistent: the others stay, in order,
\* and whoever gets the lock was next.
LEMMA ReleaseConsistent ==
  ASSUME NEW s \in LockStates, NEW A, NEW m, NEW a, NEW t \in s.holders,
         Consistent(s, m, a, A)
  PROVE  /\ Release(s, t) \in LockStates
         /\ Consistent(Release(s, t), m, a, A \ {t})
         /\ s.holders \ {t} \subseteq Release(s, t).holders
         /\ t \notin Release(s, t).holders
<1>1. t \in TxnId /\ s.waiters \in Seq(Waiter) /\ s.holders \subseteq TxnId
  BY DEF LockStates
<1>2. CASE s.holders # {t}
  <2> DEFINE r == Release(s, t)
  <2>1. r = [s EXCEPT !.holders = s.holders \ {t}]
    BY <1>2 DEF Release
  <2>2. /\ r \in LockStates
        /\ r.mode = s.mode /\ r.holders = s.holders \ {t} /\ r.waiters = s.waiters
    BY <2>1, <1>1 DEF LockStates
  <2> HIDE DEF r
  <2>3. Queued(r) = Queued(s) /\ t \notin Queued(s)
    BY <2>2 DEF Queued, Consistent
  <2>4. HoldersFit(r, m)
    BY <1>2, <2>2, SMTT(30) DEF Consistent, HoldersFit
  <2>5. QueueFits(r, m)
    BY <2>2 DEF Consistent, QueueFits
  <2>6. InOrder(r, a, A \ {t})
    <3>1. \A u \in r.holders : a[u] \cap (A \ {t}) \subseteq r.holders \ {u}
      BY <2>2 DEF Consistent, InOrder
    <3>2. ASSUME NEW i \in 1 .. Len(s.waiters)
          PROVE  a[s.waiters[i].txn] \cap (A \ {t})
                   = r.holders \cup {s.waiters[j].txn : j \in 1 .. (i - 1)}
      <4> DEFINE Q == {s.waiters[j].txn : j \in 1 .. (i - 1)}
      <4>1. a[s.waiters[i].txn] \cap A = s.holders \cup Q
        BY DEF Consistent, InOrder
      <4>2. \A j \in 1 .. (i - 1) : j \in 1 .. Len(s.waiters)
        BY <1>1
      <4>3. t \notin Q
        BY <4>2, <2>3 DEF Queued
      <4> HIDE DEF Q
      <4>4. a[s.waiters[i].txn] \cap (A \ {t}) = r.holders \cup Q
        BY <4>1, <4>3, <2>2
      <4> QED
        BY <4>4 DEF Q
    <3> QED
      BY <2>2, <3>1, <3>2, SMTT(30) DEF InOrder
  <2>7. Consistent(r, m, a, A \ {t})
    BY <2>2, <2>3, <2>4, <2>5, <2>6 DEF Consistent
  <2> QED
    BY <2>2, <2>7 DEF r
<1>3. CASE s.holders = {t} /\ s.waiters = <<>>
  <2>1. Release(s, t) = FreeLock
    BY <1>3 DEF Release
  <2>2. A \ {t} = {}
    BY <1>3 DEF Consistent, Queued
  <2>3. FreeLock \in LockStates /\ Consistent(FreeLock, m, a, {})
    BY FreeLockConsistent
  <2>4. FreeLock.holders = {}
    BY DEF FreeLock
  <2> QED
    BY <1>3, <2>1, <2>2, <2>3, <2>4
<1>4. CASE s.holders = {t} /\ s.waiters # <<>>
  <2>1. Release(s, t) = Grant(s.waiters)
    BY <1>4 DEF Release
  <2>2. /\ Grant(s.waiters) \in LockStates
        /\ Consistent(Grant(s.waiters), m, a, A \ {t})
        /\ t \notin Grant(s.waiters).holders
    BY <1>1, <1>4, GrantConsistent
  <2> QED
    BY <1>4, <2>1, <2>2
<1> QED
  BY <1>2, <1>3, <1>4
=============================================================================
