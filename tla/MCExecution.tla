----------------------------- MODULE MCExecution -----------------------------
(* Instances of Execution: keys x, z and u on one partition, y on another. *)
EXTENDS Execution

CONSTANTS t1, t2, t3, t4, x, y, z, u, A, B, C, p1, p2, v1, v2

MCPartitionOf == (x :> p1) @@ (y :> p2) @@ (z :> p1) @@ (u :> p1)

SetOf(k, v) == [op |-> "SET", key |-> k, arg |-> v]
EqOf(k, v) == [op |-> "EQ", key |-> k, arg |-> v]
CopyTo(s, k) == [op |-> "COPY", src |-> s, key |-> k]
DelOf(k) == [op |-> "DEL", key |-> k]

Plain(type, master) == [type |-> type, master |-> master, new_master |-> NoRegion]
RemasterOf(k, from, to) == [type |-> k :> "WRITE", master |-> k :> from, new_master |-> to]

\* A transaction with its code and its counters; 1 is the counter at the start.
With(d, c) == [contents |-> d, code |-> c, counter |-> [k \in Keys(d) |-> 1]]

\* The regions with a copy of d in their log; the logs agree on one order.
HomesOf(prot, d) ==
  IF prot = "COUNTERLESS" THEN InvolvedReplicas(d) ELSE {d.master[k] : k \in Keys(d)}

MakeScenarioOn(stored, prot, ts) ==
  [protocol |-> prot,
   txn |-> [t \in DOMAIN ts |-> ts[t].contents],
   code |-> [t \in DOMAIN ts |-> ts[t].code],
   counter |-> [t \in DOMAIN ts |-> ts[t].counter],
   log |-> [h \in Region |->
              SelectSeq(<<t1, t2, t3, t4>>,
                        LAMBDA t : t \in DOMAIN ts /\ h \in HomesOf(prot, ts[t].contents))],
   stored |-> stored]

StoredAs(master, count) == [master |-> master, counter |-> count, value |-> v1]

MakeScenario(prot, ts) == MakeScenarioOn([k \in {x, y} |-> StoredAs(A, 1)], prot, ts)

\* Copies x to y over both partitions; reads y where x is written.
CopyXY == With(Plain((x :> "READ") @@ (y :> "WRITE"), (x :> A) @@ (y :> A)), <<CopyTo(x, y)>>)
SetXIfY == With(Plain((x :> "WRITE") @@ (y :> "READ"), (x :> A) @@ (y :> A)),
                <<EqOf(y, v1), SetOf(x, v2)>>)
SetX(m) == With(Plain(x :> "WRITE", x :> m), <<SetOf(x, v2), DelOf(x)>>)
\* Both partitions are active; z is new.
SetXYZ == With(Plain((x :> "WRITE") @@ (y :> "WRITE") @@ (z :> "WRITE"),
                     (x :> A) @@ (y :> A) @@ (z :> B)),
               <<CopyTo(y, x), SetOf(y, v2), SetOf(z, v2)>>)
SetXBYA == With(Plain((x :> "WRITE") @@ (y :> "WRITE"), (x :> B) @@ (y :> A)),
                <<EqOf(x, v1), SetOf(x, v2), SetOf(y, v2)>>)
Remaster(to) == With(RemasterOf(x, A, to), <<>>)

Txns(a, b, c) == (t1 :> a) @@ (t2 :> b) @@ (t3 :> c)

\* Conflicting transactions over both partitions, with code that depends on the
\* reads; a remaster between transactions with the old and the new master.
CounterlessScenarios ==
  {MakeScenario("COUNTERLESS", Txns(a, b, c)) :
     a \in {SetXIfY, SetXYZ}, b \in {Remaster(B), SetX(A)}, c \in {SetXBYA, CopyXY}}
  \cup {MakeScenario("COUNTERLESS", Txns(Remaster(B), a, b)) :
          a \in {CopyXY, SetXYZ}, b \in {SetXBYA, SetX(A)}}

\* With counters a transaction whose metadata is ahead waits for the remaster.
SetXAhead == [With(Plain(x :> "WRITE", x :> B), <<SetOf(x, v2)>>) EXCEPT !.counter = x :> 2]
SetXYAhead == [SetXBYA EXCEPT !.counter = (x :> 2) @@ (y :> 1)]

\* Not among the cases: after the remaster, a multi-home transaction and then one
\* with old metadata for both partitions wait for each other's partition for ever.
CounterScenarios ==
  {MakeScenario(prot, ts) :
     prot \in {"SIMPLE", "PER_KEY"},
     ts \in {Txns(Remaster(B), a, b) : a \in {SetXAhead, SetXIfY}, b \in {SetXAhead, SetXYAhead}}
            \cup {Txns(a, Remaster(B), b) : a \in {SetXIfY, CopyXY},
                                            b \in {SetXAhead, SetXYAhead, SetX(A)}}}

\* Sets keys of one partition, with these masters and counters.
SetKeys(master, count) ==
  [contents |-> Plain([k \in DOMAIN master |-> "WRITE"], master),
   code |-> <<SetOf(CHOOSE k \in DOMAIN master : TRUE, v2)>>, counter |-> count]
RemasterAt(k, from, to, count) == [contents |-> RemasterOf(k, from, to), code |-> <<>>,
                                   counter |-> k :> count]

\* New keys, with a counter of 0 and the master that initialization gives them.
NewKeyScenarios ==
  {MakeScenario(prot, (t1 :> Remaster(B))
                      @@ (t2 :> SetKeys((x :> A) @@ (z :> m), (x :> 1) @@ (z :> 0)))
                      @@ (t3 :> SetKeys(z :> m, z :> 0))) :
     prot \in {"SIMPLE", "PER_KEY"}, m \in {A, B}}

\* A transaction with two homes at one partition, one of them outdated by a remaster.
TwoHomesScenarios ==
  {MakeScenarioOn((x :> StoredAs(A, 1)) @@ (z :> StoredAs(B, 1)), prot,
                  (t1 :> Remaster(B))
                  @@ (t2 :> SetKeys((x :> A) @@ (z :> B), (x :> 1) @@ (z :> 1)))
                  @@ (t3 :> SetKeys(z :> B, z :> 1))) :
     prot \in {"SIMPLE", "PER_KEY"}}

\* Both copies of t4, or of t2 and t3, are blocked when the remaster t1 outdates them.
BlockedTwiceScenarios ==
  {MakeScenarioOn((x :> StoredAs(B, 2)) @@ (z :> StoredAs(C, 1)), prot,
                  (t1 :> RemasterAt(x, B, A, 2))
                  @@ (t2 :> SetKeys(x :> A, x :> 3))
                  @@ (t3 :> SetKeys((x :> B) @@ (z :> B), (x :> 2) @@ (z :> 2)))
                  @@ (t4 :> SetKeys((x :> B) @@ (z :> A), (x :> 2) @@ (z :> 0)))) :
     prot \in {"SIMPLE", "PER_KEY"}}
  \cup
  {MakeScenarioOn((x :> StoredAs(B, 2)) @@ (z :> StoredAs(C, 1)) @@ (u :> StoredAs(C, 1)), prot,
                  (t1 :> RemasterAt(x, B, A, 2))
                  @@ (t2 :> SetKeys((x :> B) @@ (z :> B) @@ (u :> A), (x :> 2) @@ (z :> 2) @@ (u :> 2)))
                  @@ (t3 :> SetKeys((x :> B) @@ (u :> A), (x :> 2) @@ (u :> 0)))) :
     prot \in {"SIMPLE", "PER_KEY"}}

\* t3 waits for z with t2, and its other copy waits with it.
IndirectScenarios ==
  {MakeScenarioOn((x :> StoredAs(A, 1)) @@ (z :> StoredAs(C, 1)), prot,
                  (t1 :> RemasterAt(z, C, B, 1))
                  @@ (t2 :> SetKeys(z :> B, z :> 2))
                  @@ (t3 :> SetKeys((x :> A) @@ (z :> B), (x :> 1) @@ (z :> 2)))) :
     prot \in {"SIMPLE", "PER_KEY"}}

MCScenario ==
  CounterlessScenarios \cup CounterScenarios \cup NewKeyScenarios \cup TwoHomesScenarios
  \cup BlockedTwiceScenarios \cup IndirectScenarios

\* Two remasters of the same key with the same master metadata.
StaleRemaster == {MakeScenario("COUNTERLESS", Txns(Remaster(B), Remaster(C), SetX(B)))}

MCTransaction == UNION {{s.txn[t] : t \in DOMAIN s.txn} : s \in MCScenario \cup StaleRemaster}
=============================================================================
