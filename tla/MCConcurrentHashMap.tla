------------------------ MODULE MCConcurrentHashMap ------------------------
(***************************************************************************)
(* Three threads and two segments.  Keys 0 and 2 share segment 0, in       *)
(* different buckets once it has two; key 1 has segment 1.  A segment      *)
(* starts with one bucket, so that its first insertion rehashes it.        *)
(***************************************************************************)
EXTENDS ConcurrentHashMap

CONSTANTS t1, t2, t3

MCThread == {t1, t2, t3}

\* All three threads at once, or two of them with a call after another.
MCMaxCalls == {[t \in Thread |-> 1], [t \in Thread |-> IF t = t3 THEN 0 ELSE 2]}

MCHashFn == [k \in Key |-> k]
=============================================================================
