--------------------------- MODULE MCRMALockManager ---------------------------
(* Instances of RMALockManager: every workload over the given keys. *)
EXTENDS RMALockManager, TLC

\* Reads and writes of any keys, with any masters.
PlainTransactions ==
  {d \in UNION {Contents(K) : K \in SUBSET Key \ {{}}} : ~IsRemaster(d)}

RemastersOf(k) == {d \in Contents({k}) : IsRemaster(d) /\ d.type[k] = "WRITE"}

\* Remasters that change the master.
ProperRemasters ==
  {d \in UNION {RemastersOf(k) : k \in Key} : \A k \in Keys(d) : d.new_master # d.master[k]}

MCTransaction == PlainTransactions \cup ProperRemasters

\* Remasters of any kind, among them those whose new master already is the
\* master: what a client gets by repeating a request.
AnyRemasters == UNION {RemastersOf(k) : k \in Key}

Symmetry == Permutations(TxnId) \cup Permutations(Key) \cup Permutations(Region)
=============================================================================
