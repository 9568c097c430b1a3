--------------------------- MODULE MCDDRLockManager ---------------------------
(* Instances of DDRLockManager: every workload over the given keys. *)
EXTENDS DDRLockManager, TLC

PlainTransactions ==
  {d \in UNION {Contents(K) : K \in SUBSET Key \ {{}}} : ~IsRemaster(d)}

ProperRemasters ==
  UNION {{d \in Contents({k}) : /\ IsRemaster(d)
                                /\ d.type[k] = "WRITE"
                                /\ d.new_master # d.master[k]} : k \in Key}

MCTransaction == PlainTransactions \cup ProperRemasters

Symmetry == Permutations(TxnId) \cup Permutations(Key) \cup Permutations(Region)
=============================================================================
