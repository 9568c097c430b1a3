------------------------ MODULE MCSimulatedMultiPaxos ------------------------
(* A group of four members, three of them acceptors, and a machine outside. *)
EXTENDS SimulatedMultiPaxos

CONSTANTS m1, m2, m3, m4, m5

FourMembers == <<m1, m2, m3, m4>>
=============================================================================
