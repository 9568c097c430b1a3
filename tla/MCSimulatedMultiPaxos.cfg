CONSTANTS
  m1 = m1
  m2 = m2
  m3 = m3
  m4 = m4
  m5 = m5
  Machine = {m1, m2, m3, m4, m5}
  Members <- FourMembers
  Value = {v1, v2}
SPECIFICATION Spec
INVARIANTS
  CommittedByMajority
PROPERTIES
  ImplementsTotalOrder
  EveryProposalCommits
CHECK_DEADLOCK FALSE
