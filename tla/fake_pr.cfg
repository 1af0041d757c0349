SPECIFICATION Spec
CONSTANTS
  None = None
  GateTasks = {"t1"}
  Proofs = {"p1", "p2"}
  Runs = {"r1"}
  Targets = {"g1", "g2"}
  Actions = {"create_pr", "memory_write"}
  ApprovalIds = {a1, a2}
  VerifiedProofs = {"p1"}
  MaxTime = 2
SYMMETRY FakePrSymmetry
INVARIANTS GateTypeOK SingleUse GoodApprovalWorks RetryIsIdempotent EachPrHasItsApproval
PROPERTIES AuthorizedWithinApproval DenialIsFinal
