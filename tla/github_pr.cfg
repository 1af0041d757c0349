SPECIFICATION Spec
CONSTANTS
  None = None
  GateTasks = {"t1"}
  Proofs = {"p1", "p2"}
  Runs = {"r1"}
  Targets = {"g1", "g2"}
  Actions = {"create_pr"}
  ApprovalIds = {"a1", "a2", "a3"}
  VerifiedProofs = {"p1"}
  MaxTime = 2
  Calls = {k1, k2, k3}
  Projections <- MCProjections
  ProjectionIds = {"x", "y"}
  safeId <- MCSafeId
SYMMETRY CallSymmetry
INVARIANTS TypeOK OneRunPerApproval RunWasApproved 
           ListedPrsAreReal
