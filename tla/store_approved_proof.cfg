SPECIFICATION Spec
CONSTANTS
  None = None
  TaskIds = {"t1"}
  CommandIds = {c1, c2, c3}
  TransitionIds = {"x1", "x2", "x3"}
  Refs = {"a1", "p1", "p2", "f1"}
  StartStates = {"waiting_approval"}
  Commands <- TwoTaskCommands
  Reput = {}
SYMMETRY ClientSymmetry
INVARIANT PrUsesApprovedProof
