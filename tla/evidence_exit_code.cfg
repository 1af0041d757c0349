SPECIFICATION Spec
CONSTANTS
  None = None
  WorktreeNames = {"MCR-1"}
  Runs = {"r1", "r2"}
  ProofIds = {"p1"}
  proofIdOf <- OneProofId
  Policy <- McPolicy
  DispatchInputs <- McDispatchInputs
  ForbiddenPaths <- McForbiddenPaths
  Lines <- McLines
  MaxLines = 3
  FinalOutputs <- McFinalOutputs
  SmokeInputs <- McSmokeInputs
  Lessons <- McLessons
INVARIANTS ValidationsExitZero
