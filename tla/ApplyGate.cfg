SPECIFICATION Spec
CONSTANTS
  Paths <- MCPaths
  Ids <- MCIds
  Canonical <- MCCanonical
  Candidates = {"a", "b"}
  Inputs <- MCAllInputs
  Trees <- MCTrees
  Outputs <- MCOutputs
  None = None
  MaxWrites = 3
CHECK_DEADLOCK FALSE
INVARIANTS
  TypeOK
  ChangesHaveOneOwner
  ChangesUnderTargets
  GoodProofsAccepted
