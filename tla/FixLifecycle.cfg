SPECIFICATION Spec
CONSTANTS
  hook = hook skill = skill r1 = r1 r2 = r2
  Artifacts = {hook, skill}
  Refs = {r1, r2}
  Targets = {hook}
  WindowObservations <- MCWindows
  HostEvidence <- MCHostEvidence
  None = None
INVARIANT
  TypeOK
PROPERTIES
  ResolvedOnlyWhenOperating
  RegressionHasCause
  MovedAsRecommended
