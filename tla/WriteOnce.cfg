SPECIFICATION Spec
CONSTANTS
  quiet = quiet signal = signal broken = broken
  everything = everything onlyFirst = onlyFirst
  f1 = f1 f2 = f2 f3 = f3 k1 = k1 k2 = k2
  Absent = Absent Garbage = Garbage
  Sources = {1, 2}
  Contents <- MCContents
  Signals = {signal}
  Broken = {broken}
  Bytes <- MCBytes
  Scopes = {everything, onlyFirst}
  Selected <- MCSelected
  Findings <- MCFindings
  Evidence <- MCEvidence
  ProposedKey <- MCProposedKey
  ClusterKeys <- MCKeys
  Groupings <- MCGroupings
  Commands <- AllCommands
  Procs = {1}
  RunIds = {1}
  HostMoves = {"stray", "startover"}
  MaxEdits = 1
  MaxCrashes = 1
INVARIANTS
  TypeOK
  PlanFitsManifest
PROPERTIES
  DispatchedPlanStays
  RerunReproducesRanking
  ImplementsHandoff
