SPECIFICATION Spec
CONSTANTS
  quiet = quiet signal = signal broken = broken
  everything = everything onlyFirst = onlyFirst
  f1 = f1 f2 = f2 f3 = f3 k1 = k1 k2 = k2
  Absent = Absent Garbage = Garbage
  Sources = {1, 2}
  Contents <- MCOneContent
  Signals = {signal}
  Broken = {}
  Bytes <- MCBytesOfOne
  Scopes = {everything, onlyFirst}
  Selected <- MCSelected
  Findings <- MC3Findings
  Evidence <- MC3Evidence
  ProposedKey <- MC3ProposedKey
  ClusterKeys <- MCKeys
  Groupings <- MC3Groupings
  Commands <- OneBatch
  Procs = {p1, p2}
  RunIds = {r1, r2}
  HostMoves = {"early"}
  MaxEdits = 0
  MaxCrashes = 0
INVARIANTS
  EveryFindingRanked
  FailuresAreReported
  IInv
SYMMETRY MCSymmetry
