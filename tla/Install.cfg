SPECIFICATION Spec
CONSTANTS
  old = old new = new
  first = first second = second
  Names = {1, 2}
  ManifestName = 1
  Contents = {old, new}
  DirLink = DirLink
  FileLink = FileLink
  Manifest = Manifest
  Absent = Absent
  Sources <- MCSources
  Procs = {first, second}
  MaxEdits = 2
  MaxRuns = 2
SYMMETRY MCSymmetry
INVARIANTS
  TypeOK
  OneSourceState
PROPERTIES
  NeverOverwrites
  SuccessMeansInstalled
  ReinstallAccepted
