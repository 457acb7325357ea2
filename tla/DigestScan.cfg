SPECIFICATION Spec
CONSTANTS
  a = a b = b project = project other = other
  Paths = {a, b}
  Rank <- MCRank
  Folder <- MCFolder
  Subagents = {b}
  Scripts <- MCScripts
  Specs <- MCSpecs
  Since = 1
  NoTime = NoTime NoProject = NoProject NoMeta = NoMeta BadMeta = BadMeta
  Unread = Unread None = None
CHECK_DEADLOCK FALSE
INVARIANTS
  TypeOK
  CompleteMeansWhole
  AcceptedIndexIsTrue
  RefusedForAReason
