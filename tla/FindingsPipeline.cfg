SPECIFICATION PipelineSpec
CONSTANTS
  s = s t = t u = u P = P Q = Q idA = idA idB = idB
  MaxDigests = 4
  MaxSize = 3
  MaxCount = 3
  Index <- MCIndex
  Time <- MCTime
  Session <- MCSession
  Project <- MCProject
  Key <- MCKey
  RoundsDown <- MCRoundsDown
  Claims <- MCClaims
  MaxClaims = 2
  Slugs <- MCSlugs
  ClusterId <- MCClusterId
  NoId = NoId
  Ledger = {idA}
  Missing = Missing
CHECK_DEADLOCK FALSE
INVARIANTS
  PlanLoadsBack
  Balanced
  LoopComputesBatches
  RankingAccountsForReports
  MetricsAreOfTheManifest
  RankingIgnoresGroupOrder
  FailedFixRises
