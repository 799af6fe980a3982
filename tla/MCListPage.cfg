SPECIFICATION Spec
CONSTANTS
  c1 = c1
  c2 = c2
  r1 = r1
  r2 = r2
  t1 = t1
  Nowhere = Nowhere
  Clusters <- MCClusters
  Names <- MCNames
  System <- MCSystem
  Terms <- MCTerms
  PageSize = 1
  Requests <- MCRequests
  Tasks <- MCTasks
  MaxClicks = 4
SYMMETRY Alike
INVARIANTS
  TypeOK
  TargetsWerePicked
  ReportIsTrue
  CleanSwitchShowsCluster
PROPERTY SearchShowsAHit
CHECK_DEADLOCK FALSE
