SPECIFICATION MCSpec
CONSTANTS
  Clusters = {c1}
  Requests = {1, 2, 3}
  Runtimes = {r1, r2, r3}
  NoRuntime = NoRuntime
  NoCluster = NoCluster
INVARIANTS NoOrphanRuntime SnapshotIsComplete
PROPERTIES EveryCallEnds ImplementsWatchSet
