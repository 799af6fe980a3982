CONSTANTS
  Sessions = {s1, s2, s3}
  Pods = {p1}
  NoPod = nopod
SPECIFICATION FairSpec
INVARIANTS CountIsExact EstablishedIsSpared
PROPERTIES IdlePodIsCollected SetupEnds
