SPECIFICATION FairSpec
CONSTANTS
  jvm = jvm
  ognl = ognl
  gc = gc
  blank = blank
  Commands = {jvm, ognl, gc}
  LowRisk = {jvm}
  Blank = blank
  Ids = {1, 2, 3}
  AutoExecLowRisk = TRUE
  MaxPrompts = 2
CONSTANT Plans <- SmallPlans
INVARIANTS NothingRunsUnasked PendingIsAsked SettledIsReported ReportIsComplete
PROPERTIES TurnEnds
CHECK_DEADLOCK FALSE
