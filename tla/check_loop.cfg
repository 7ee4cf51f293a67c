CONSTANTS
  NoEvent = NoEvent
  CheckConfigs <- MCCheckConfigs
  Answers <- MCAnswers
  NewWeights = {1, 2}
SPECIFICATION FairSpec
INVARIANTS AliveIsLastRound RealKnows QuietAfterStop
PROPERTIES StopEnds ManualWeightArrives
CHECK_DEADLOCK FALSE
