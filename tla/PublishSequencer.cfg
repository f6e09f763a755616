SPECIFICATION FairSpec
CONSTANTS
  Writers = {w1, w2, w3}
  Readers = {r1}
  NoThread = NoThread
  InitialSeq = 1
  InitialTs = 2
  MaxSeq = 3
  MaxTs = 5
  MaxFailures = 1
INVARIANTS TypeOK FrontierPassesTerminal SeqOrderIsTsOrder ViewBehindFrontier OkMeansPublished
PROPERTIES PublishMonotone PublishWaitEnds
CHECK_DEADLOCK FALSE
