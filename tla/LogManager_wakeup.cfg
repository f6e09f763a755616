SPECIFICATION FairSpec
CONSTANTS
  Threads = {t1, t2}
  NoThread = NoThread
  RecordLens = {1}
  InitialLsn = 0
  MaxLsn = 2
PROPERTY SyncWaitEnds
