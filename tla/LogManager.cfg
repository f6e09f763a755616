SPECIFICATION FairSpec
CONSTANTS
  Threads = {t1, t2}
  NoThread = NoThread
  RecordLens = {1, 2}
  InitialLsn = 0
  MaxLsn = 4
INVARIANTS TypeOK ReadyPrefixWritten AckedIsDurable SlotsTile
PROPERTIES FrontiersMonotone ReadyWaitEnds
