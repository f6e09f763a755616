CONSTANTS
  F64Fn <- MCF64Fn
  Text <- MCText
  ParseF64 <- MCParseF64
  IndexSets <- MCIndexSets
  Documents <- MCDocuments
  Filters <- MCFilters
  Updates <- MCUpdates
  Sorts <- MCSorts
  Queries <- MCQueries
  MaxDocs = 2
  MaxOps = 3
SPECIFICATION Spec
INVARIANTS EntriesMatchDocuments UniqueHolds PlanAgrees AggregateAgrees
CHECK_DEADLOCK FALSE
