CONSTANTS
  F64Fn <- MCF64Fn
  Text <- MCText
  ParseF64 <- MCParseF64
  Universe <- MCUniverse
  Days <- MCDays
SPECIFICATION Spec
INVARIANTS KeysInOrder CalendarAgrees ExprLaws
CHECK_DEADLOCK FALSE
