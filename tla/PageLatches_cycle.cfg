CONSTANTS
  Readers = {r1}
  Writers = {w1, w2}
  Keys <- MCKeys
  Root = 5
  Level = 1
  Child <- MCChild
  PrevLeaf <- MCPrevLeaf
  NextLeaf <- MCNextLeaf
  InitFill <- MCInitFill
  Building = FALSE
  RetryCap = 2
SPECIFICATION Spec
SYMMETRY MCSymmetry
INVARIANTS LatchesNeverCycle
