SPECIFICATION Spec
CONSTANTS
    Keys = {k1}
    Writers = {w1}
    Readers = {r1, r2}
    Ops = {"insert", "update", "delete"}
    Evictable = {k1}
    MaxTs = 3
    MaxCheckpoints = 2
SYMMETRY ReaderSymmetry
INVARIANT LatestReads
PROPERTY ResolvedReadsStable
