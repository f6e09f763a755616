SPECIFICATION Spec
CONSTANTS
    Keys = {k1, k2}
    Writers = {w1, w2}
    Readers = {}
    Ops = {"insert", "update"}
    Evictable = {}
    MaxTs = 3
    MaxCheckpoints = 0
SYMMETRY WriterKeySymmetry
INVARIANT TypeOK
INVARIANT SnapshotReads
INVARIANT NoDirtyRead
INVARIANT FirstCommitterWins
INVARIANT ChainLinked
