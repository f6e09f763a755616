SPECIFICATION Spec
CONSTANTS
    Views = {v1}
    MaxPages = 5
    MaxBatch = 1
    MaxBatches = 3
INVARIANTS PageOwnedOnce FreeListsSound DroppedPagesStayReadable
CHECK_DEADLOCK FALSE
