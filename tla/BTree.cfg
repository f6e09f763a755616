SPECIFICATION Spec
CONSTANTS
    Keys = {1, 2, 3, 4, 5, 6}
    KeyLen <- MCKeyLen
    Values = {1, 8, 9}
    LeafPage = 42
    LeafHeader = 20
    InternalPage = 27
    InternalHeader = 12
    MinLeafCells = 2
    OverflowThreshold = 8
INVARIANT TreeSound
PROPERTY ImplementsOrderedMap
CHECK_DEADLOCK FALSE
VIEW TreeView
