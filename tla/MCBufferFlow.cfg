CONSTANTS
    Buffers = {b1, b2}
    Vars = {v1, v2}
    NoBuffer = NoBuffer
    Shapes <- MCShapes
    OffsetUvBuf = 28
    SizeofUvBuf = 8
    MaxAlign = 16
    Ends = {"in", "out"}
    NoEnd = NoEnd
    Source = "in"
    Setups <- MCSetups
    MaxLeaked = 1
SYMMETRY Symmetry
SPECIFICATION Spec
CHECK_DEADLOCK FALSE
INVARIANTS ReferencesAccounted NoUseAfterFree LayoutSound
