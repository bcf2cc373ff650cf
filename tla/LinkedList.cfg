SPECIFICATION Spec
CONSTANTS
    a1 = a1
    a2 = a2
    a3 = a3
    a4 = a4
    p1 = p1
    p2 = p2
    NULL = NULL
    Cells = {a1, a2, a3, a4}
    Data = {p1, p2}
    WINDOW_SIZE = 3
INVARIANTS
    ListInv
    EndsAreLive
    SizeIsNodes
PROPERTY
    ImplementsQueue
