SPECIFICATION Spec
CONSTANTS
    o1 = o1 o2 = o2 o3 = o3 o4 = o4
    NULL = NULL
    N = 2
    Object = {o1, o2, o3, o4}
    Max = 3
SYMMETRY MCSymmetry
INVARIANTS ObjectsInOnePlace ReferencesCounted TotalIsExact
