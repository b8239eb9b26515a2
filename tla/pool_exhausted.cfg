SPECIFICATION Spec
CONSTANTS
    o1 = o1 o2 = o2 o3 = o3 o4 = o4
    NULL = NULL
    N = 3
    Object = {o1, o2}
    Max = 2
SYMMETRY MCSymmetry
INVARIANT ExhaustedMeansEmpty
