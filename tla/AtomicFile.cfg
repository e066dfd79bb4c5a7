SPECIFICATION Spec
CONSTANTS
    w1 = w1
    w2 = w2
    d1 = d1
    d2 = d2
    n1 = n1
    n2 = n2
    NoName = NoName
    Empty = Empty
    Partial = Partial
    Absent = Absent
    Writers = {w1, w2}
    Data = {d1, d2}
    Names = {n1, n2}
    MaxFiles = 3
    MaxLoss = 1
SYMMETRY Symmetry
INVARIANT Whole
PROPERTY SaveIsAtomic
