SPECIFICATION Spec
CONSTANTS
    Services = {p1, p2, p3}
    RowIds = {i1, i2, i3, i4}
    KeyIds = {k1, k2, k3}
    Bytes = {b1, b2, b3, dev}
    DevKey = dev
    Plan <- TwoRotations
    Rolling = FALSE
    k1 = k1
    k2 = k2
    k3 = k3
    b1 = b1
    b2 = b2
    b3 = b3
SYMMETRY ServiceSymmetry
INVARIANTS
    TypeOK
    RowsOpen
    ClearedStaysCleared
    NoMoreRowsThanServices
CHECK_DEADLOCK FALSE
