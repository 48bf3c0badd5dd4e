SPECIFICATION Spec
CONSTANTS
    Runs = {r1, r2}
    Items = {i1, i2}
    LastTable = 2
    MaxNow = 2
SYMMETRY MCSymmetry
CHECK_DEADLOCK FALSE
INVARIANTS
    TypeOK
    IInv
PROPERTIES
    StaysWhole
    ImplementsTable
    AloneMeansClean
