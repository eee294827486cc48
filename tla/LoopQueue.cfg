SPECIFICATION Spec
CONSTANTS
    Size = 3
    Values = {v1, v2}
    None = None
    MaxBulk = 2
INVARIANTS
    TypeOK
    NoOverrun
PROPERTY
    ImplementsFifo
