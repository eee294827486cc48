SPECIFICATION Spec
CONSTANTS
    Ids = {1, 2, 3}
    Msgs = {m1}
    MaxTime = 2
INVARIANTS
    TypeOK
    IndexesAgree
PROPERTY
    SweepExact
