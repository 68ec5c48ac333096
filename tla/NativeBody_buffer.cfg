\* The buffer with acknowledgements: four bytes, every order of appends, reads and acknowledgements.
SPECIFICATION Spec
CONSTANTS
    Bytes = {b1, b2}
    MaxBytes = 4
INVARIANTS
    TypeOK
    HoldsUnacked
PROPERTIES
    ImplementsPipe
CHECK_DEADLOCK FALSE
