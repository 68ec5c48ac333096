\* The extension as it is built: nobody passes acknowledgements on.
SPECIFICATION SpecAsBuilt
CONSTANTS
    Bytes = {b1}
    MaxBytes = 2
PROPERTIES
    ConfirmedIsReleased
CHECK_DEADLOCK FALSE
