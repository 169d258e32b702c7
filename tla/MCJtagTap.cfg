SPECIFICATION Spec
CONSTANT
    MaxBits = 3
INVARIANTS
    DriverInStep
PROPERTIES
    ImplementsScanPort
