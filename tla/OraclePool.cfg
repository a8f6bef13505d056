SPECIFICATION Spec
CONSTANTS
    Thread = {t1, t2, t3}
    Depth = 2
    MinSize = 1
    MaxSize = 2
    WordSize = 16
SYMMETRY Symmetry
INVARIANTS AvailableMeansAwake
PROPERTIES ImplementsContract
CHECK_DEADLOCK FALSE
