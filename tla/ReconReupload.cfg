SPECIFICATION Spec
CONSTANTS
    Row = {1, 2, 3}
    Attr <- TwinAttr
    Runner = {r1}
    BatchSize = 2
    MaxUploads = 1
    MaxCrashes = 0
PROPERTY ImplementsStore
