SPECIFICATION Spec
CONSTANTS
    Row = {1, 2}
    Attr <- SameTypeAttr
    Runner = {r1, r2}
    BatchSize = 2
    MaxUploads = 0
    MaxCrashes = 1
INVARIANT LogIsTruthful
INVARIANT SummaryAgreesWithLog
