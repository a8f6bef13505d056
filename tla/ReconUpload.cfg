SPECIFICATION FairSpec
CONSTANTS
    Row = {1, 2}
    Attr <- TwoAttr
    Runner = {r1}
    BatchSize = 2
    MaxUploads = 1
    MaxCrashes = 1
INVARIANTS StoredIsPublished ParentsReady
PROPERTIES EventuallyPublished
