SPECIFICATION AutoFairSpec
CONSTANTS
    Row = {1, 2}
    Attr <- TwoAttr
    Runner = {daily}
    Scheduler = daily
    BatchSize = 2
    MaxUploads = 0
    MaxCrashes = 1
INVARIANTS SyncedIsTrue
PROPERTIES DailyPublishes
