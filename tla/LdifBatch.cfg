CONSTANTS
    Parts = {"batch", "reports"}
    Job = {j1, j2}
    dsc = dsc
    crl = crl
    Cert = {dsc}
    Crl = {crl}
    Files <- MCFiles
    DbTypes = {"postgres", "oracle"}
    BatchSize = 2
    MaxFaults = 2
    r1 = r1
    r2 = r2
    Bulk = {r1, r2}
    KindOf <- MCKindOf
    CrlId = {"r"}
    Bundles <- MCBundles
    Verdicts <- MCVerdicts
    BulkDbs = {"postgres", "oracle"}
    MaxMishaps = 1
SPECIFICATION MCSpec
INVARIANTS NotesAreTrue DoneIsComplete  VerdictsAddUp 
CHECK_DEADLOCK FALSE
