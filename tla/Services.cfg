CONSTANTS
    Parts = {"limiter", "access", "accounts", "progress", "icao", "pa", "import", "search", "files"}
    c1 = c1
    c2 = c2
    Client = {c1, c2}
    Length <- MCLength
    Limit <- MCLimit
    CleanupInterval = 2
    MaxTime = 8
    MaxPerTick = 2
    ApiClient = {c1}
    Key = {1, 2, 3}
    Caller = {r1, r2}
    Keeper = {r1, r2}
    MaxCalls = 2
    MaxLost = 1
    Account = {u1, u2}
    first = u1
    Password = {p0, p1}
    initial = p0
    Session = {s1}
    Life = 1
    LastTick = 2
    MaxTokens = 2
    Job = {j1, j2}
    Loose = {j2}
    Stream = {r1, r2}
    NoStream = NoStream
    LastEvent = 2
    StaleAge = 0
    StaleInterval = 2
    LastHour = 1
    Collection <- MCCollection
    FirstVersion = 9
    LastVersion = 11
    MaxPublished = 2
    Check = {r1, r2}
    Columns = {TRUE, FALSE}
    MaxUploads = 1
    MaxFaults = 1
    ca1 = ca1
    ca2 = ca2
    lc1 = lc1
    Csca = {ca1, ca2, lc1}
    LinkCert = {lc1}
    SelfIssued = {ca1, ca2}
    Sound = {ca1}
    Issuing = {ca1, ca2, lc1}
    Document <- MCDocument
    CrlLimit = 3
    LastDay = 1
    MaxVerified = 1
    MaxPaFaults = 1
    sg = sg
    Import = {r1, r2}
    Signer = {sg}
    Listed = {ca1, ca2}
    Contents <- MCContents
    DbTypes = {"postgres", "oracle"}
    MaxImportFaults = 1
    Universes <- MCUniverses
    Queries <- MCQueries
    ReportBatch = 1
    PageSize = 2
    ReportLimit = 1
    MaxReadFaults = 1
    FileUpload = {r1, r2}
    Files <- MCFiles
    Databases = {"postgres", "oracle"}
    MaxFileFaults = 1
SYMMETRY Alike
SPECIFICATION Spec
INVARIANTS RateIsBounded KeyNeverReturns AuditedTokenHasAccount NothingMissed SuccessMeansStored AcceptedHasReason AnswerIsStored ImportAddsUp ReadingIsComplete PathsAgree PreviewAgrees ContentIsKept
CHECK_DEADLOCK FALSE
