\* One upload, one revalidation and the relay, over a chain of three certificates.
CONSTANTS
    Cert = {root, link, dsc}
    root = root
    link = link
    dsc = dsc
    A = A
    B = B
    C = C
    Name = {A, B, C}
    MaxTime = 1
    Job = {j1}
    Reval = {r1}
    Pkis <- MCPkis
    OnList = {link}
    UploadDepth = 10
    RevalDepth = 5
    RelayAhead = 0
    MaxFaults = 1
SPECIFICATION ValidationSpec
INVARIANTS ValidIsAnchored
PROPERTIES  ExpiryIsNoticed
CHECK_DEADLOCK FALSE
