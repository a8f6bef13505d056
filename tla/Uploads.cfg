\* Two HTTP threads, a file of each kind, two uploads that compete for one slot,
\* one crash.
CONSTANTS
    LdifFile = {ldif}
    MlFile = {ml}
    CertFile = {cert}
    Upload = {u1, u2}
    Client = {c1, c2}
    Uploader = {c1, c2}
    Worker = {w1, w2}
    Slots = 1
    MaxCrashes = 1
    None = none
SPECIFICATION Spec
INVARIANTS OneThread UnsettledHasActor
PROPERTIES EventuallySettled SlotsSpec
CHECK_DEADLOCK FALSE
