SPECIFICATION Spec
CONSTANTS
    k1 = k1
    k2 = k2
    Handlers = {h1, h2}
    Keys = {k1}
    NoKey = NoKey
    Payloads <- ExpiringPayloads
    Invalid = Invalid
    NoDoc = NoDoc
    NoIndex = NoIndex
    Nobody = Nobody
    NoTask = NoTask
    MaxBatch = 2
    Budget <- AnyFaults
SYMMETRY Symmetry
INVARIANTS
    AckedIsDurable
    AckedIsSearchable
    LatestIsPublished
PROPERTIES
    PayloadStable
