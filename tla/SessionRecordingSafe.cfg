SPECIFICATION Spec
CONSTANTS
    Hooks = {p1, p2}
    Sessions = {s1, s2}
    NoSession = NoSession
    Nobody = Nobody
    NoFile = NoFile
    Bad = Bad
    MaxLines = 3
    Budget <- OneOfEach
SYMMETRY Symmetry
CHECK_DEADLOCK FALSE
INVARIANTS
    SequenceIsLine
    ManifestNeverAhead
    AckedReadable
