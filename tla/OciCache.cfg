SPECIFICATION Spec
CONSTANTS
    d1 = d1
    d2 = d2
    p = p
    q = q
    Process = {p, q}
    Digest = {d1, d2}
    NoDigest = NoDigest
    Tag = Tag
    NoRef = NoRef
    Partial = Partial
    File <- TwoFiles
    NoFile = "none"
    FilesIn <- TwoFilesIn
    MaxReads = 2
    MaxRuns = 1
SYMMETRY Alike
CHECK_DEADLOCK FALSE
INVARIANTS
    TypeOK
    DigestHonest
    OneCurrentByTag
    MissingIsMissing
PROPERTY
    ReadsPinned
