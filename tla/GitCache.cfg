SPECIFICATION Spec
CONSTANTS
    c1 = c1
    c2 = c2
    Process = {"p", "q"}
    Oid = {c1, c2}
    NoOid = NoOid
    File <- NestedFiles
    NoFile = "none"
    DirOf <- NestedDirOf
    Cone <- NestedCone
    FilesIn <- NestedFilesIn
    NoClone = NoClone
    MaxReads = 2
    MaxRuns = 2
CHECK_DEADLOCK FALSE
INVARIANTS
    TypeOK
    MissingIsMissing
PROPERTY
    ReadsPinned
