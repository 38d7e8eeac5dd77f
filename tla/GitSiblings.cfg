SPECIFICATION Spec
CONSTANTS
    c1 = c1
    c2 = c2
    Process = {"p"}
    Oid = {c1, c2}
    NoOid = NoOid
    File <- SiblingFiles
    NoFile = "none"
    DirOf <- SiblingDirOf
    Cone <- SiblingCone
    FilesIn <- SiblingFilesIn
    NoClone = NoClone
    MaxReads = 3
    MaxRuns = 1
CHECK_DEADLOCK FALSE
INVARIANT MissingIsMissing
