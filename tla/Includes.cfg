SPECIFICATION Spec
CONSTANTS
    NoStage = "none"
    Lower <- NoLower
    Loc <- Locations
    Root = "root"
    Remote <- RemoteFiles
    Repo = {"repo#main", "registry/repo:tag"}
    NoRepo = NoRepo
    GitRepo = {"repo#main"}
    RepoOf <- MovingReference
    Rejected = {"up"}
    Ident = {"id1", "id2"}
    NoIdent = "-"
    WithDockerfile <- NameWithDockerfile
    WithEnv <- NameWithEnv
    Target = {"none", "missing"}
    Absent = Absent
    Unreadable = Unreadable
    Body <- AnyText
    Worlds <- AnyWorld
    MaxIncludeDepth = 3
INVARIANTS
    TypeOK
    OpenOnce
    DepthBounded
    ContextIsStack
    ErrorsAreReal
    OkMeansExpandable
    IdentityKnown
    LapsBounded
PROPERTY
    Terminates
