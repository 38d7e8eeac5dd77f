SPECIFICATION Spec
CONSTANTS
    NoStage = "none"
    Lower <- LowerOne
    Loc <- FileLoc
    Root = "root"
    Remote = {}
    Repo = {}
    NoRepo = NoRepo
    GitRepo = {}
    RepoOf <- NoRepos
    Rejected = {}
    Ident = {}
    NoIdent = "-"
    WithDockerfile <- Same
    WithEnv <- Same
    Target = {"none", "dev", "prod"}
    Absent = Absent
    Unreadable = Unreadable
    Body <- LossBodies
    Worlds <- LossWorlds
    MaxIncludeDepth = 4
INVARIANTS
    FinalImagePreserved
