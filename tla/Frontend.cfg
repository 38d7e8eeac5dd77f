SPECIFICATION Spec
CONSTANTS
    Path <- Paths
    NoPath = "no path"
    Elsewhere = "elsewhere"
    Main = "Dockerfile"
    WithDockerfile <- AddDockerfile
    WithEnv <- AddEnv
    Above <- Directories
    Content <- PassingTexts
    Empty <- Nothing
    Absent = Absent
    Builds <- PassingBuilds
    MaxIncludeDepth = 2
    MaxNesting = 1
INVARIANTS
    TypeOK
    OkMeansExpandable
    NeverFailsInVain
PROPERTY
    Terminates
