SPECIFICATION Spec
CONSTANTS
    Path <- Paths
    NoPath = "no path"
    Elsewhere = "elsewhere"
    Main = "Dockerfile"
    WithDockerfile <- AddDockerfile
    WithEnv <- AddEnv
    Above <- Directories
    Content <- SelfTexts
    Empty <- Nothing
    Absent = Absent
    Builds <- SelfBuilds
    MaxIncludeDepth = 2
    MaxNesting = 2
INVARIANT NoReentry
