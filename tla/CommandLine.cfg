SPECIFICATION Spec
CONSTANTS
    Process = {"p", "q"}
    Raw <- Limits
    ParsedAs <- LimitParsed
    Canonical = {"3", "0"}
    NaN = NaN
    Blank = ""
    Unset = Unset
    Settings <- Various
    MaxTime = 1
CHECK_DEADLOCK FALSE
INVARIANTS
    TypeOK
    ExitMeansOutput
    TempRemoved
    OwnText
