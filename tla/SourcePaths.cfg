SPECIFICATION Spec
CONSTANTS
    Name = {"a", "b", "..c"}
    Dotted = {"..c"}
    Context <- SomeContext
    Link <- SomeLinks
    Outside = Outside
    MaxSteps = 3
    MaxPath = 4
CHECK_DEADLOCK FALSE
INVARIANTS
    TypeOK
    PathIsWalk
    OutsideIsRefused
