SPECIFICATION Spec
CONSTANTS
    Fibers = {"fiber", "other"}
    Main = "main"
    ReturnValues = TRUE
    MaxLevel = 3
    MaxFrames = 5
CHECK_DEADLOCK FALSE
INVARIANTS
    TypeOK
    StepOverSkipsCallees
    StepOverCanEnd
    StepOutSkipsCallees
