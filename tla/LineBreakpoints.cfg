SPECIFICATION Spec
CONSTANTS
    Functions <- Script
    ScanRange = 3
    Fibers = {"fiber"}
    Main = "main"
    Asked = {2, 3, 4}
    MaxLevel = 2
    MaxIds = 2
INVARIANTS
    TypeOK
    MarksHideNothing
    ResolvedToNearest
PROPERTIES
    CompiledIsResolved
