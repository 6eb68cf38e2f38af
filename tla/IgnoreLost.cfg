SPECIFICATION Spec
CONSTANTS
    Confs <- DemandConfs
    MaxDepth = 1
    MaxFrames = 2
    MaxKinds = 1
INVARIANTS
    IgnoreRespected
