SPECIFICATION Spec
CONSTANTS
    Confs <- WorkerConfs
    MaxDepth = 1
    MaxFrames = 2
    MaxKinds = 1
INVARIANTS
    ArmedIsPickedUp
