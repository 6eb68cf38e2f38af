SPECIFICATION Spec
CONSTANTS
    Confs <- PauseConfs
    MaxDepth = 1
    MaxFrames = 2
    MaxKinds = 1
INVARIANTS
    SignalCanConnect
