SPECIFICATION Spec
CONSTANTS
    Confs <- DefaultConfs
    MaxDepth = 2
    MaxFrames = 3
    MaxKinds = 1
INVARIANTS
    FramesMirrorCalls
