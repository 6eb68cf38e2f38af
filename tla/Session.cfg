SPECIFICATION HistorySpec
CONSTANTS
    Confs <- HistoryConfs
    MaxDepth = 2
    MaxFrames = 2
    MaxKinds = 1
INVARIANTS
    TypeOK
    LoopOwnsConnection
    SessionSeesScript
    NoSessionBetweenRequests
    OnDemandFramesMirrorCalls
    DetachLasts
