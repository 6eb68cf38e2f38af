SPECIFICATION FairSpec
CONSTANTS
    Confs <- FairConfs
    MaxDepth = 1
    MaxFrames = 1
    MaxKinds = 1
PROPERTIES
    PromptLeadsBack
