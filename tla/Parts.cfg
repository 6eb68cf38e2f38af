SPECIFICATION PartsSpec
CONSTANTS
    MapScripts <- SomeScripts
    StandardInput <- PipedScript
    WorkingDir <- HomeDir
    MapPrefixes <- SomePrefixes
    MapRules <- SomeRules
    MapMaxLines = 3
    MapLineNumbers = {1, 2, 3, 4, 5}
    OptionLetters <- SomeLetters
    OptionValues <- SomeValues
    MaxOptions = 3
    Commands <- SomeCommands
    MaxPackets = 3
    MaxReceived = 3
    MaxBuffered = 4
    Settings <- SomeSettings
    MaxAddresses = 2
    MaxTries = 3
    StartSettings <- SomeStarts
    Requests <- SomeRequests
    TrimmedValue <- WithoutSpaces
    Trees <- SomeTrees
    ShownValues <- SomeShown
    KeyCharacters <- SomeKeyCharacters
    ClassNames = {"B", "C", "D"}
    MaxChildren = 3
    MaxDepth = 2
    MaxPage = 4
    Locals <- SomeLocals
    Asked = {"_"}
    BeginReturn = {"_"}
    BeginException = {"_"}
    DataSizes = {1, 2}
    MaxCalls = 3
    MaxNested = 2
    Peers = {p1, p2}
    Orders = {"ps", "pause", "bogus"}
    Threshold = 1
    MaxClock = 2
    MaxStack = 3
SYMMETRY PeerSymmetry
INVARIANTS
    MapsTypeOK
    BreakpointsShownWhereSet
    SearchMissesNothing
    ParserTypeOK
    UnderstoodAsWritten
    FirstOptionSurvives
    LoopTypeOK
    StreamIsWhole
    AnswersMatchCommands
    ConnectingTypeOK
    NoDescriptorLost
    ClientIsTheOneReported
    DecisionsAgree
    SessionSticks
    NamesComeBack
    PagesCoverOnce
    AnsweredFromFrame
    SettingsComeBack
    OneAnswerEach
    StackFitsObserver
PROPERTIES
    EarlierRulesStand
CHECK_DEADLOCK FALSE
