SPECIFICATION WindowSpec
CONSTANTS
    Begin <- BeginBytes
    End <- EndBytes
    Command <- CommandBytes
    Clip <- ClipBytes
    St <- StBytes
    Bell = "bell"
    Letters = {"a", "b"}
    Bytes <- AllBytes
    Streams <- SomeStreams
    FrameLimit = 6
    NoCommand = NoCommand
    MaxRead = 4
    GitDirs = {d1, d2}
    NoDir = NoDir
    MaxMoves = 3
    MaxInstalls = 3
    Texts = {"x", "y"}
    BlankText = ""
    TodoLimit = 2
    MaxClock = 6
    MaxOpens = 3
    PaletteCommands <- SomeCommands
    Words <- SomeWords
    Queries = {"", "t", "z"}
    NoQuery = ""
    KeysAtOnce = 2
    PipeSize = 1
    EventLimit = 2
    FrameSizes = {1, 3}
    TooLarge = 9
    MaxRequests = 2
    GridSizes <- SomeGrids
    Unmarked = Unmarked
    Report <- ReportBytes
    Uris <- SomeUris
    Transcripts <- SomeTranscripts
    BufferLimit = 10
    LargestRead = 11
    NoReport = NoReport
    Answers <- SomeAnswers
    NoLimits = NoLimits
    NoWindow = NoWindow
    MaxPolls = 2
    MaxLines = 3
INVARIANTS
    NothingLost
    FramesWhole
    RestartsWhenAsked
    TodosKept
    ChoiceIsListed
    KeysActOnce
    FramesWholeAndInOrder
    CopiesWhatIsMarked
    DirectoryFollows
    HeaderTells
PROPERTIES
    HeldBack
    ThreadsSettle
    FocusKept
    BothAreHeard
CHECK_DEADLOCK FALSE
