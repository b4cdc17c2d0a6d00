SPECIFICATION Spec
CONSTANTS
    Users = 3
    Every = 2
    Items = 2
    Runs = 3
    MaxSnapshots = 2
    MaxRepeats = 1
    MaxErrors = 1
    Strategies <- BothStrategies
    Filter <- TwoScenarios
    CommandLines <- TwoLines
INVARIANTS
    TypeOK
    ResultsCountOwnCalls
    ConversationsAreCounted
    SavedRunsStay
    ScrapeFilesStay
    ExitZeroMeansAllRun
    ExplainFilesAgree
PROPERTIES
    NoScrapeAfterStop
    BenchEnds
CHECK_DEADLOCK FALSE
