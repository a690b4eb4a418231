SPECIFICATION EachSpec
CONSTANTS
    Parts = {"lint", "verify", "links", "leaks", "tables", "doctor"}
    None = None
    Index = "index"
    Notes = {"index", "note"}
    Others = {"env"}
    Ignored = {"env"}
    Lines = {1, 2, 3}
    Chars = {2}
    Keywords = {3}
    Secrets = {3}
    Asked = {"auto", "all", "worktree", "merge-base"}
    MaxSteps = 3
    StampedNotes = {"n1", "n2"}
    MaxWrites = 5
    MaxRuns = 2
    Paths <- ThreeDeep
    Targets <- Spelled
    WithMd <- NamesWithMd
    Folders <- TwoFolders
    MaxDraws = 3
    Scanned <- RichOrSimple
    Generic <- OneShape
    OwnLists <- ConfiguredLists
    Personal <- PersonalLists
    Refused = Refused
    WrongLists = {"wrong"}
    MaxLines = 2
    MaxChars = 3
    Context = 2
    Floor = 2
    MaxMatches = 2
    TableNotes <- EveryNote
    Scopes <- OneLineOrNone
    Unscoped = Unscoped
    Rows = {"labels", "soon", "far", "wide", "odd", "empty"}
    Wide = {"wide"}
    Other = {"odd"}
    Empty = {"empty"}
    Labels = "labels"
    Due <- SoonAndFar
    Never = Never
    Doubtful = {"odd"}
    Today = 0
    UpcomingDays = 1
    Bases <- VaultsLookedAt
    MaxWrong = 2
    Blind = {}
INVARIANTS   LinksAreOneForAllReaders LeaksAreFound EveryRowHasItsTable 
CHECK_DEADLOCK FALSE
