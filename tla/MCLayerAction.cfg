\* Two converters of a directory with a file and two links; packages with
\* every way in which /lib and /lib64 can meet, or with hooks that make up to
\* two accesses; a command and a program that it starts
CONSTANTS
    Parts = {"convert", "extract", "wrapper"}
    Converters = {c1, c2}
    Entries = {e1, e2, e3}
    Links = {e2, e3}
    Orig = Orig
    None = None
    Inputs <- MCInputs
    MockDirs <- MCMockDirs
    AllowedDirs <- MCAllowedDirs
    Rank <- MCRank
    Mounted <- MCMounted
    Marker <- MCMarker
    VdbRoot <- MCVdbRoot
    VdbInImage <- MCVdbInImage
    Renames <- MCRenames
    Roots <- MCRoots
    Options <- MCOptions
    Programs = {build, child}
    Root = build
    Codes = {0, 40}
    Signals = {9}
    Files = {output}
    MaxClock = 1
    MaxEvents = 1
    MaxLines = 1
    LeftBracket = LeftBracket
    RightBracket = RightBracket

SPECIFICATION MCSpec

INVARIANTS
    TypesAreKept
    NothingIsLost
    SoleSuccessIsComplete
    MergeIsComplete
    CleanHooksCanBeSkipped
    FailureIsShown
    SuccessIsComplete
    TracesAreKept
    ProfileHasOneClock

PROPERTIES
    ConversionsAllEnd

\* conversions have ended, and so have the programs
CHECK_DEADLOCK FALSE
