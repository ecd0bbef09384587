\* Packages with every way in which /lib and /lib64 can meet
CONSTANTS
    Parts = {"extract"}
    Converters = {c1, c2}
    Entries = {e1, e2, e3}
    Links = {e2, e3}
    Orig = Orig
    None = None
    Inputs <- MCInputs
    MockDirs <- MCMockDirs
    AllowedDirs <- MCAllowedDirs
    Rank <- MCRank
    Mounted <- MCMounted
    Marker <- MCMarker
    VdbRoot <- MCVdbRoot
    VdbInImage <- MCVdbInImage
    Renames <- MCRenames
    Roots <- MCRoots
    Options <- MCOptions
    Programs = {build, child}
    Root = build
    Codes = {0, 40}
    Signals = {9}
    Files = {output}
    MaxClock = 1
    MaxEvents = 1
    MaxLines = 1
    LeftBracket = LeftBracket
    RightBracket = RightBracket

SPECIFICATION MCSpec

INVARIANT FilesAreMoved

CHECK_DEADLOCK FALSE
