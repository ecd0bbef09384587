\* Three expanders of one tree, with crashes, reruns and cache round trips
CONSTANTS
    Entries <- MCEntries
    Trees <- MCTrees
    Expanders = {e1, e2, e3}
    Converter = Converter
    NoProc = NoProc

SPECIFICATION FairSpec

INVARIANTS
    RestoredMeansOriginal
    HotTreeIsLeftAlone
    MountedIsOriginal

PROPERTIES
    NothingMovesUnderAMount
    KeepsPromise
    ExpansionsEnd
