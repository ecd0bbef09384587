CONSTANTS
    t1 = t1
    t2 = t2
    Threads = {t1, t2}
    Loaders = {"host", "target"}
    Collections = {1, 2, 3, 4, 5}
    Worlds <- MCWorlds
    Files <- MCFiles
    Malformed <- MCMalformed

SPECIFICATION Spec

INVARIANTS
    TypeOK
    EvaluatedOnce
    DependenciesHold
    BestIsReliable
    NoDanglingLabels
    SourcesAreWhole

PROPERTY AnalysisEnds
