\* Two packages; every hook run writes or removes a file, in the image, the root or both
CONSTANTS
    Files = {"a", "b", "c"}
    Ships <- MCShips
    BaseFiles = {"c"}
    TakesOutKnown = FALSE

SPECIFICATION Spec

INVARIANTS
    HooksSeeTheirImage
    PostinstSeesMergedRoot
    LaterActionsSeeTheSame

PROPERTY
    InstallEnds

\* The program ends
CHECK_DEADLOCK FALSE
