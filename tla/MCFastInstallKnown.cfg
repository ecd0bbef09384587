\* Preinst may take out of the image what the root already has
CONSTANTS
    Files = {"a", "b", "c"}
    Ships <- MCShips
    BaseFiles = {"c"}
    TakesOutKnown = TRUE

SPECIFICATION Spec

INVARIANT PostinstSeesMergedRoot

CHECK_DEADLOCK FALSE
