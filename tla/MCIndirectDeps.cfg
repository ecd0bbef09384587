\* All graphs of MCIndirectDeps, with no or one broken package
CONSTANTS
    Packages <- MCPackages
    Inputs <- MCInputs

SPECIFICATION Spec

INVARIANTS
    SetsAreClosures

PROPERTY AnalysisEnds

\* The analysis ends
CHECK_DEADLOCK FALSE
