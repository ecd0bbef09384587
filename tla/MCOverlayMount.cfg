\* Chunks of two layers: every way to cut stacks of up to four
CONSTANTS
    MaxLowers = 2
    LayerStacks <- MCLayerStacks

SPECIFICATION Spec

INVARIANTS
    NoMountLeaks
    StackingIsInvisible

\* The function ends
CHECK_DEADLOCK FALSE
