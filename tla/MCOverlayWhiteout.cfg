\* Chunks of two layers, with whiteouts in any of them
CONSTANTS
    MaxLowers = 2
    LayerStacks <- MCLayerStacks

SPECIFICATION Spec

INVARIANT MountShowsAllLayers

CHECK_DEADLOCK FALSE
