SPECIFICATION Spec
CONSTANTS
    MaxLayer = 9
    GridColumns = 2
    GridRows = 3
    MaxTilesPerObject = 2
    TargetPrimitives = 3
    MaxDepth = 2
    OverviewBins = 4
    PyramidUnits <- MCPyramidUnits
    MaxBinsPerRect = 6
    MinBinPixels = 2
    Sources <- MCSources
    Viewports <- MCViewports
    Points <- MCPoints
    Capacities = {1, 2}
    Zooms = {1, 2}
    MaxCrashes = 1
INVARIANTS
    ViewportTruthful
    QueryTruthful
    DensityIsConserved
    CacheCheckIsSound
    CacheHoldsItsTiles
