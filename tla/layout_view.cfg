SPECIFICATION Spec
CONSTANTS
    MaxLayer = 9
    GridColumns = 2
    GridRows = 2
    MaxTilesPerObject = 1
    TargetPrimitives = 3
    MaxDepth = 1
    OverviewBins = 4
    PyramidUnits <- MCPyramidUnits
    MaxBinsPerRect = 6
    MinBinPixels = 1
    BinsPerAxis = 4
    SmallPx = 1
    FrameOnlyPx = 3
    FillPx = 2
    LongPx = 4
    OccupancyPx = 4
    MaxQuadsPerBin = 3
    MaxFramesPerBin = 2
    MaxMarkersPerBin = 2
    MaxItems = 14
    Disks <- MCDisks
    Windows <- MCWindows
    Loads <- MCLoads
    Policies <- MCPolicies
    Settings <- MCSettings
    Clicks <- MCClicks
    Spots <- MCSpots
    PatternTile = 4
    SparseSpacing = 4
    DenseSpacing = 2
    RasterItems = 3
    RasterOps = 4
    ClickPx = 2
    MaxRows = 4
    MaxOverviews = 2
    Toggled = {1}
INVARIANTS
    ViewQueryIsFlattening
    PlanDrawsWhatIsThere
    PickFindsTheNearest
    SelectionTellsTheSource
    PlaneShowsThePlan
