SPECIFICATION Spec
CONSTANTS
    Designs = {"hierarchy", "flat", "bare"}
    Views <- MCViews
    FirstView <- Whole
    World <- MCWorld
    Tiles <- MCTiles
    Settings <- MCSettings
    Boxes <- MCBoxes
    TilePx = 4
    MarginTiles = 1
    LocalPercent = 15
    RasterTiles = 1
    CacheCapacity = 2
    MaxInputs = 3
    MaxFailures = 1
INVARIANTS
    WaitingIsKnown
    PlanIsCurrent
    TextureShowsPlan
PROPERTIES
    NearDetailArrives
