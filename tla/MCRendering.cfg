SPECIFICATION RenderingSpec
CHECK_DEADLOCK FALSE
CONSTANTS
    QuantScale = 2
    FineBias = 16
    LayerBias = 1
    MinCoord <- TestMin
    MaxCoord = 1
    MaxWorldSum = 5
    MaxStepHeight = 1
    TableOptions <- TestOptions
    MaxAtlas = 8
    MaxFrames = 4
    MaxAnimationsLimit = 1
    Textures = {1}
    Animations <- TestAnimations
    MaxAge = 2
    MaxLayersLimit = 2
    Layers <- TestLayers
    Phases <- TestPhases
    Cameras <- TestCameras
    Period = 3
    Threads = {"t1", "t2"}
    Objects = {"o1", "o2"}
    MaxContexts = 4
INVARIANTS
    KeysAndFramesAreRight
    InterfaceIsWhole
    PictureAndPointerAgree
    BatchesAreTheFrame
    RendererBooks
    ContextsHaveOneOwner
    TextIsShown
    SceneFileIsWhole
PROPERTIES
    DeclaredAsGiven
