SPECIFICATION LayerSpec
CONSTANTS
    NumSlots = 2
    DefaultMaxBufferCount = 2
    MaxFrames = 4
    MaxBuffers = 4
    NULL = NULL
    BinderThreads = {p1}
    Shapes = {1}
    Handles = {1}
    AsyncModes = {{TRUE, FALSE}}
    MaxControls = 2
INVARIANTS OneOwner
CHECK_DEADLOCK FALSE
