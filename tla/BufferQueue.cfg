SPECIFICATION LayerSpec
CONSTANTS
    NumSlots = 2
    DefaultMaxBufferCount = 2
    MaxFrames = 3
    MaxBuffers = 4
    NULL = NULL
    BinderThreads = {p1}
    Shapes = {1}
    Handles = {1}
    AsyncModes = {{TRUE}, {FALSE}}
    MaxControls = 2
INVARIANTS OneOwner FrameIsTheOneQueued
PROPERTY DequeueReturns
CHECK_DEADLOCK FALSE
