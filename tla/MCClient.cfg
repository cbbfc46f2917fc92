SPECIFICATION SuiteSpec
CONSTANTS
    t1 = t1
    m1 = m1
    pad1 = pad1
    pad2 = pad2
    pad3 = pad3
    LooperThreads = {t1}
    Mods = {m1}
    RingCapacity = 2
    MaxEvents = 4
    Letters = {"a", "e2"}
    Separators = {" "}
    Width <- MCWidth
    MaxText = 3
    Fingers = {10, 11}
    PointerSlots = 2
    Heights = {0, 9}
    BarSizes = {0, 2}
    MaxHeld = 2
    Pads = {pad1, pad2, pad3}
    Keys <- MCKeys
    FirstButton = 3
    AxisInfo <- MCAxisInfo
    Moves <- MCMoves
    Line <- MCLine
    MaxPlugs = 2
    MaxFrames = 1
INVARIANTS
    LooperSound
    TextSound
    DevicesAgree
    PadsSound
CHECK_DEADLOCK FALSE
