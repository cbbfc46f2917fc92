SPECIFICATION SuiteSpec
CONSTANTS
    q1 = q1
    c1 = c1
    c2 = c2
    s1 = s1
    s2 = s2
    g1 = g1
    Requests = {q1}
    Calls = {c1, c2}
    BodySize <- MCBodySize
    Sockets = {s1, s2}
    GameThreads = {g1}
    MaxConnects = 2
    Runs <- MCRuns
    HookNames = {"draw", "__cxa_throw"}
    PreinitMods = {"moda", "modb"}
    PreinitRoom = 1
    MaxPreinit = 2
    GameNatives = {"nativeSetTextboxText", "nativeResize", "nativeUpdateNetworkStatus"}
    KeyIds = {"id1", "id2"}
    StoreFiles = {"f1", "f2"}
    MaxKeys = 2
    MaxFlows = 2
    IdentityThreads = {"render", "rest"}
    Accounts = {1, 2}
    MaxSets = 3
    Classes = {1, 2}
    ObjectClass = 1
    NativeTables <- MCTables
    VmThreads = {"g1", "g2"}
    MaxUses = 2
    Creator = "main"
    RenderThreads = {"main", "render"}
    Programs = {1, 2}
    GlBuffers = {1}
    MaxVaos = 2
    OverlayKeys = {"leftAlt", "rightAlt"}
    MenuOptions = {"altFocus"}
    FoundOn = {{"imgui", "menubar", "altFocus"}}
    ForeignKeys = {"theirs", "focusKey"}
    MaxPending = 2
    WindowTitles = {"t1", "t2"}
    MaxRegistrations = 3
    MaxActions = 1
    SelectedRegisters = TRUE
    RingSize = 4
    BufferSizes = {1, 2}
    MaxFrames = 4
    MaxStarts = 2
    MaxOutputs = 2
    ResizesLive = FALSE
    StartsTwice = FALSE
INVARIANT
    NoSelfWait
CHECK_DEADLOCK FALSE
