SPECIFICATION ModFairSpec
CONSTANTS
    main = main
    t2 = t2
    m1 = m1
    m2 = m2
    m3 = m3
    p1 = p1
    p2 = p2
    p3 = p3
    game = game
    util = util
    preinit = preinit
    init = init
    fun = fun
    missing = missing
    Cyclic = TRUE
    Lacking = {m2}
    Unbindable = {}
    Loader = main
    Game = game
    PreinitFn = preinit
    InitFn = init
    Scans = 2
    BackgroundNames = {util}
    MaxBackground = 3
    ModOrder <- MCModOrder
    Path <- MCPath
    Soname <- MCSoname
    Needed <- MCNeeded
    Defines <- MCDefines
    Imports <- MCImports
    Threads = {main, t2}
    Names = {m1, m2, m3, p1, p2, p3, game, util}
    Syms = {preinit, init, fun, missing}
    Elf = {p1, p2, p3, game, util}
    SkippedDeps = {}
    StubNames = {}
    HostLibs = {}
    HostSyms = {}
    Hooks = {}
    DlSyms = {}
    SqliteSyms = {}
    FmodNames = {}
    SqliteNames = {}
    InitNames = {game}
    Asked = {preinit, init}
    LookupClosers = {}
    MaxCalls = 40
INVARIANTS
    OneReferencePerMod
    PassesSound
PROPERTIES
    PassesEnd
CHECK_DEADLOCK FALSE
