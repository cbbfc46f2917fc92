SPECIFICATION SuiteSpec
CONSTANTS
    n1 = n1
    n2 = n2
    n3 = n3
    t1 = t1
    t2 = t2
    game = game
    dep = dep
    symF = symF
    symG = symG
    mutex1 = mutex1
    cond1 = cond1
    rwlock1 = rwlock1
    once1 = once1
    w1 = w1
    w2 = w2
    w3 = w3
    fd1 = fd1
    PageSize = 2
    Layouts <- MCLayouts
    FileSizes = {4, 6}
    MaxAddr = 9
    Names = {n1, n2, n3}
    GnuHash <- MCGnuHash
    ElfHash <- MCElfHash
    SysvHash <- MCElfHash
    WordBits = 4
    LowByte = 8
    MaxSymbols = 3
    MaxBuckets = 2
    BloomWords = 2
    BloomShift = 1
    Gaps = {0, 4, 12}
    Tables <- MCTables
    PltTables <- MCPltTables
    SymbolKinds <- MCSymbolKinds
    DynsymCounts = {0, 2}
    Base = 9
    Places = {1, 2, 3, 4, 5}
    WordSize = 16
    HalfSize = 4
    TlsThreads = {t1, t2}
    TlsBases = {5, 6, 7}
    MaxGeneration = 6
    BlocksPerPage = 3
    MaxPages = 2
    DlThreads = {t1, t2}
    Loadable = {"liba", "libb"}
    Missing = "libz"
    MaxDlCalls = 4
    GdbThreads = {t1, t2}
    LinkMaps = {"m1", "m2", "m3"}
    Granule = 4
    ShadowValues = 16
    MaxGranules = 8
    CfiLibraries <- MCCfiLibraries
    PayloadLimit = 8
    WordLimit = 64
    PackedGroups <- MCPackedGroups
    ConfigLines <- MCConfigLines
    ConfigFiles <- MCConfigFiles
    Covering = {"/system"}
    Handles <- TwoLibs
    Syms <- TwoSyms
    Needs <- GameNeedsDep
    Exports <- OwnExports
    Relocs <- AllRelocs
    Removable = {dep}
    ModHooked <- GameG
    MaxHooks = 3
    Threads = {t1, t2}
    Mutexes = {mutex1}
    Conds = {cond1}
    RwLocks = {rwlock1}
    StaticKind <- RecursiveMutex
    InitKinds = {"normal"}
    Raw = {rwlock1}
    Hosts = {1, 2, 3, 4, 5}
    MaxDepth = 2
    MaxObjects = 2
    Creators = {t1, t2}
    StartThread = t1
    MaxCreates = 3
    Onces = {once1}
    MaxDtors = 2
    Wrappers = {w1, w2, w3}
    Standard = {w1}
    FileSize = 1
    Fds = {fd1}
    MaxEvents = 1
INVARIANTS
    FindsDefinitions
    RelocationSound
    LoadedAsAsked
    TlsSound
    BionicPortSound
    LocksSound
    RoutinesRunOnce
PROPERTIES
    
    HooksSound
    StreamsSound
CHECK_DEADLOCK FALSE
