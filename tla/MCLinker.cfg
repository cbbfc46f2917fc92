SPECIFICATION FairSpec
CONSTANTS
    t1 = t1
    t2 = t2
    app = app
    alias = alias
    dep = dep
    libc = libc
    game = game
    fmod = fmod
    sqlite = sqlite
    sa = sa
    sd = sd
    sc = sc
    dlo = dlo
    sq = sq
    Soname <- MCSoname
    Needed <- MCNeeded
    Defines <- MCDefines
    Imports <- MCImports
    SkippedDeps = {libc}
    HostSyms = {sc}
    SqliteSyms = {sq}
    FmodNames = {}
    SqliteNames = {}
    Threads = {t1, t2}
    Names = {app, alias, dep, libc}
    Syms = {sa, sd, sc}
    Elf = {app, dep}
    StubNames = {libc}
    HostLibs = {}
    Hooks = {}
    DlSyms = {}
    InitNames = {}
    Asked = {}
    LookupClosers = {}
    MaxCalls = 3
INVARIANTS
    TypeOK
    NamesLive
    RefsCoverOwners
    AddressesSound
PROPERTIES
    TableSpec
    CallsReturn
CHECK_DEADLOCK FALSE
