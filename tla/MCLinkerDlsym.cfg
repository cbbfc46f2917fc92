SPECIFICATION FairSpec
CONSTANTS
    t1 = t1
    t2 = t2
    app = app
    alias = alias
    dep = dep
    libc = libc
    game = game
    fmod = fmod
    sqlite = sqlite
    sa = sa
    sd = sd
    sc = sc
    dlo = dlo
    sq = sq
    Soname <- MCSoname
    Needed <- MCNeeded
    Defines <- MCDefines
    Imports <- MCImports
    SkippedDeps = {libc}
    HostSyms = {sc}
    SqliteSyms = {sq}
    FmodNames = {}
    SqliteNames = {}
    Threads = {t1, t2}
    Names = {dep, app}
    Syms = {sd, sa, sc}
    Elf = {dep}
    StubNames = {}
    HostLibs = {}
    Hooks = {}
    DlSyms = {}
    InitNames = {}
    Asked = {sd}
    LookupClosers = {}
    MaxCalls = 3
PROPERTIES
    DlsymReturns
CHECK_DEADLOCK FALSE
