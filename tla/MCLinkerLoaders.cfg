SPECIFICATION Spec
CONSTANTS
    t1 = t1
    t2 = t2
    app = app
    alias = alias
    dep = dep
    libc = libc
    game = game
    fmod = fmod
    sqlite = sqlite
    sa = sa
    sd = sd
    sc = sc
    dlo = dlo
    sq = sq
    Soname <- MCSoname
    Needed <- MCNeeded
    Defines <- MCDefines
    Imports <- MCImports
    SkippedDeps = {libc}
    HostSyms = {sc}
    SqliteSyms = {sq}
    FmodNames = {fmod}
    SqliteNames = {sqlite}
    Threads = {t1, t2}
    Names = {game, dep, fmod, sqlite, libc}
    Syms = {sa, sd, sc, dlo, sq}
    Elf = {game, dep, fmod, sqlite}
    StubNames = {}
    HostLibs = {}
    Hooks = {sa, dlo}
    DlSyms = {dlo}
    InitNames = {game}
    Asked = {sd}
    LookupClosers = {t1}
    MaxCalls = 3
INVARIANTS
    AddressesSound
CHECK_DEADLOCK FALSE
