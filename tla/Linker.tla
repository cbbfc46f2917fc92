------------------------------- MODULE Linker -------------------------------
(***************************************************************************)
(* The Rust ELF linker of crates/linker/src/lib.rs: the registry STATE     *)
(* (an RwLock<LinkerState>), and the threads that call dlopen, dlclose,    *)
(* dlsym, the special loaders for libfmod and libsqliteX and the deferred  *)
(* constructor call for the game library.                                  *)
(*                                                                         *)
(* A load is not atomic.  load_library_internal takes the write lock to    *)
(* look the name up and to allocate a handle, DROPS it while it loads the  *)
(* DT_NEEDED libraries, takes it again to relocate, publish the exports    *)
(* and run the constructors, and only then registers the library.  Each    *)
(* of those critical sections is a step here; between them other threads   *)
(* run.  A load in flight is an entry of loading keyed by the handle it    *)
(* was given; its parent is the load that needs it (0 for a direct call).  *)
(*                                                                         *)
(* An address is an integer: the handle of the image that defines the      *)
(* symbol, or Launcher for anything outside the ELF images (shims and      *)
(* host libraries), or Dispatch for the dl* override given to libfmod.     *)
(***************************************************************************)
EXTENDS Integers, Sequences, FiniteSets

CONSTANTS
    Threads,     \* threads that call the linker
    Names,       \* library names after normalize_soname
    Syms,        \* symbol names
    Elf,         \* the names for which a loadable ELF file is found on disk
    Soname,      \* [Elf -> Names]: DT_SONAME, or the requested name without one
    Needed,      \* [Elf -> Seq(Names)]: DT_NEEDED in file order
    Defines,     \* [Elf -> SUBSET Syms]: defined global or weak symbols
    Imports,     \* [Elf -> SUBSET Syms]: symbols its relocations look up
    SkippedDeps, \* DT_NEEDED entries load_dependencies never loads
    StubNames,   \* libdl*, libstdc++*, libOpenSLES*: never loaded from disk
    HostLibs,    \* HOST_SYSTEM_LIBS, stubs for load_library_internal only
    HostSyms,    \* plain C symbols that libc::dlsym resolves
    Hooks,       \* symbols the launcher overrides when it passes hooks
    DlSyms,      \* dlopen, dlsym and dlclose, overridden for libfmod
    SqliteSyms,  \* symbols named sqlite3* or sqlite_*
    FmodNames, SqliteNames, \* names given to linker_rust_dlopen_fmod / _sqlite
    InitNames,   \* names given to linker_rust_call_init_functions: the game, which
                 \* minecraft_load.rs loads only without constructors
    Asked,       \* symbols that callers look up with dlsym
    LookupClosers, \* threads running mods that call mcpelauncher_hook
    MaxCalls     \* bound: calls made by all the threads together

Launcher == 0
Dispatch == -1
NoLoad == 0
NoThread == "no thread"

ASSUME FilesAssumption ==
    /\ Elf \subseteq Names
    /\ FmodNames \subseteq Names /\ SqliteNames \subseteq Names
    /\ Soname \in [Elf -> Names]
    /\ Needed \in [Elf -> Seq(Names)]
    /\ Defines \in [Elf -> SUBSET Syms]
    /\ Imports \in [Elf -> SUBSET Syms]
    /\ Hooks \subseteq Syms /\ DlSyms \subseteq Syms
    /\ InitNames \subseteq Names

ASSUME BoundsAssumption == MaxCalls \in Nat

ASSUME ThreadsAssumption == IsFiniteSet(Threads) /\ NoThread \notin Threads

VARIABLES
    byHandle,    \* libraries_by_handle: handle -> [refs, stub, ext]
    byName,      \* libraries_by_name: name -> handle
    globals,     \* global_symbols: symbol -> address
    nextHandle,  \* next_handle
    relocErr,    \* LAST_LOAD_RELOC_ERRORS
    images,      \* mapped ELF images (never unmapped): handle ->
                 \* [file, ctors, linked, got, bound, inits]
    loading,     \* loads in flight: handle ->
                 \* [thread, name, parent, todo, ext, ctors]
    pc,          \* where each thread is
    req,         \* the load_library_internal call a thread is about to make
    cur,         \* innermost load in flight of each thread, NoLoad if none
    wrap,        \* what surrounds the outermost load: "none", "fmod", "sqlite"
    snap,        \* the entries of global_symbols the wrapper copied
    writer, readers, waiting, \* the RwLock: holder, read holders, queued writers
    arg,         \* the handle a thread is about to close or looks a symbol up in
    owners,      \* history: references returned to callers and not yet closed
    calls        \* calls made so far, for the bound

regVars == <<byHandle, byName, globals, nextHandle, relocErr, images>>
loadVars == <<loading, req, cur, wrap, snap>>
lockVars == <<writer, readers, waiting>>
callVars == <<pc, arg>>
vars == <<regVars, loadVars, lockVars, callVars, owners, calls>>

-----------------------------------------------------------------------------
(* Helpers. *)

\* HashMap::insert of every entry of g into f.
Overlay(f, g) ==
    [x \in DOMAIN f \cup DOMAIN g |-> IF x \in DOMAIN g THEN g[x] ELSE f[x]]

\* HashMap::insert of one entry.
Insert(f, x, v) == [y \in DOMAIN f \cup {x} |-> IF y = x THEN v ELSE f[y]]

\* HashMap::retain on the keys.
Keep(f, S) == [x \in DOMAIN f \cap S |-> f[x]]

Empty == [x \in {} |-> 0]

All(S, a) == [s \in S |-> a]

Libs == DOMAIN byHandle

Request(n, ctors, stub, ext) == [name |-> n, ctors |-> ctors, stub |-> stub, ext |-> ext]
NoReq == Request("", TRUE, FALSE, Empty)

\* What the exported loaders ask for: dlopen and the loaders of libc++ (with
\* constructors), dlopen_ext (with hooks), register_stub, and the loaders of
\* libpairipcore and of the game (without constructors).
Requests ==
    {Request(n, ctors, stub, All(S, Launcher)) :
        n \in Names, ctors \in BOOLEAN, stub \in BOOLEAN, S \in {{}, Hooks}}

\* libraries_by_name has the name and libraries_by_handle its handle.
Registered(n) == n \in DOMAIN byName /\ byName[n] \in Libs

\* A name that is registered without looking for a file.
NeverFromDisk(n, ctors) == n \in StubNames \/ (ctors /\ n \in HostLibs)

\* register_global_exports: entry().or_insert, so the first definition stays.
Publish(g, h, f) == Overlay(All(Defines[f], h), g)

\* Mutant: the exports of a file are published as soon as it is mapped.
PublishAtMapping(r) ==
    IF r.name \in Elf THEN Publish(Overlay(globals, r.ext), nextHandle, r.name)
    ELSE Overlay(globals, r.ext)

\* The external symbols passed with a load replace the global ones.
Externals(r) == Overlay(globals, r.ext)

\* Where `resolve` looks for symbol s last: global_symbols, any library
\* (HashMap iteration order), the host.  Empty when s stays unresolved.
Elsewhere(s) ==
    LET others == {k \in Libs : ~byHandle[k].stub /\ s \in Defines[images[k].file]}
                    \cup {byHandle[k].ext[s] :
                            k \in {l \in Libs : s \in DOMAIN byHandle[l].ext}}
    IN  IF s \in DOMAIN globals THEN {globals[s]}
        ELSE IF others # {} THEN others
        ELSE IF s \in HostSyms THEN {Launcher} ELSE {}

\* The addresses `resolve` may return for symbol s of image h: the external
\* symbols of the load first, then its own definition, then the rest.
Candidates(h, ext, s) ==
    IF s \in DOMAIN ext THEN {ext[s]}
    ELSE IF s \in Defines[images[h].file] THEN {h} ELSE Elsewhere(s)

\* The RwLock of std: a reader waits while a writer holds the lock or is
\* queued, also when the reader's own thread already holds a read lock.
CanWrite == writer = NoThread /\ readers = {}
CanRead == writer = NoThread /\ waiting = {}

-----------------------------------------------------------------------------
Init ==
    /\ byHandle = Empty
    /\ byName = Empty
    /\ globals = Empty
    /\ nextHandle = 1
    /\ relocErr = FALSE
    /\ images = Empty
    /\ loading = Empty
    /\ pc = [t \in Threads |-> "idle"]
    /\ req = [t \in Threads |-> NoReq]
    /\ cur = [t \in Threads |-> NoLoad]
    /\ wrap = [t \in Threads |-> "none"]
    /\ snap = [t \in Threads |-> Empty]
    /\ writer = NoThread
    /\ readers = {}
    /\ waiting = {}
    /\ arg = [t \in Threads |-> NoLoad]
    /\ owners = Empty
    /\ calls = 0

-----------------------------------------------------------------------------
(* The write lock.  A thread at one of these points needs it next. *)
Writing == {"open", "link", "post", "close", "unhook", "add"}

Goto(t, l) == pc' = [pc EXCEPT ![t] = l]

\* STATE.write() finds the lock taken: the thread queues, which from now on
\* keeps new readers out.
Queue(t) ==
    /\ pc[t] \in Writing
    /\ ~CanWrite
    /\ t \notin waiting
    /\ waiting' = waiting \cup {t}
    /\ UNCHANGED <<regVars, loadVars, writer, readers, callVars, owners, calls>>

\* A critical section that is one step: taken and released.
WriteSection(t) ==
    /\ CanWrite
    /\ waiting' = waiting \ {t}
    /\ UNCHANGED <<writer, readers>>

\* Mutant: the lock is still held while the dependencies are loaded.
HoldForDependencies(t) ==
    /\ CanWrite
    /\ writer' = t
    /\ waiting' = waiting \ {t}
    /\ UNCHANGED readers

\* drop(state) between mapping a file and load_dependencies.
DropForDependencies(t) == WriteSection(t)

-----------------------------------------------------------------------------
(* load_library_internal and load_library_internal_no_ctors. *)

Begin(t) ==
    /\ pc[t] = "idle"
    /\ calls < MaxCalls
    /\ calls' = calls + 1

\* dlopen, dlopen_ext, load_library, register_stub, the loaders for libc++ and
\* libpairipcore, and linker_rust_dlopen_ext for the game (no constructors).
CallOpen(t, r) ==
    /\ Begin(t)
    /\ r.stub => r.ctors
    /\ r.name \in InitNames => ~r.ctors
    /\ Goto(t, "open")
    /\ req' = [req EXCEPT ![t] = r]
    /\ UNCHANGED <<regVars, loading, cur, wrap, snap, lockVars, owners, arg>>

\* linker_rust_dlopen_fmod: remembers the dl* entries, then loads with the
\* override.
CallFmod(t, n) ==
    /\ Begin(t)
    /\ CanRead
    /\ Goto(t, "open")
    /\ wrap' = [wrap EXCEPT ![t] = "fmod"]
    /\ snap' = [snap EXCEPT ![t] = Keep(globals, DlSyms)]
    /\ req' = [req EXCEPT ![t] = Request(n, TRUE, FALSE, All(DlSyms, Dispatch))]
    /\ UNCHANGED <<regVars, loading, cur, lockVars, owners, arg>>

\* linker_rust_dlopen_sqlite: remembers every key of global_symbols.
CallSqlite(t, n) ==
    /\ Begin(t)
    /\ CanRead
    /\ Goto(t, "open")
    /\ wrap' = [wrap EXCEPT ![t] = "sqlite"]
    /\ snap' = [snap EXCEPT ![t] = globals]
    /\ req' = [req EXCEPT ![t] = Request(n, FALSE, FALSE, Empty)]
    /\ UNCHANGED <<regVars, loading, cur, lockVars, owners, arg>>

\* The innermost load of thread t returns to the load that needs it, or to the caller.
Return(t, parent) ==
    /\ Goto(t, IF parent # NoLoad THEN "deps" ELSE IF wrap[t] = "none" THEN "idle" ELSE "post")
    /\ req' = [req EXCEPT ![t] = NoReq]

Credit(f, h, parent) == IF parent = NoLoad THEN [f EXCEPT ![h] = @ + 1] ELSE f

\* Mutant: loading a registered library again does not count the reference.
OpenAgainUncounted(t) ==
    /\ pc[t] = "open"
    /\ WriteSection(t)
    /\ Registered(req[t].name)
    /\ owners' = Credit(owners, byName[req[t].name], cur[t])
    /\ Return(t, cur[t])
    /\ UNCHANGED <<regVars, loading, cur, wrap, snap, calls, arg>>

\* The name is registered: one more reference, the same handle.
OpenAgain(t) ==
    /\ pc[t] = "open"
    /\ WriteSection(t)
    /\ Registered(req[t].name)
    /\ LET h == byName[req[t].name]
       IN  /\ byHandle' = [byHandle EXCEPT ![h].refs = @ + 1]
           /\ owners' = Credit(owners, h, cur[t])
           /\ Return(t, cur[t])
    /\ UNCHANGED <<byName, globals, nextHandle, relocErr, images, loading, cur, wrap, snap,
                   calls, arg>>

\* A stub: asked for, one of the names that are never read from disk, or a
\* library whose file is not found.  Registered at once.
OpenStub(t) ==
    /\ pc[t] = "open"
    /\ WriteSection(t)
    /\ ~Registered(req[t].name)
    /\ req[t].stub \/ NeverFromDisk(req[t].name, req[t].ctors) \/ req[t].name \notin Elf
    /\ byHandle' = Insert(byHandle, nextHandle, [refs |-> 1, stub |-> TRUE, ext |-> req[t].ext])
    /\ byName' = Insert(byName, req[t].name, nextHandle)
    /\ globals' = Externals(req[t])
    /\ nextHandle' = nextHandle + 1
    /\ owners' = Credit(Insert(owners, nextHandle, 0), nextHandle, cur[t])
    /\ Return(t, cur[t])
    /\ UNCHANGED <<relocErr, images, loading, cur, wrap, snap, calls, arg>>

\* The file is mapped, a handle is allocated, and the lock is DROPPED before
\* the name is registered.
OpenElf(t) ==
    /\ pc[t] = "open"
    /\ DropForDependencies(t)
    /\ ~Registered(req[t].name)
    /\ ~req[t].stub /\ ~NeverFromDisk(req[t].name, req[t].ctors) /\ req[t].name \in Elf
    /\ LET n == req[t].name
           frame == [thread |-> t, name |-> n, parent |-> cur[t], todo |-> Needed[n],
                     ext |-> req[t].ext, ctors |-> req[t].ctors]
       IN  /\ images' = Insert(images, nextHandle,
                               [file |-> n, ctors |-> req[t].ctors, linked |-> FALSE,
                                got |-> Empty, bound |-> FALSE, inits |-> 0])
           /\ loading' = Insert(loading, nextHandle, frame)
    /\ globals' = Externals(req[t])
    /\ nextHandle' = nextHandle + 1
    /\ owners' = Insert(owners, nextHandle, 0)
    /\ cur' = [cur EXCEPT ![t] = nextHandle]
    /\ req' = [req EXCEPT ![t] = NoReq]
    /\ Goto(t, "deps")
    /\ UNCHANGED <<byHandle, byName, relocErr, wrap, snap, calls, arg>>

\* load_dependencies passes over an entry it never loads, and one that is
\* already registered, without taking a reference.
SkipDep(t) ==
    /\ pc[t] = "deps"
    /\ loading[cur[t]].todo # <<>>
    /\ LET d == Head(loading[cur[t]].todo)
       IN  d \in SkippedDeps \/ (CanRead /\ d \in DOMAIN byName)
    /\ loading' = [loading EXCEPT ![cur[t]].todo = Tail(@)]
    /\ UNCHANGED <<regVars, req, cur, wrap, snap, lockVars, callVars, owners, calls>>

\* A dependency that is_loaded does not find is loaded with its constructors
\* and with the same external symbols.
LoadDep(t) ==
    /\ pc[t] = "deps"
    /\ loading[cur[t]].todo # <<>>
    /\ LET f == loading[cur[t]]
       IN  /\ Head(f.todo) \notin SkippedDeps
           /\ CanRead
           /\ Head(f.todo) \notin DOMAIN byName
           /\ req' = [req EXCEPT ![t] = Request(Head(f.todo), TRUE, FALSE, f.ext)]
    /\ loading' = [loading EXCEPT ![cur[t]].todo = Tail(@)]
    /\ Goto(t, "open")
    /\ UNCHANGED <<regVars, cur, wrap, snap, lockVars, owners, calls, arg>>

DepsDone(t) ==
    /\ pc[t] = "deps"
    /\ loading[cur[t]].todo = <<>>
    /\ Goto(t, "link")
    /\ UNCHANGED <<regVars, loadVars, lockVars, owners, calls, arg>>

\* Second critical section: relocate against what is registered NOW, set the
\* flag, publish the exports.  The lock is kept.
Link(t) ==
    /\ pc[t] = "link"
    /\ CanWrite
    /\ writer' = t
    /\ waiting' = waiting \ {t}
    /\ LET h == cur[t]
           file == images[h].file
           ext == loading[h].ext
           found == {s \in Imports[file] : Candidates(h, ext, s) # {}}
       IN  /\ \E got \in [found -> UNION {Candidates(h, ext, s) : s \in found}] :
                /\ \A s \in found : got[s] \in Candidates(h, ext, s)
                /\ images' = [images EXCEPT ![h].got = got, ![h].linked = TRUE,
                                            ![h].bound = (found = Imports[file])]
           /\ relocErr' = (found # Imports[file])
           /\ globals' = Publish(globals, h, file)
    /\ Goto(t, "ctor")
    /\ UNCHANGED <<byHandle, byName, nextHandle, loadVars, readers, owners, calls, arg>>

\* Mutant: constructors run although symbols are unresolved.
RunsCtorsUnbound(h) == loading[h].ctors

\* "Call init functions only if no unresolved symbols."
RunsCtors(h) == loading[h].ctors /\ images[h].bound

\* Still under the write lock: run the constructors of a fully bound image,
\* register the library by handle, soname and name, release the lock, return.
Finish(t) ==
    /\ pc[t] = "ctor"
    /\ LET h == cur[t]
           f == loading[h]
       IN  /\ images' = [images EXCEPT ![h].inits = IF RunsCtors(h) THEN @ + 1 ELSE @]
           /\ byHandle' = Insert(byHandle, h, [refs |-> 1, stub |-> FALSE, ext |-> f.ext])
           /\ byName' = Overlay(byName, All({Soname[f.name], f.name}, h))
           /\ loading' = Keep(loading, DOMAIN loading \ {h})
           /\ cur' = [cur EXCEPT ![t] = f.parent]
           /\ owners' = Credit(owners, h, f.parent)
           /\ Return(t, f.parent)
    /\ writer' = NoThread
    /\ UNCHANGED <<globals, nextHandle, relocErr, wrap, snap, readers, waiting, calls, arg>>

\* After linker_rust_dlopen_fmod's load: put the remembered dl* entries back.
\* After linker_rust_dlopen_sqlite's: drop every new key that is not sqlite's.
AfterLoad(t) ==
    /\ pc[t] = "post"
    /\ WriteSection(t)
    /\ globals' = IF wrap[t] = "fmod" THEN Overlay(globals, snap[t])
                  ELSE Keep(globals, DOMAIN snap[t] \cup SqliteSyms)
    /\ wrap' = [wrap EXCEPT ![t] = "none"]
    /\ snap' = [snap EXCEPT ![t] = Empty]
    /\ Goto(t, "idle")
    /\ UNCHANGED <<byHandle, byName, nextHandle, relocErr, images, loading, req, cur,
                   owners, calls, arg>>

-----------------------------------------------------------------------------
(* Closing, looking up, adding symbols, deferred constructors. *)

Closers(h) == {t \in Threads : pc[t] = "close" /\ arg[t] = h}

\* linker_rust_dlclose by a caller that owns a reference nobody else is giving up.
CallClose(t, h) ==
    /\ Begin(t)
    /\ h \in DOMAIN owners
    /\ owners[h] > Cardinality(Closers(h))
    /\ Goto(t, "close")
    /\ arg' = [arg EXCEPT ![t] = h]
    /\ UNCHANGED <<regVars, loadVars, lockVars, owners>>

\* mc_mod_hook: dladdr finds the image, dispatch_dlopen looks its name up WITHOUT
\* taking a reference, dispatch_dlclose then gives one up.  (dladdr never fills
\* dli_sname, so no hook is created in between.  The name is a Rust string read
\* without a terminating NUL: when the lookup misses for that reason nothing
\* happens, and only the hit is a step.)
CallModHook(t, h) ==
    /\ t \in LookupClosers
    /\ Begin(t)
    /\ CanRead
    /\ h \in Libs /\ ~byHandle[h].stub
    /\ images[h].file \in DOMAIN byName
    /\ Goto(t, "unhook")
    /\ arg' = [arg EXCEPT ![t] = byName[images[h].file]]
    /\ UNCHANGED <<regVars, loadVars, lockVars, owners>>

\* Mutant: the last reference is counted down to zero.
SharedOffByOne(h) == h \in Libs /\ byHandle[h].refs > 0

\* Other references to the library remain.
Shared(h) == h \in Libs /\ byHandle[h].refs > 1

\* Mutant: a library is forgotten under the name of its file only.
FileNameForgotten(h) ==
    Keep(byName, {n \in DOMAIN byName : byName[n] # h \/ n \notin Elf})

\* libraries_by_name.retain: every name of the handle goes.
NamesForgotten(h) == Keep(byName, {n \in DOMAIN byName : byName[n] # h})

\* unload_library.  Nothing is unmapped and global_symbols keeps its entries.
Close(t) ==
    /\ pc[t] \in {"close", "unhook"}
    /\ WriteSection(t)
    /\ LET h == arg[t]
       IN  /\ IF Shared(h)
                THEN /\ byHandle' = [byHandle EXCEPT ![h].refs = @ - 1]
                     /\ UNCHANGED byName
                ELSE /\ byHandle' = Keep(byHandle, Libs \ {h})
                     /\ byName' = IF h \in Libs THEN NamesForgotten(h) ELSE byName
           /\ owners' = IF pc[t] = "close" THEN [owners EXCEPT ![h] = @ - 1] ELSE owners
    /\ Goto(t, "idle")
    /\ arg' = [arg EXCEPT ![t] = NoLoad]
    /\ UNCHANGED <<globals, nextHandle, relocErr, images, loadVars, writer, readers, calls>>

\* The library's external symbols or its own image have symbol s.
Provides(h, s) ==
    s \in DOMAIN byHandle[h].ext \/ (~byHandle[h].stub /\ s \in Defines[images[h].file])

\* dlsym of a symbol the library itself does not provide keeps its read lock and
\* asks dlsym_global, which takes the read lock a second time.
DlsymOwn(t, h, s) ==
    /\ Begin(t)
    /\ CanRead
    /\ h \in Libs
    /\ ~Provides(h, s)
    /\ readers' = readers \cup {t}
    /\ Goto(t, "dlsym")
    /\ UNCHANGED <<regVars, loadVars, writer, waiting, owners, arg>>

DlsymGlobal(t) ==
    /\ pc[t] = "dlsym"
    /\ CanRead
    /\ readers' = readers \ {t}
    /\ Goto(t, "idle")
    /\ UNCHANGED <<regVars, loadVars, writer, waiting, owners, calls, arg>>

\* add_symbols (FMOD's C++ runtime symbols, the launcher's API for mods).
CallAdd(t, h) ==
    /\ Begin(t)
    /\ Goto(t, "add")
    /\ arg' = [arg EXCEPT ![t] = h]
    /\ UNCHANGED <<regVars, loadVars, lockVars, owners>>

AddSymbols(t) ==
    /\ pc[t] = "add"
    /\ WriteSection(t)
    /\ byHandle' = [h \in Libs |-> IF h = arg[t]
                      THEN [byHandle[h] EXCEPT !.ext = Overlay(@, All(Hooks, Launcher))]
                      ELSE byHandle[h]]
    /\ globals' = Overlay(globals, All(Hooks, Launcher))
    /\ Goto(t, "idle")
    /\ arg' = [arg EXCEPT ![t] = NoLoad]
    /\ UNCHANGED <<byName, nextHandle, relocErr, images, loadVars, writer, readers, owners, calls>>

\* linker_rust_call_init_functions: the library is looked up, the lock is
\* dropped to make RELRO writable, and looked up again by name to run its
\* constructors under a read lock.
CallInit(t, n) ==
    /\ Begin(t)
    /\ CanRead
    /\ Registered(n) /\ ~byHandle[byName[n]].stub
    /\ req' = [req EXCEPT ![t] = [NoReq EXCEPT !.name = n]]
    /\ Goto(t, "init")
    /\ UNCHANGED <<regVars, loading, cur, wrap, snap, lockVars, owners, arg>>

RunInit(t) ==
    /\ pc[t] = "init"
    /\ CanRead
    /\ LET n == req[t].name
       IN  images' = IF Registered(n) /\ ~byHandle[byName[n]].stub
                     THEN [images EXCEPT ![byName[n]].inits = @ + 1] ELSE images
    /\ req' = [req EXCEPT ![t] = NoReq]
    /\ Goto(t, "idle")
    /\ UNCHANGED <<byHandle, byName, globals, nextHandle, relocErr, loading, cur, wrap, snap,
                   lockVars, owners, calls, arg>>

-----------------------------------------------------------------------------
(* A step inside a call that has begun, and a new call. *)

LoadStep(t) ==
    \/ OpenAgain(t) \/ OpenStub(t) \/ OpenElf(t)
    \/ SkipDep(t) \/ LoadDep(t) \/ DepsDone(t)
    \/ Link(t) \/ Finish(t) \/ AfterLoad(t)

Step(t) ==
    \/ Queue(t) \/ LoadStep(t)
    \/ Close(t) \/ DlsymGlobal(t) \/ AddSymbols(t) \/ RunInit(t)

Call(t) ==
    \/ \E r \in Requests : CallOpen(t, r)
    \/ \E n \in FmodNames : CallFmod(t, n)
    \/ \E n \in SqliteNames : CallSqlite(t, n)
    \/ \E h \in DOMAIN owners :
         \/ CallClose(t, h) \/ CallModHook(t, h) \/ CallAdd(t, h)
         \/ \E s \in Asked : DlsymOwn(t, h, s)
    \/ \E n \in InitNames : CallInit(t, n)

Next == \E t \in Threads : Call(t) \/ Step(t)

Spec == Init /\ [][Next]_vars

\* Each thread is scheduled as long as it can run; the number of calls is
\* bounded, so no thread can be overtaken for ever at the lock.
FairSpec == Spec /\ \A t \in Threads : WF_vars(Step(t))

-----------------------------------------------------------------------------
(* The abstract specification this module implements: a handle is valid from *)
(* the moment its library is registered.                                     *)

References == [h \in Libs |-> byHandle[h].refs]
IssuedHandles == (1 .. (nextHandle - 1)) \ DOMAIN loading

Table == INSTANCE HandleTable WITH refs <- References, issued <- IssuedHandles

\* To a caller a load is one atomic step that yields a fresh handle or one more
\* reference, although it releases the lock in the middle, and a handle whose
\* library was unloaded never comes to mean another one.
TableSpec == Table!TableSpec

-----------------------------------------------------------------------------
(* Properties *)

Handles == 1 .. (nextHandle - 1)

Partial(S, T) == UNION {[R -> T] : R \in SUBSET S}

Exts == Partial(Syms, {Launcher, Dispatch})
LibraryType == [refs : Nat \ {0}, stub : BOOLEAN, ext : Exts]
IsImage(i) ==
    /\ DOMAIN i = {"file", "ctors", "linked", "got", "bound", "inits"}
    /\ i.file \in Elf /\ i.ctors \in BOOLEAN /\ i.linked \in BOOLEAN /\ DOMAIN i.got \subseteq Syms
    /\ i.bound \in BOOLEAN /\ i.inits \in Nat
LoadType == [thread : Threads, name : Elf, parent : Nat, todo : Seq(Names),
             ext : Exts, ctors : BOOLEAN]
RequestType == [name : Names \cup {""}, ctors : BOOLEAN, stub : BOOLEAN, ext : Exts]
PcType == {"idle", "open", "deps", "link", "ctor", "post", "close", "unhook", "dlsym",
           "add", "init"}

RegistryTypes ==
    /\ nextHandle \in Nat \ {0} /\ relocErr \in BOOLEAN
    /\ Libs \subseteq Handles /\ \A h \in Libs : byHandle[h] \in LibraryType
    /\ DOMAIN byName \subseteq Names
    /\ owners \in [Handles -> Nat]

LoadTypes ==
    /\ DOMAIN images \subseteq Handles /\ \A h \in DOMAIN images : IsImage(images[h])
    /\ DOMAIN loading \subseteq DOMAIN images /\ \A h \in DOMAIN loading : loading[h] \in LoadType

ThreadTypes ==
    /\ pc \in [Threads -> PcType] /\ req \in [Threads -> RequestType]
    /\ cur \in [Threads -> Nat] /\ arg \in [Threads -> Nat] /\ calls \in Nat
    /\ wrap \in [Threads -> {"none", "fmod", "sqlite"}]

LockTypes ==
    writer \in Threads \cup {NoThread} /\ readers \subseteq Threads /\ waiting \subseteq Threads

\* Type invariant: the variables keep the shape the Rust types give them, and
\* every handle in use was allocated by next_handle.
TypeOK == RegistryTypes /\ LoadTypes /\ ThreadTypes /\ LockTypes

\* A registered name always leads to a registered library: two threads that load
\* the same file, a soname shared with the requested name, and a dlclose in the
\* middle of someone else's load never leave libraries_by_name dangling.
NamesLive == \A n \in DOMAIN byName : byName[n] \in Libs

\* The reference count covers every reference handed to a caller, so a handle
\* its owner has not closed still names a registered library, whatever the other
\* threads open and close (provided each closes only what it opened).
RefsCoverOwners ==
    \A h \in DOMAIN owners : owners[h] > 0 => h \in Libs /\ byHandle[h].refs >= owners[h]

\* Neither global_symbols nor any GOT ever holds an address of an image that is
\* mapped but not relocated yet, although loads interleave between mapping and
\* relocation.
OnlyLinkedAddresses ==
    LET ok(a) == a \in {Launcher, Dispatch} \/ (a \in DOMAIN images /\ images[a].linked)
    IN  /\ \A s \in DOMAIN globals : ok(globals[s])
        /\ \A h \in DOMAIN images : \A s \in DOMAIN images[h].got : ok(images[h].got[s])

\* Constructors run only in a fully bound image, and what its GOT leads to has
\* run its own constructors first unless it was loaded without them or could not
\* be bound ("Call init functions only if no unresolved symbols").
InitBeforeUse ==
    \A h \in DOMAIN images : images[h].ctors /\ images[h].inits > 0 =>
        /\ images[h].bound
        /\ \A s \in DOMAIN images[h].got :
             LET a == images[h].got[s]
             IN  a \in DOMAIN images /\ images[a].ctors /\ images[a].bound => images[a].inits > 0

\* Both: what a GOT or the global scope leads to is relocated, and initialised
\* before an image that is relies on it, whatever other threads load meanwhile.
AddressesSound == OnlyLinkedAddresses /\ InitBeforeUse

\* Every call into the linker returns.
CallsReturn == \A t \in Threads : pc[t] # "idle" ~> pc[t] = "idle"

\* dlsym returns: "Returns the symbol address, or null if not found."
DlsymReturns == \A t \in Threads : pc[t] = "dlsym" ~> pc[t] = "idle"

\* A library has one live image ("Re-mapping a second copy in the Rust linker is
\* catastrophic").
OneLiveImage ==
    \A h, k \in DOMAIN images :
        h # k /\ Soname[images[h].file] = Soname[images[k].file]
            => ~(h \in Libs \cup DOMAIN loading /\ k \in Libs \cup DOMAIN loading)

\* The dl* override given to libfmod is "scoped to fmod's own relocations".
OverrideScoped ==
    \A h \in DOMAIN images : images[h].file \notin FmodNames =>
        \A s \in DOMAIN images[h].got : images[h].got[s] # Dispatch

\* linker_rust_dlopen_sqlite removes only "symbols that were added by this load".
SqliteRemovesItsOwn ==
    [][\A t \in Threads : pc[t] = "post" /\ pc'[t] = "idle" /\ wrap[t] = "sqlite" =>
         \A s \in DOMAIN globals \ DOMAIN globals' :
             globals[s] \in DOMAIN images /\ images[globals[s]].file \in SqliteNames]_vars
=============================================================================
