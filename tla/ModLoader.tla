----------------------------- MODULE ModLoader -----------------------------
(***************************************************************************)
(* The mod loader of crates/corelib/src/mod_loader.rs on top of the linker *)
(* (module Linker): the two passes the main thread makes over the mod      *)
(* directories, one before the game library is loaded and one after it.    *)
(*                                                                         *)
(* A mod is known to the linker under the full path of its file and, once  *)
(* loaded, under its soname; the mods that need it name the soname, which  *)
(* the linker does not find on its search path by itself.  Each dlopen,    *)
(* dlsym and dlclose of the main thread is a call of Linker and takes all  *)
(* the steps it takes there, so the threads that earlier code started run  *)
(* in between.  The entry points of a mod are steps without effect on the  *)
(* linker; what matters here is which of them run, in which image.         *)
(***************************************************************************)
EXTENDS Linker

CONSTANTS
    Loader,          \* the main thread
    ModOrder,        \* the .so files of the mod directory, in name order
    Path,            \* [mod file -> full path, the name given to dlopen]
    Game,            \* libminecraftpe.so
    PreinitFn, InitFn, \* the symbols mod_preinit and mod_init
    Scans,           \* bound: scans of the directory in each pass (-m may name
                     \* the default directory again)
    BackgroundNames, \* libraries other threads open
    MaxBackground    \* bound: calls of the other threads

Mods == {ModOrder[i] : i \in DOMAIN ModOrder}

ASSUME ModsAssumption ==
    /\ Loader \in Threads
    /\ Mods \subseteq Names /\ Path \in [Mods -> Elf]
    /\ Game \in Names /\ {PreinitFn, InitFn} \subseteq Asked
    /\ BackgroundNames \subseteq Names
    /\ Scans \in Nat \ {0} /\ MaxBackground \in Nat

VARIABLES
    pass,     \* "preinit", "game", "init", "done"
    scans,    \* scans of the directory left in this pass
    toLoad,   \* to_load: files not taken yet
    stack,    \* calls of load_mod_multi: [mod, todo], the innermost last
    at,       \* where the innermost load_mod is
    lib,      \* the handle its dlopen returned
    table,    \* MODS: handle -> passes whose entry point was called
    log,      \* history: entry points run, [mod, pass, scan, image]
    background \* calls the other threads made, for the bound

modVars == <<pass, scans, toLoad, stack, at, lib, table, log, background>>
allVars == <<vars, modVars>>

-----------------------------------------------------------------------------
ModInit ==
    /\ Init
    /\ pass = "preinit"
    /\ scans = Scans - 1
    /\ toLoad = Mods
    /\ stack = <<>>
    /\ at = "scan"
    /\ lib = NoLoad
    /\ table = Empty
    /\ log = <<>>
    /\ background = 0

\* get_mod_dependencies: the DT_NEEDED names of the file.
Deps(m) == Needed[Path[m]]
NeedsGame(m) == \E i \in DOMAIN Deps(m) : Deps(m)[i] = Game

\* pop_first of the BTreeSet takes the smallest name.
First(m) == \E i \in DOMAIN ModOrder :
               ModOrder[i] = m /\ \A j \in DOMAIN ModOrder : ModOrder[j] \in toLoad => i <= j

Top == stack[Len(stack)]
Below == SubSeq(stack, 1, Len(stack) - 1)
Scanning == at = "scan" /\ pc[Loader] = "idle"

\* load_mod_multi begins for mod m.  In the preinit pass a mod that needs the
\* game returns false, and so do all its callers.
Enter(m, callers) ==
    stack' = IF pass = "preinit" /\ NeedsGame(m) THEN <<>>
             ELSE Append(callers, [mod |-> m, todo |-> Deps(m)])

\* Mutant: the file is looked at (first) and stays in to_load.
Peeked(m) == toLoad

\* The rest of to_load once m is popped.
Popped(m) == toLoad \ {m}

PopFirst ==
    /\ Scanning /\ pass \in {"preinit", "init"}
    /\ stack = <<>>
    /\ \E m \in toLoad : First(m) /\ Enter(m, <<>>) /\ toLoad' = Popped(m)
    /\ UNCHANGED <<vars, pass, scans, at, lib, table, log, background>>

\* Mutant: dependencies are left to the order of the directory.
NotPending(d) == FALSE

\* `other` still holds the dependency.
Pending(d) == d \in toLoad

NextDep ==
    /\ Scanning
    /\ stack # <<>> /\ Top.todo # <<>>
    /\ LET d == Head(Top.todo)
           callers == Append(Below, [Top EXCEPT !.todo = Tail(@)])
       IN  \/ /\ Pending(d)
              /\ toLoad' = toLoad \ {d}
              /\ Enter(d, callers)
           \/ /\ ~Pending(d)
              /\ stack' = callers
              /\ UNCHANGED toLoad
    /\ UNCHANGED <<vars, pass, scans, at, lib, table, log, background>>

\* load_mod returns, and with it load_mod_multi.
Leave == at' = "scan" /\ stack' = Below

OpenMod ==
    /\ Scanning
    /\ stack # <<>> /\ Top.todo = <<>>
    /\ CallOpen(Loader, Request(Path[Top.mod], TRUE, FALSE, Empty))
    /\ at' = "opening"
    /\ UNCHANGED <<pass, scans, toLoad, stack, lib, table, log, background>>

\* The handle a load credits to its caller when it returns.
Credited == CHOOSE h \in DOMAIN owners' :
               owners'[h] > (IF h \in DOMAIN owners THEN owners[h] ELSE 0)

\* A step of the linker inside a call of the main thread.
LinkerStep ==
    /\ Step(Loader)
    /\ at # "lookup"
    /\ IF at = "opening" /\ pc'[Loader] = "idle"
         THEN at' = "opened" /\ lib' = Credited
         ELSE UNCHANGED <<at, lib>>
    /\ UNCHANGED <<pass, scans, toLoad, stack, table, log, background>>

\* linker_last_load_had_reloc_errors: the mod is given up.
DropMod ==
    /\ at = "opened"
    /\ relocErr
    /\ CallClose(Loader, lib)
    /\ at' = "dropping"
    /\ UNCHANGED <<pass, scans, toLoad, stack, lib, table, log, background>>

ModDropped ==
    /\ at = "dropping" /\ pc[Loader] = "idle"
    /\ Leave
    /\ UNCHANGED <<vars, pass, scans, toLoad, lib, table, log, background>>

\* Mutant: a second load of the same mod is not noticed.
NeverRepeated(h) == FALSE

\* The handle has an entry in the table.
Repeated(h) == h \in DOMAIN table

\* The mod was loaded before: its second reference is given up.
CloseAgain ==
    /\ at = "opened"
    /\ ~relocErr
    /\ Repeated(lib)
    /\ CallClose(Loader, lib)
    /\ at' = "again"
    /\ UNCHANGED <<pass, scans, toLoad, stack, lib, table, log, background>>

\* Mutant: the entry point runs at every load of the mod.
NeverDone(h) == FALSE

\* already_done of the pass.
AlreadyDone(h) == pass \in table[h]

DoneBefore ==
    /\ at = "again" /\ pc[Loader] = "idle"
    /\ AlreadyDone(lib)
    /\ Leave
    /\ UNCHANGED <<vars, pass, scans, toLoad, lib, table, log, background>>

\* The entry of the table is made or completed.
Record ==
    /\ \/ at = "opened" /\ ~relocErr /\ ~Repeated(lib)
       \/ at = "again" /\ pc[Loader] = "idle" /\ ~AlreadyDone(lib)
    /\ table' = Insert(table, lib,
                       (IF Repeated(lib) THEN table[lib] ELSE {}) \cup {pass})
    /\ at' = "entry"
    /\ UNCHANGED <<vars, pass, scans, toLoad, stack, lib, log, background>>

EntryPoint == IF pass = "preinit" THEN PreinitFn ELSE InitFn

Run(image) ==
    log' = Append(log, [mod |-> Top.mod, pass |-> pass, scan |-> scans, image |-> image])

\* dlsym finds the entry point in the mod itself.
RunOwnEntry ==
    /\ at = "entry" /\ CanRead
    /\ lib \in Libs /\ Provides(lib, EntryPoint)
    /\ Run(lib)
    /\ Leave
    /\ UNCHANGED <<vars, pass, scans, toLoad, lib, table, background>>

\* It does not: dlsym falls back to dlsym_global.
LookElsewhere ==
    /\ at = "entry"
    /\ DlsymOwn(Loader, lib, EntryPoint)
    /\ at' = "lookup"
    /\ UNCHANGED <<pass, scans, toLoad, stack, lib, table, log, background>>

\* dlsym_global finds the symbol in the global scope, or nowhere.
RunFoundEntry ==
    /\ at = "lookup"
    /\ DlsymGlobal(Loader)
    /\ IF EntryPoint \in DOMAIN globals THEN Run(globals[EntryPoint]) ELSE UNCHANGED log
    /\ Leave
    /\ UNCHANGED <<pass, scans, toLoad, lib, table, background>>

-----------------------------------------------------------------------------
(* The passes. *)

PassOver == Scanning /\ stack = <<>> /\ toLoad = {}

ScanAgain ==
    /\ PassOver /\ pass \in {"preinit", "init"} /\ scans > 0
    /\ toLoad' = Mods
    /\ scans' = scans - 1
    /\ UNCHANGED <<vars, pass, stack, at, lib, table, log, background>>

\* load_minecraft: the last load before the init pass is the game's.
LoadGame ==
    /\ PassOver /\ pass = "preinit" /\ scans = 0
    /\ CallOpen(Loader, Request(Game, FALSE, FALSE, All(Hooks, Launcher)))
    /\ pass' = "game"
    /\ UNCHANGED <<scans, toLoad, stack, at, lib, table, log, background>>

GameLoaded ==
    /\ pass = "game" /\ pc[Loader] = "idle"
    /\ pass' = "init"
    /\ toLoad' = Mods
    /\ scans' = Scans - 1
    /\ UNCHANGED <<vars, stack, at, lib, table, log, background>>

InitDone ==
    /\ PassOver /\ pass = "init" /\ scans = 0
    /\ pass' = "done"
    /\ UNCHANGED <<vars, scans, toLoad, stack, at, lib, table, log, background>>

LoaderNext ==
    \/ PopFirst \/ NextDep \/ OpenMod \/ LinkerStep
    \/ DropMod \/ ModDropped \/ CloseAgain \/ DoneBefore \/ Record
    \/ RunOwnEntry \/ LookElsewhere \/ RunFoundEntry
    \/ ScanAgain \/ LoadGame \/ GameLoaded \/ InitDone

\* A thread that a mod or a library started.
BackgroundNext(t) ==
    \/ /\ \E n \in BackgroundNames : CallOpen(t, Request(n, TRUE, FALSE, Empty))
       /\ background < MaxBackground
       /\ background' = background + 1
       /\ UNCHANGED <<pass, scans, toLoad, stack, at, lib, table, log>>
    \/ Step(t) /\ UNCHANGED modVars

ModNext == LoaderNext \/ \E t \in Threads \ {Loader} : BackgroundNext(t)

ModSpec == ModInit /\ [][ModNext]_allVars

\* Both the main thread and the others are scheduled while they can run.
ModFairSpec ==
    /\ ModSpec
    /\ WF_allVars(LoaderNext)
    /\ \A t \in Threads \ {Loader} : WF_allVars(BackgroundNext(t))

-----------------------------------------------------------------------------
(* Properties *)

\* Between two mods the loader owns exactly one reference to each mod of the
\* table, though a mod is opened again in the second pass, in a second scan of
\* the directory, and again when the flag makes the loader give it up.
OneReferencePerMod ==
    at = "scan" => \A h \in DOMAIN table : h \in Libs /\ owners[h] = 1

\* A mod's entry point is called at most once in each pass, however often the
\* directories name it.
CalledOncePerPass ==
    \A i, j \in DOMAIN log :
        log[i].mod = log[j].mod /\ log[i].pass = log[j].pass => i = j

\* In one scan of the directory no entry point runs before that of a mod it
\* needs ("Loads dependency mods before the mod itself"), unless the two need
\* each other.  Over several scans this is not so: a dependency the loader gave
\* up in one scan may be taken in the next.
DependenciesFirst ==
    LET needs(m, d) == \E k \in DOMAIN Deps(m) : Deps(m)[k] = d
    IN  \A i, j \in DOMAIN log :
            /\ i < j /\ log[i].pass = log[j].pass /\ log[i].scan = log[j].scan
            /\ needs(log[i].mod, log[j].mod)
            => needs(log[j].mod, log[i].mod)

\* Both: a pass calls each entry point once at most, and that of a mod after
\* those of the mods it needs.
PassesSound == CalledOncePerPass /\ DependenciesFirst

\* Both passes come to an end, also for mods that need each other, or the loader
\* waits in dlsym_global for a writer that waits for the loader (DlsymReturns).
WaitsForItself == at = "lookup" /\ waiting # {}
PassesEnd == <>(pass = "done" \/ WaitsForItself)

\* Once both passes are over, every mod that is loaded, fully bound and has a
\* mod_init had it called: the loader gives up only a "library whose GOT was not
\* fully bound".
BoundModsInitialized ==
    pass = "done" =>
        \A h \in DOMAIN table :
            images[h].bound /\ InitFn \in Defines[images[h].file] =>
                \E i \in DOMAIN log : log[i].pass = "init" /\ log[i].image = h

\* No entry point runs in a "library whose GOT was not fully bound".
EntryOnlyInBoundImage ==
    \A i \in DOMAIN log : log[i].image \in DOMAIN images => images[log[i].image].bound
=============================================================================
