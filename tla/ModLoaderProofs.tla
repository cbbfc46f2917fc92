-------------------------- MODULE ModLoaderProofs --------------------------
(***************************************************************************)
(* Theorems about the mod loader on top of the linker, for any mods,       *)
(* threads and number of scans.                                            *)
(***************************************************************************)
EXTENDS ModLoader, LinkerProofs, SequenceTheorems

-----------------------------------------------------------------------------
(* The mod loader is a client of the linker like any other. *)

LoadCalls == [mod : Mods, todo : Seq(Names)]

\* The loads in progress are loads of files of the directory.
StackOfMods ==
    /\ toLoad \subseteq Mods
    /\ stack \in Seq(LoadCalls)

LEMMA DepsType ==
    ASSUME NEW m \in Mods
    PROVE  Path[m] \in Elf /\ Deps(m) \in Seq(Names)
BY ModsAssumption, FilesAssumption DEF Deps

LEMMA EnterKeeps ==
    ASSUME NEW m \in Mods, NEW callers \in Seq(LoadCalls), Enter(m, callers)
    PROVE  stack' \in Seq(LoadCalls)
<1>1. [mod |-> m, todo |-> Deps(m)] \in LoadCalls
  BY DepsType DEF LoadCalls
<1>2. Append(callers, [mod |-> m, todo |-> Deps(m)]) \in Seq(LoadCalls)
  BY <1>1, AppendProperties
<1> QED
  BY <1>2, EmptySeq DEF Enter

LEMMA BelowType ==
    ASSUME StackOfMods
    PROVE  Below \in Seq(LoadCalls)
<1>1. CASE stack = <<>>
  BY <1>1, EmptySeq DEF StackOfMods, Below
<1>2. CASE stack # <<>>
  <2>1. \A i \in 1 .. (Len(stack) - 1) : stack[i] \in LoadCalls
    BY ElementOfSeq, LenProperties DEF StackOfMods
  <2>2. Len(stack) - 1 \in Nat /\ Len(stack) - 1 <= Len(stack)
    BY <1>2, LenProperties, EmptySeq DEF StackOfMods
  <2> QED
    BY <2>1, <2>2, SubSeqProperties DEF StackOfMods, Below
<1> QED
  BY <1>1, <1>2

LEMMA LeaveKeeps ==
    ASSUME StackOfMods, Leave
    PROVE  stack' \in Seq(LoadCalls)
BY BelowType DEF Leave

LEMMA TopType ==
    ASSUME StackOfMods, stack # <<>>
    PROVE  Top \in LoadCalls
<1>1. Len(stack) \in 1 .. Len(stack)
  BY LenProperties, EmptySeq DEF StackOfMods
<1> QED
  BY <1>1, ElementOfSeq DEF StackOfMods, Top

LEMMA StackKept ==
    ASSUME StackOfMods, [ModNext]_allVars
    PROVE  StackOfMods'
<1>1. CASE PopFirst
  <2>1. PICK m \in toLoad : Enter(m, <<>>) /\ toLoad' = Popped(m)
    BY <1>1 DEF PopFirst
  <2> QED
    BY <2>1, EnterKeeps, EmptySeq DEF StackOfMods, Popped
<1>2. CASE NextDep
  <2> DEFINE d == Head(Top.todo)
             callers == Append(Below, [Top EXCEPT !.todo = Tail(@)])
  <2>1. Top \in LoadCalls /\ Top.todo # <<>>
    BY <1>2, TopType DEF NextDep
  <2>2. [Top EXCEPT !.todo = Tail(@)] \in LoadCalls
    <3>1. Tail(Top.todo) \in Seq(Names)
      BY <2>1, HeadTailProperties DEF LoadCalls
    <3> QED
      BY <2>1, <3>1 DEF LoadCalls
  <2>3. callers \in Seq(LoadCalls)
    BY <2>2, BelowType, AppendProperties
  <2>4. CASE Pending(d) /\ toLoad' = toLoad \ {d} /\ Enter(d, callers)
    BY <2>3, <2>4, EnterKeeps DEF StackOfMods, Pending
  <2>5. CASE stack' = callers /\ toLoad' = toLoad
    BY <2>3, <2>5 DEF StackOfMods
  <2> QED
    BY <1>2, <2>4, <2>5 DEF NextDep
<1>3. CASE ModDropped \/ DoneBefore \/ RunOwnEntry \/ RunFoundEntry
  <2>1. Leave /\ toLoad' = toLoad
    BY <1>3 DEF ModDropped, DoneBefore, RunOwnEntry, RunFoundEntry
  <2> QED
    BY <2>1, LeaveKeeps DEF StackOfMods
<1>4. CASE \/ OpenMod \/ LinkerStep \/ DropMod \/ CloseAgain \/ Record \/ LookElsewhere
           \/ LoadGame \/ InitDone
  BY <1>4 DEF OpenMod, LinkerStep, DropMod, CloseAgain, Record, LookElsewhere, LoadGame,
              InitDone, StackOfMods
<1>5. CASE ScanAgain \/ GameLoaded
  BY <1>5 DEF ScanAgain, GameLoaded, StackOfMods
<1>6. CASE \E t \in Threads \ {Loader} : BackgroundNext(t)
  BY <1>6 DEF BackgroundNext, modVars, StackOfMods
<1>7. CASE UNCHANGED allVars
  BY <1>7 DEF allVars, modVars, StackOfMods
<1> QED
  BY <1>1, <1>2, <1>3, <1>4, <1>5, <1>6, <1>7 DEF ModNext, LoaderNext

\* What the loader and the other threads ask for is among the requests of Linker.
LEMMA InRequests ==
    ASSUME NEW n \in Names, NEW ctors \in BOOLEAN, NEW stub \in BOOLEAN, NEW S \in {{}, Hooks}
    PROVE  Request(n, ctors, stub, All(S, Launcher)) \in Requests
<1>1. \E m \in Names, c \in BOOLEAN, b \in BOOLEAN, T \in {{}, Hooks} :
         Request(n, ctors, stub, All(S, Launcher)) = Request(m, c, b, All(T, Launcher))
  OBVIOUS
<1> QED
  BY <1>1 DEF Requests

LEMMA PlainRequest ==
    ASSUME NEW n \in Names
    PROVE  Request(n, TRUE, FALSE, Empty) \in Requests
<1>1. Empty = All({}, Launcher)
  BY DEF Empty, All, Launcher
<1> QED
  BY <1>1, InRequests

LEMMA GameRequest == Request(Game, FALSE, FALSE, All(Hooks, Launcher)) \in Requests
BY ModsAssumption, InRequests

\* Each step is a step of the linker, or does not touch it.
LEMMA StepOfLinker ==
    ASSUME StackOfMods, HandleInv, [ModNext]_allVars
    PROVE  [Next]_vars
<1>0. Loader \in Threads /\ Elf \subseteq Names /\ Libs \subseteq DOMAIN owners
  BY ModsAssumption, FilesAssumption DEF HandleInv, RegistryInv, TypeOK, RegistryTypes
<1>1. CASE OpenMod
  <2>1. Top.mod \in Mods
    BY <1>1, TopType DEF OpenMod, LoadCalls
  <2>2. Request(Path[Top.mod], TRUE, FALSE, Empty) \in Requests
    BY <1>0, <2>1, DepsType, PlainRequest
  <2> QED
    BY <1>0, <1>1, <2>2 DEF OpenMod, Next, Call
<1>2. CASE LinkerStep
  BY <1>0, <1>2 DEF LinkerStep, Next
<1>3. CASE DropMod \/ CloseAgain
  <2>1. CallClose(Loader, lib)
    BY <1>3 DEF DropMod, CloseAgain
  <2>2. lib \in DOMAIN owners
    BY <2>1 DEF CallClose
  <2> QED
    BY <1>0, <2>1, <2>2 DEF Next, Call
<1>4. CASE LookElsewhere
  <2>1. DlsymOwn(Loader, lib, EntryPoint)
    BY <1>4 DEF LookElsewhere
  <2>2. lib \in DOMAIN owners /\ EntryPoint \in Asked
    BY <1>0, <2>1, ModsAssumption DEF DlsymOwn, EntryPoint
  <2> QED
    BY <1>0, <2>1, <2>2 DEF Next, Call
<1>5. CASE RunFoundEntry
  BY <1>0, <1>5 DEF RunFoundEntry, Next, Step
<1>6. CASE LoadGame
  BY <1>0, <1>6, GameRequest DEF LoadGame, Next, Call
<1>7. CASE \E t \in Threads \ {Loader} : BackgroundNext(t)
  <2>1. PICK t \in Threads : BackgroundNext(t)
    BY <1>7
  <2>2. CASE \E n \in BackgroundNames : CallOpen(t, Request(n, TRUE, FALSE, Empty))
    BY <2>2, ModsAssumption, PlainRequest DEF Next, Call
  <2> QED
    BY <2>1, <2>2 DEF BackgroundNext, Next
<1>8. CASE \/ PopFirst \/ NextDep \/ ModDropped \/ DoneBefore \/ Record \/ RunOwnEntry
           \/ ScanAgain \/ GameLoaded \/ InitDone
  BY <1>8 DEF PopFirst, NextDep, ModDropped, DoneBefore, Record, RunOwnEntry, ScanAgain,
              GameLoaded, InitDone
<1>9. CASE UNCHANGED allVars
  BY <1>9 DEF allVars
<1> QED
  BY <1>1, <1>2, <1>3, <1>4, <1>5, <1>6, <1>7, <1>8, <1>9 DEF ModNext, LoaderNext

\* Whatever the mods, the passes and the other threads do, the linker sees
\* nothing but calls of its own interface.
THEOREM LoaderUsesLinker == ModSpec => Spec
<1>1. ModInit => Init /\ StackOfMods /\ HandleInv
  BY InitHolds DEF ModInit, StackOfMods
<1>2. StackOfMods /\ HandleInv /\ [ModNext]_allVars => [Next]_vars
  BY StepOfLinker
<1>3. StackOfMods /\ HandleInv /\ [ModNext]_allVars => StackOfMods' /\ HandleInv'
  BY StackKept, NextKeeps, <1>2
<1> QED
  BY <1>1, <1>2, <1>3, PTL DEF ModSpec, Spec

\* So a reference the loader has not closed keeps its mod registered, through
\* both passes and beside any other loads, while no mod closes a handle that it
\* only looked up.
THEOREM LoaderReferencesCover ==
    ASSUME LookupClosers = {}
    PROVE  ModSpec => []RefsCoverOwners
BY LoaderUsesLinker, ReferencesCover, PTL

-----------------------------------------------------------------------------
(* One reference per mod.  The inductive invariant.                          *)

Paths == {Path[m] : m \in Mods}
Others == BackgroundNames \cup {Game}

\* No file is known under a name of a mod and a name of something else: a mod
\* that bears the soname of the game, say, is the game to everybody who opens it.
NamesDistinct ==
    /\ Paths \cap Others = {}
    /\ \A f \in Elf : /\ f \in Paths => Soname[f] \notin Others
                      /\ f \in Others => Soname[f] \notin Paths

\* Where a thread is while it loads something.
Load == {"open", "deps", "link", "ctor"}

\* The main thread is where load_mod and load_minecraft put it; the others only
\* load libraries.
LoaderPlace ==
    /\ at \in {"scan", "opening", "opened", "entry", "dropping", "again", "lookup"}
    /\ pass \in {"game", "done"} => at = "scan" /\ stack = <<>>
    /\ at # "scan" => stack # <<>>
    /\ at = "scan" => pc[Loader] = "idle" \/ (pass = "game" /\ pc[Loader] \in Load)
    /\ at = "opening" => pc[Loader] \in Load
    /\ at \in {"opened", "entry"} => pc[Loader] = "idle"
    /\ at \in {"dropping", "again"} =>
          pc[Loader] = "idle" \/ (pc[Loader] = "close" /\ arg[Loader] = lib)
    /\ at = "lookup" => pc[Loader] = "dlsym"

OthersPlace == \A t \in Threads \ {Loader} : pc[t] \in Load \cup {"idle"}

PlainCalls == \A t \in Threads : wrap[t] = "none" /\ (pc[t] \notin Load => cur[t] = NoLoad)

\* What a thread asks the linker for directly.
Wanted(t) == IF t = Loader /\ at = "opening" THEN {Path[Top.mod]} ELSE Others

DirectLoads ==
    /\ \A t \in Threads : pc[t] = "open" /\ cur[t] = NoLoad => req[t].name \in Wanted(t)
    /\ \A h \in DOMAIN loading :
          loading[h].parent = NoLoad => loading[h].name \in Wanted(loading[h].thread)

ControlInv == LoaderPlace /\ OthersPlace /\ PlainCalls /\ DirectLoads

\* The reference load_mod holds besides those of the table.
Holding == at = "opened" \/ (at \in {"dropping", "again"} /\ pc[Loader] = "close")
Held == IF Holding THEN {lib} ELSE {}

\* The references to h that the mod loader accounts for.
Count(h) == (IF h \in DOMAIN table THEN 1 ELSE 0) + (IF h \in Held THEN 1 ELSE 0)

Leads(n, h) == n \in DOMAIN byName /\ byName[n] = h

\* The same after the step, for a name of the state before it.
LeadsNext(n, h) == n \in DOMAIN byName' /\ byName'[n] = h

\* A library is either the mod loader's, which then has every reference to it, or
\* belongs to others, and then no path of a mod leads to it.
OwnedAsCounted ==
    \A h \in Handles : \/ owners[h] = Count(h)
                       \/ Count(h) = 0 /\ \A n \in Paths : ~Leads(n, h)

ModsApart == \A h \in Handles : Count(h) > 0 => \A n \in Others : ~Leads(n, h)

NamesApart == \A h \in Handles : \A n \in Paths, k \in Others : ~(Leads(n, h) /\ Leads(k, h))

LoadsUnowned == \A h \in DOMAIN loading : owners[h] = 0 /\ Count(h) = 0

ModsTracked == DOMAIN table \cup Held \subseteq Handles

\* load_mod looks a repeated load up in the table before it gives it up.
AgainRepeats == at = "again" => Repeated(lib)

CountInv == OwnedAsCounted /\ ModsApart /\ NamesApart /\ LoadsUnowned /\ ModsTracked

ModInv == ControlInv /\ CountInv /\ AgainRepeats

-----------------------------------------------------------------------------
(* The control invariant.                                                    *)

LEMMA LoadStepControl ==
    ASSUME NEW t \in Threads, RegistryInv, Step(t), pc[t] \in Load, wrap[t] = "none"
    PROVE  /\ pc'[t] \in Load \cup {"idle"}
           /\ wrap' = wrap
           /\ pc'[t] \notin Load => cur'[t] = NoLoad
           /\ \A u \in Threads \ {t} : cur'[u] = cur[u] /\ req'[u] = req[u]
<1>0. pc \in [Threads -> PcType] /\ cur \in [Threads -> Nat] /\ req \in [Threads -> RequestType]
  BY DEF RegistryInv, TypeOK, ThreadTypes
<1>1. CASE OpenAgain(t) \/ OpenStub(t)
  BY <1>0, <1>1 DEF OpenAgain, OpenStub, Return, Goto, Load
<1>2. CASE OpenElf(t) \/ SkipDep(t) \/ LoadDep(t) \/ DepsDone(t) \/ Link(t)
  BY <1>0, <1>2 DEF OpenElf, SkipDep, LoadDep, DepsDone, Link, Goto, Load, loadVars, callVars
<1>3. CASE Finish(t)
  BY <1>0, <1>3 DEF Finish, Return, Goto, Load
<1>4. CASE Queue(t)
  BY <1>0, <1>4 DEF Queue, loadVars, callVars
<1> QED
  BY <1>1, <1>2, <1>3, <1>4
  DEF Step, LoadStep, AfterLoad, Close, DlsymGlobal, AddSymbols, RunInit, Load

\* A direct load is of what the thread asked for.
LEMMA LoadStepDirect ==
    ASSUME NEW t \in Threads, RegistryInv, Step(t), pc[t] \in Load
    PROVE  /\ pc'[t] = "open" /\ cur'[t] = NoLoad
                => pc[t] = "open" /\ cur[t] = NoLoad /\ req'[t] = req[t]
           /\ \A h \in DOMAIN loading' : loading'[h].parent = NoLoad =>
                \/ /\ h \in DOMAIN loading /\ loading[h].parent = NoLoad
                   /\ loading'[h].name = loading[h].name
                   /\ loading'[h].thread = loading[h].thread
                \/ /\ pc[t] = "open" /\ cur[t] = NoLoad
                   /\ loading'[h].name = req[t].name /\ loading'[h].thread = t
<1>0. /\ pc \in [Threads -> PcType] /\ cur \in [Threads -> Nat]
      /\ req \in [Threads -> RequestType]
      /\ \A h \in DOMAIN loading : loading[h] \in LoadType
      /\ pc[t] \in {"deps", "link", "ctor"} => cur[t] # NoLoad /\ cur[t] \in DOMAIN loading
  BY DEF RegistryInv, TypeOK, ThreadTypes, LoadTypes, PcMeaning, LoadsNested
<1>1. CASE OpenAgain(t) \/ OpenStub(t)
  BY <1>0, <1>1 DEF OpenAgain, OpenStub, Return, Goto
<1>2. CASE OpenElf(t)
  <2>1. pc'[t] = "deps"
    BY <1>0, <1>2 DEF OpenElf, Goto
  <2>2. loading' = Insert(loading, nextHandle,
                     [thread |-> t, name |-> req[t].name, parent |-> cur[t],
                      todo |-> Needed[req[t].name], ext |-> req[t].ext, ctors |-> req[t].ctors])
    BY <1>2 DEF OpenElf
  <2>3. ASSUME NEW h \in DOMAIN loading', loading'[h].parent = NoLoad
        PROVE  \/ h \in DOMAIN loading /\ loading'[h] = loading[h]
               \/ loading'[h].name = req[t].name /\ loading'[h].thread = t /\ cur[t] = NoLoad
    BY <2>2, <2>3 DEF Insert
  <2> QED
    BY <1>2, <2>1, <2>3 DEF OpenElf
<1>3. CASE SkipDep(t) \/ LoadDep(t)
  <2>1. cur' = cur /\ cur[t] # NoLoad /\ cur[t] \in DOMAIN loading
        /\ loading' = [loading EXCEPT ![cur[t]].todo = Tail(@)]
    BY <1>0, <1>3 DEF SkipDep, LoadDep
  <2>2. ASSUME NEW h \in DOMAIN loading'
        PROVE  /\ h \in DOMAIN loading /\ loading'[h].parent = loading[h].parent
               /\ loading'[h].name = loading[h].name /\ loading'[h].thread = loading[h].thread
    BY <1>0, <2>1 DEF LoadType
  <2> QED
    BY <2>1, <2>2
<1>4. CASE DepsDone(t) \/ Link(t)
  BY <1>0, <1>4 DEF DepsDone, Link, Goto, loadVars
<1>5. CASE Finish(t)
  <2>1. pc'[t] # "open"
    BY <1>0, <1>5 DEF Finish, Return, Goto
  <2>2. \A h \in DOMAIN loading' : h \in DOMAIN loading /\ loading'[h] = loading[h]
    BY <1>5 DEF Finish, Keep
  <2> QED
    BY <2>1, <2>2
<1>6. CASE Queue(t)
  BY <1>0, <1>6 DEF Queue, loadVars, callVars
<1> QED
  BY <1>1, <1>2, <1>3, <1>4, <1>5, <1>6
  DEF Step, LoadStep, AfterLoad, Close, DlsymGlobal, AddSymbols, RunInit, Load

\* A thread without an innermost load has no load.
LEMMA IdleLoadsNothing ==
    ASSUME NEW t \in Threads, RegistryInv, cur[t] = NoLoad, NEW h \in DOMAIN loading
    PROVE  loading[h].thread # t
<1>1. h \in Handles /\ nextHandle \in Nat
  BY DEF RegistryInv, TypeOK, RegistryTypes, LoadTypes
<1>2. h <= cur[loading[h].thread]
  BY DEF RegistryInv, LoadsNested
<1> QED
  BY <1>1, <1>2 DEF Handles, NoLoad

\* A call that loads something, from the place where the thread was idle.
LEMMA CallOpenControl ==
    ASSUME NEW t \in Threads, NEW r \in RequestType, RegistryInv, ControlInv, CallOpen(t, r)
    PROVE  /\ pc' = [pc EXCEPT ![t] = "open"] /\ req' = [req EXCEPT ![t] = r]
           /\ UNCHANGED <<wrap, cur, loading, arg>>
           /\ cur[t] = NoLoad
           /\ \A h \in DOMAIN loading : loading[h].thread # t
BY IdleLoadsNothing DEF CallOpen, Begin, Goto, ControlInv, PlainCalls, Load

LEMMA QuietControl ==
    ASSUME ControlInv, UNCHANGED vars, at # "opening", at' # "opening"
    PROVE  OthersPlace' /\ PlainCalls' /\ DirectLoads'
BY DEF ControlInv, OthersPlace, PlainCalls, DirectLoads, Wanted, vars, regVars, loadVars, callVars

\* A step of load_mod that is no step of the linker.
LEMMA QuietStepControl ==
    ASSUME ControlInv,
           \/ PopFirst \/ NextDep \/ ModDropped \/ DoneBefore \/ Record \/ RunOwnEntry
           \/ ScanAgain \/ GameLoaded \/ InitDone
    PROVE  ControlInv'
<1>0. ControlInv /\ LoaderPlace /\ UNCHANGED vars
  BY DEF ControlInv, PopFirst, NextDep, ModDropped, DoneBefore, Record, RunOwnEntry, ScanAgain,
         GameLoaded, InitDone
<1>1. pc' = pc /\ arg' = arg
  BY <1>0 DEF vars, callVars
<1>2. CASE PopFirst \/ NextDep
  <2>1. at = "scan" /\ at' = at /\ pass' = pass /\ lib' = lib
        /\ pass \notin {"game", "done"}
    BY <1>0, <1>2 DEF PopFirst, NextDep, LoaderPlace, Scanning
  <2> QED
    BY <1>0, <1>1, <2>1, QuietControl DEF ControlInv, LoaderPlace
<1>3. CASE ModDropped \/ DoneBefore
  <2>1. at \in {"dropping", "again"} /\ pc[Loader] = "idle" /\ at' = "scan" /\ pass' = pass
    BY <1>3 DEF ModDropped, DoneBefore, Leave
  <2> QED
    BY <1>0, <1>1, <2>1, QuietControl DEF ControlInv, LoaderPlace
<1>4. CASE Record
  <2>1. /\ at \in {"opened", "again"} /\ pc[Loader] = "idle" /\ at' = "entry" /\ pass' = pass
        /\ stack' = stack
    BY <1>0, <1>4 DEF Record, LoaderPlace
  <2> QED
    BY <1>0, <1>1, <2>1, QuietControl DEF ControlInv, LoaderPlace
<1>5. CASE RunOwnEntry
  <2>1. at = "entry" /\ at' = "scan" /\ pass' = pass
    BY <1>5 DEF RunOwnEntry, Leave
  <2> QED
    BY <1>0, <1>1, <2>1, QuietControl DEF ControlInv, LoaderPlace
<1>6. CASE ScanAgain \/ InitDone
  <2>1. /\ at = "scan" /\ at' = at /\ pc[Loader] = "idle" /\ pass' # "game"
        /\ stack = <<>> /\ stack' = <<>>
    BY <1>6 DEF ScanAgain, InitDone, PassOver, Scanning
  <2> QED
    BY <1>0, <1>1, <2>1, QuietControl DEF ControlInv, LoaderPlace
<1>7. CASE GameLoaded
  <2>1. pass = "game" /\ pass' = "init" /\ pc[Loader] = "idle" /\ at = "scan" /\ at' = at
    BY <1>0, <1>7 DEF GameLoaded, LoaderPlace
  <2> QED
    BY <1>0, <1>1, <2>1, QuietControl DEF ControlInv, LoaderPlace
<1> QED
  BY <1>2, <1>3, <1>4, <1>5, <1>6, <1>7

LEMMA OpenControl ==
    ASSUME StackOfMods, RegistryInv, ControlInv, OpenMod \/ LoadGame
    PROVE  ControlInv'
<1>0. Loader \in Threads /\ pc \in [Threads -> PcType] /\ req \in [Threads -> RequestType]
  BY ModsAssumption DEF RegistryInv, TypeOK, ThreadTypes
<1>1. PICK r \in RequestType : CallOpen(Loader, r) /\ r.name \in Wanted(Loader)'
  <2>1. CASE OpenMod
    <3>1. Top.mod \in Mods
      BY <2>1, TopType DEF OpenMod, LoadCalls
    <3>2. /\ CallOpen(Loader, Request(Path[Top.mod], TRUE, FALSE, Empty))
          /\ at' = "opening" /\ Path[Top.mod] \in Names /\ Top' = Top
      BY <2>1, <3>1, DepsType, FilesAssumption DEF OpenMod, Top
    <3>3. Request(Path[Top.mod], TRUE, FALSE, Empty) \in RequestType
      BY <3>2, NoReqType DEF Request, RequestType, NoReq
    <3> QED
      BY <3>2, <3>3 DEF Wanted, Request
  <2>2. CASE LoadGame
    <3>1. /\ CallOpen(Loader, Request(Game, FALSE, FALSE, All(Hooks, Launcher)))
          /\ at' = "scan" /\ Game \in Names
      BY <2>2, ModsAssumption DEF LoadGame, PassOver, Scanning
    <3>2. All(Hooks, Launcher) \in Exts
      BY AllType, FilesAssumption
    <3>3. Request(Game, FALSE, FALSE, All(Hooks, Launcher)) \in RequestType
      BY <3>1, <3>2 DEF Request, RequestType
    <3> QED
      BY <3>1, <3>3 DEF Wanted, Request, Others
  <2> QED
    BY <2>1, <2>2
<1>2. /\ pc' = [pc EXCEPT ![Loader] = "open"] /\ req' = [req EXCEPT ![Loader] = r]
      /\ UNCHANGED <<wrap, cur, loading, arg>>
      /\ \A h \in DOMAIN loading : loading[h].thread # Loader
  BY <1>0, <1>1, CallOpenControl
<1>3. LoaderPlace'
  <2>1. pc'[Loader] = "open" /\ LoaderPlace
    BY <1>0, <1>2 DEF ControlInv
  <2>2. CASE OpenMod
    <3>1. at' = "opening" /\ pass' = pass /\ pass \notin {"game", "done"} /\ stack' # <<>>
      BY <2>1, <2>2 DEF OpenMod, LoaderPlace
    <3> QED
      BY <2>1, <3>1 DEF LoaderPlace, Load
  <2>3. CASE LoadGame
    <3>1. at' = "scan" /\ pass' = "game" /\ stack' = <<>>
      BY <2>3 DEF LoadGame, PassOver, Scanning
    <3> QED
      BY <2>1, <3>1 DEF LoaderPlace, Load
  <2> QED
    BY <2>2, <2>3
<1>4. OthersPlace' /\ PlainCalls'
  BY <1>0, <1>2 DEF ControlInv, OthersPlace, PlainCalls, Load
<1>5. \A u \in Threads \ {Loader} : Wanted(u)' = Wanted(u) /\ Wanted(u) = Others
  BY DEF Wanted
<1>6. DirectLoads'
  <2>1. ASSUME NEW u \in Threads, pc'[u] = "open", cur'[u] = NoLoad
        PROVE  req'[u].name \in Wanted(u)'
    <3>1. CASE u = Loader
      BY <1>0, <1>1, <1>2, <3>1
    <3>2. CASE u # Loader
      BY <1>0, <1>2, <1>5, <2>1, <3>2 DEF ControlInv, DirectLoads
    <3> QED
      BY <3>1, <3>2
  <2>2. ASSUME NEW h \in DOMAIN loading', loading'[h].parent = NoLoad
        PROVE  loading'[h].thread # Loader /\ loading'[h].name \in Others
    <3>1. h \in DOMAIN loading /\ loading[h].thread \in Threads \ {Loader}
          /\ loading[h].parent = NoLoad /\ loading' = loading
      BY <1>2, <2>2 DEF RegistryInv, TypeOK, LoadTypes, LoadType
    <3>2. loading[h].name \in Wanted(loading[h].thread)
      BY <3>1 DEF ControlInv, DirectLoads
    <3> QED
      BY <3>1, <3>2 DEF Wanted
  <2> QED
    BY <2>1, <2>2 DEF DirectLoads, Wanted
<1> QED
  BY <1>3, <1>4, <1>6 DEF ControlInv

\* What a step of a load leaves of the invariant, if the main thread looks for
\* the same names afterwards or has no load left.
LEMMA LoadKeepsDirect ==
    ASSUME NEW t \in Threads, RegistryInv, RegistryInv', ControlInv, Step(t), pc[t] \in Load,
           stack' = stack,
           (at' = "opening" <=> at = "opening") \/ (t = Loader /\ pc'[Loader] = "idle")
    PROVE  DirectLoads' /\ PlainCalls'
<1>0. /\ pc'[t] \in Load \cup {"idle"}
      /\ wrap' = wrap
      /\ pc'[t] \notin Load => cur'[t] = NoLoad
      /\ \A u \in Threads \ {t} :
            cur'[u] = cur[u] /\ req'[u] = req[u] /\ pc'[u] = pc[u] /\ arg'[u] = arg[u]
  BY LoadStepControl, OtherThreads DEF ControlInv, PlainCalls
<1>1. PlainCalls'
  BY <1>0 DEF ControlInv, PlainCalls
<1>2. \A u \in Threads : Wanted(u)' = Wanted(u) \/ (u = Loader /\ t = Loader /\ pc'[t] = "idle")
  BY DEF Wanted, Top
<1>3. ASSUME NEW u \in Threads, pc'[u] = "open", cur'[u] = NoLoad
      PROVE  req'[u].name \in Wanted(u)'
  <2>1. pc[u] = "open" /\ cur[u] = NoLoad /\ req'[u] = req[u]
    BY <1>0, <1>3, LoadStepDirect
  <2>2. req[u].name \in Wanted(u)
    BY <2>1 DEF ControlInv, DirectLoads
  <2> QED
    BY <1>2, <1>3, <2>1, <2>2
<1>4. ASSUME NEW h \in DOMAIN loading', loading'[h].parent = NoLoad,
             NEW u, u = loading'[h].thread
      PROVE  loading'[h].name \in Wanted(u)'
  <2>1. u \in Threads
    BY <1>4 DEF RegistryInv, TypeOK, LoadTypes, LoadType
  <2>2. CASE u = Loader /\ t = Loader /\ pc'[t] = "idle"
    <3>1. cur'[Loader] = NoLoad
      BY <1>0, <2>2 DEF Load
    <3>2. \A k \in DOMAIN loading' : loading'[k].thread # Loader
      <4>1. ASSUME NEW k \in DOMAIN loading' PROVE loading'[k].thread # Loader
        <5>1. k \in Handles' /\ nextHandle' \in Nat /\ k <= cur'[loading'[k].thread]
          BY DEF RegistryInv, TypeOK, RegistryTypes, LoadTypes, LoadsNested
        <5> QED
          BY <3>1, <5>1 DEF Handles, NoLoad
      <4> QED
        BY <4>1
    <3> QED
      BY <1>4, <2>2, <3>2
  <2>3. CASE Wanted(u)' = Wanted(u)
    <3>1. CASE h \in DOMAIN loading /\ loading[h].parent = NoLoad
               /\ loading'[h].name = loading[h].name /\ loading'[h].thread = loading[h].thread
      BY <1>4, <2>3, <3>1 DEF ControlInv, DirectLoads
    <3>2. CASE pc[t] = "open" /\ cur[t] = NoLoad
               /\ loading'[h].name = req[t].name /\ loading'[h].thread = t
      BY <1>4, <2>3, <3>2 DEF ControlInv, DirectLoads
    <3> QED
      BY <1>4, <3>1, <3>2, LoadStepDirect
  <2> QED
    BY <1>2, <2>1, <2>2, <2>3
<1>5. DirectLoads'
  <2>1. ASSUME NEW h \in DOMAIN loading', loading'[h].parent = NoLoad
        PROVE  loading'[h].name \in IF loading'[h].thread = Loader /\ at' = "opening"
                                      THEN {Path[Top'.mod]} ELSE Others
    BY <1>4, <2>1 DEF Wanted
  <2> QED
    BY <1>3, <2>1 DEF DirectLoads, Wanted
<1> QED
  BY <1>1, <1>5

\* A thread that loads nothing stays so while it closes or looks a symbol up.
LEMMA OtherCallControl ==
    ASSUME RegistryInv, ControlInv, pc[Loader] \notin Load, NEW l \in PcType \ Load,
           pc' = [pc EXCEPT ![Loader] = l], UNCHANGED loadVars, at # "opening", at' # "opening"
    PROVE  OthersPlace' /\ PlainCalls' /\ DirectLoads'
<1>0. Loader \in Threads /\ pc \in [Threads -> PcType]
  BY ModsAssumption DEF RegistryInv, TypeOK, ThreadTypes
<1>1. \A u \in Threads : pc'[u] \in Load => pc[u] = pc'[u]
  BY <1>0
<1>2. \A u \in Threads \ {Loader} : pc'[u] = pc[u]
  BY <1>0
<1>3. \A u \in Threads : pc'[u] \notin Load => pc[u] \notin Load
  BY <1>0
<1>4. OthersPlace'
  BY <1>2 DEF ControlInv, OthersPlace
<1>5. PlainCalls'
  BY <1>3 DEF ControlInv, PlainCalls, loadVars
<1>6. DirectLoads'
  <2>1. ASSUME NEW u \in Threads PROVE Wanted(u)' = Wanted(u)
    BY DEF Wanted
  <2>2. \A h \in DOMAIN loading : loading[h].thread \in Threads
    BY DEF RegistryInv, TypeOK, LoadTypes, LoadType
  <2> QED
    BY <1>1, <2>1, <2>2 DEF ControlInv, DirectLoads, Load, loadVars
<1> QED
  BY <1>4, <1>5, <1>6

LEMMA CloseControl ==
    ASSUME RegistryInv, ControlInv, DropMod \/ CloseAgain \/ LookElsewhere \/ RunFoundEntry
    PROVE  ControlInv'
<1>0. Loader \in Threads /\ pc \in [Threads -> PcType] /\ arg \in [Threads -> Nat]
  BY ModsAssumption DEF RegistryInv, TypeOK, ThreadTypes
<1>1. CASE DropMod \/ CloseAgain
  <2>1. /\ CallClose(Loader, lib) /\ at = "opened" /\ at' \in {"dropping", "again"}
        /\ pass' = pass /\ lib' = lib /\ stack' = stack
    BY <1>1 DEF DropMod, CloseAgain
  <2>2. /\ pc[Loader] = "idle" /\ pc' = [pc EXCEPT ![Loader] = "close"]
        /\ arg' = [arg EXCEPT ![Loader] = lib] /\ UNCHANGED loadVars
    BY <2>1 DEF CallClose, Begin, Goto
  <2>3. OthersPlace' /\ PlainCalls' /\ DirectLoads'
    BY <2>1, <2>2, OtherCallControl DEF PcType, Load
  <2> QED
    BY <1>0, <2>1, <2>2, <2>3 DEF ControlInv, LoaderPlace
<1>2. CASE LookElsewhere
  <2>1. /\ pc[Loader] = "idle" /\ pc' = [pc EXCEPT ![Loader] = "dlsym"]
        /\ UNCHANGED loadVars /\ at = "entry" /\ at' = "lookup" /\ pass' = pass /\ stack' = stack
    BY <1>2 DEF LookElsewhere, DlsymOwn, Begin, Goto
  <2>2. OthersPlace' /\ PlainCalls' /\ DirectLoads'
    BY <2>1, OtherCallControl DEF PcType, Load
  <2> QED
    BY <1>0, <2>1, <2>2 DEF ControlInv, LoaderPlace
<1>3. CASE RunFoundEntry
  <2>1. /\ pc[Loader] = "dlsym" /\ pc' = [pc EXCEPT ![Loader] = "idle"]
        /\ UNCHANGED loadVars /\ at = "lookup" /\ at' = "scan" /\ pass' = pass
    BY <1>3 DEF RunFoundEntry, DlsymGlobal, Goto, Leave
  <2>2. OthersPlace' /\ PlainCalls' /\ DirectLoads'
    BY <2>1, OtherCallControl DEF PcType, Load
  <2> QED
    BY <1>0, <2>1, <2>2 DEF ControlInv, LoaderPlace
<1> QED
  BY <1>1, <1>2, <1>3

\* The steps of the main thread inside its load or its close.
LEMMA LinkerStepControl ==
    ASSUME RegistryInv, RegistryInv', ControlInv, LinkerStep
    PROVE  ControlInv'
<1>0. Loader \in Threads /\ pc \in [Threads -> PcType] /\ arg \in [Threads -> Nat]
  BY ModsAssumption DEF RegistryInv, TypeOK, ThreadTypes
<1>1. /\ Step(Loader) /\ pass' = pass /\ stack' = stack
      /\ IF at = "opening" /\ pc'[Loader] = "idle" THEN at' = "opened"
           ELSE at' = at /\ lib' = lib
  BY DEF LinkerStep
<1>2. \A u \in Threads \ {Loader} : pc'[u] = pc[u] /\ arg'[u] = arg[u]
  BY <1>0, <1>1, OtherThreads
<1>3. OthersPlace'
  BY <1>2 DEF ControlInv, OthersPlace
<1>4. LoaderPlace
  BY DEF ControlInv
<1>5. CASE pc[Loader] \in Load
  <2>1. pc'[Loader] \in Load \cup {"idle"} /\ wrap[Loader] = "none"
    BY <1>0, <1>1, <1>5, LoadStepControl DEF ControlInv, PlainCalls
  <2>2. DirectLoads' /\ PlainCalls'
    <3>1. (at' = "opening" <=> at = "opening") \/ pc'[Loader] = "idle"
      BY <1>1
    <3> QED
      BY <1>0, <1>1, <1>5, <3>1, LoadKeepsDirect
  <2>3. at = "opening" \/ (at = "scan" /\ pass = "game")
    BY <1>4, <1>5 DEF LoaderPlace, Load
  <2>4. LoaderPlace'
    BY <1>1, <1>4, <2>1, <2>3 DEF LoaderPlace
  <2> QED
    BY <1>3, <2>2, <2>4 DEF ControlInv
<1>6. CASE pc[Loader] \notin Load
  <2>1. pc[Loader] \in {"idle", "close", "dlsym"}
    BY <1>4, <1>6 DEF LoaderPlace, Load
  <2>2. pc[Loader] = "close" /\ at \in {"dropping", "again"} /\ arg[Loader] = lib
    BY <1>1, <1>4, <1>6, <2>1
    DEF LoaderPlace, LinkerStep, Load, Step, Queue, Writing, LoadStep, OpenAgain, OpenStub,
        OpenElf, SkipDep, LoadDep, DepsDone, Link, Finish, AfterLoad, Close, DlsymGlobal,
        AddSymbols, RunInit
  <2>3. (pc' = pc \/ pc' = [pc EXCEPT ![Loader] = "idle"]) /\ UNCHANGED loadVars
    BY <1>1, <2>2
    DEF Step, Queue, LoadStep, OpenAgain, OpenStub, OpenElf, SkipDep, LoadDep, DepsDone, Link,
        Finish, AfterLoad, Close, DlsymGlobal, AddSymbols, RunInit, Goto, callVars
  <2>3a. pc'[Loader] = "close" => arg' = arg
    BY <1>0, <1>1, <2>2
    DEF Step, Queue, LoadStep, OpenAgain, OpenStub, OpenElf, SkipDep, LoadDep, DepsDone, Link,
        Finish, AfterLoad, Close, DlsymGlobal, AddSymbols, RunInit, Goto, callVars
  <2>4. at' = at /\ lib' = lib /\ at # "opening"
    BY <1>1, <2>2
  <2>5. OthersPlace' /\ PlainCalls' /\ DirectLoads'
    <3>1. PICK l \in {"close", "idle"} : pc' = [pc EXCEPT ![Loader] = l]
      BY <1>0, <2>2, <2>3
    <3> QED
      BY <1>6, <2>3, <2>4, <3>1, OtherCallControl DEF PcType, Load
  <2>6. LoaderPlace'
    BY <1>0, <1>1, <1>4, <2>2, <2>3, <2>3a, <2>4 DEF LoaderPlace
  <2> QED
    BY <2>5, <2>6 DEF ControlInv
<1> QED
  BY <1>5, <1>6

\* The other threads.
LEMMA BackgroundControl ==
    ASSUME RegistryInv, RegistryInv', ControlInv, NEW t \in Threads \ {Loader}, BackgroundNext(t)
    PROVE  ControlInv'
<1>0. /\ Loader \in Threads /\ pc \in [Threads -> PcType] /\ arg \in [Threads -> Nat]
      /\ req \in [Threads -> RequestType] /\ at' = at /\ pass' = pass /\ lib' = lib
      /\ stack' = stack
  BY ModsAssumption DEF RegistryInv, TypeOK, ThreadTypes, BackgroundNext, modVars
<1>1. CASE \E n \in BackgroundNames : CallOpen(t, Request(n, TRUE, FALSE, Empty))
  <2>1. PICK n \in BackgroundNames : CallOpen(t, Request(n, TRUE, FALSE, Empty))
    BY <1>1
  <2>2. Request(n, TRUE, FALSE, Empty) \in RequestType
    BY ModsAssumption, NoReqType DEF Request, RequestType, NoReq
  <2>3. /\ pc' = [pc EXCEPT ![t] = "open"] /\ UNCHANGED <<wrap, cur, loading, arg>>
        /\ req' = [req EXCEPT ![t] = Request(n, TRUE, FALSE, Empty)]
    BY <2>1, <2>2, CallOpenControl
  <2>4. LoaderPlace' /\ OthersPlace' /\ PlainCalls'
    BY <1>0, <2>3 DEF ControlInv, LoaderPlace, OthersPlace, PlainCalls, Load
  <2>5. \A u \in Threads : Wanted(u)' = Wanted(u)
    BY <1>0 DEF Wanted, Top
  <2>6. req'[t].name \in Wanted(t)'
    BY <1>0, <2>3, <2>5 DEF Request, Wanted, Others
  <2>7. \A h \in DOMAIN loading : loading[h].thread \in Threads
    BY DEF RegistryInv, TypeOK, LoadTypes, LoadType
  <2>8. DirectLoads'
    BY <1>0, <2>3, <2>5, <2>6, <2>7 DEF ControlInv, DirectLoads
  <2> QED
    BY <2>4, <2>8 DEF ControlInv
<1>2. CASE Step(t)
  <2>1. \A u \in Threads \ {t} : pc'[u] = pc[u] /\ arg'[u] = arg[u]
    BY <1>2, OtherThreads
  <2>2. LoaderPlace'
    BY <1>0, <2>1 DEF ControlInv, LoaderPlace
  <2>3. pc[t] \in Load
    BY <1>2
    DEF ControlInv, OthersPlace, Load, Step, Queue, Writing, LoadStep, OpenAgain, OpenStub,
        OpenElf, SkipDep, LoadDep, DepsDone, Link, Finish, AfterLoad, Close, DlsymGlobal,
        AddSymbols, RunInit
  <2>4. pc'[t] \in Load \cup {"idle"}
    BY <1>2, <2>3, LoadStepControl DEF ControlInv, PlainCalls
  <2>5. OthersPlace'
    BY <2>1, <2>4 DEF ControlInv, OthersPlace
  <2> QED
    BY <1>0, <1>2, <2>2, <2>3, <2>5, LoadKeepsDirect DEF ControlInv
<1> QED
  BY <1>1, <1>2 DEF BackgroundNext

LEMMA ControlKept ==
    ASSUME StackOfMods, RegistryInv, RegistryInv', ControlInv, [ModNext]_allVars
    PROVE  ControlInv'
<1>1. CASE UNCHANGED allVars
  BY <1>1 DEF ControlInv, LoaderPlace, OthersPlace, PlainCalls, DirectLoads, Wanted, Top, allVars,
              vars, regVars, loadVars, callVars, modVars
<1> QED
  BY <1>1, QuietStepControl, OpenControl, CloseControl, LinkerStepControl, BackgroundControl
  DEF ModNext, LoaderNext

-----------------------------------------------------------------------------
(* What a step of a load does to the references and the names.               *)

\* A handle just allocated, or of a load in flight.
Fresh(h) == h = nextHandle \/ h \in DOMAIN loading

Before(k) == IF k \in Handles THEN owners[k] ELSE 0

\* The step makes the names in S lead to h, which the thread got under the name
\* w, and hands c references to it to the caller.
Lands(t, h, w, S, c) ==
    /\ Handles' = Handles \cup {h} /\ c \in {0, 1}
    /\ \A k \in Handles' : owners'[k] = Before(k) + (IF k = h THEN c ELSE 0)
    /\ \A k \in Handles', n \in Names : Leads(n, k)' => Leads(n, k) \/ (k = h /\ n \in S)
    /\ \/ Fresh(h) /\ (S \subseteq {w} \/ (w \in Elf /\ S = {w, Soname[w]}))
       \/ S = {} /\ c = 1 /\ Leads(w, h)
    /\ c = 1 => w \in Wanted(t) /\ h \notin DOMAIN loading' /\ LeadsNext(w, h)
    /\ DOMAIN loading' \subseteq DOMAIN loading \cup {h}
    /\ c = 1 <=> pc'[t] = "idle"

\* The step concerns neither.
HandsOverNothing(t) ==
    /\ owners' = owners /\ byName' = byName /\ nextHandle' = nextHandle
    /\ DOMAIN loading' = DOMAIN loading /\ pc'[t] # "idle"

LEMMA FreshUnknown ==
    ASSUME RegistryInv, CountInv, NEW h, Fresh(h)
    PROVE  Before(h) = 0 /\ Count(h) = 0 /\ h \in Nat /\ \A n \in Names : ~Leads(n, h)
<1>0. /\ nextHandle \in Nat \ {0} /\ Libs \subseteq Handles /\ Libs \cap DOMAIN loading = {}
      /\ DOMAIN loading \subseteq Handles /\ \A n \in DOMAIN byName : byName[n] \in Libs
  BY DEF RegistryInv, TypeOK, RegistryTypes, LoadTypes, LoadsNested, NamesLive
<1>1. CASE h = nextHandle
  <2>1. h \notin Handles
    BY <1>0, <1>1 DEF Handles
  <2> QED
    BY <1>0, <1>1, <2>1 DEF CountInv, ModsTracked, Count, Before, Leads
<1>2. CASE h \in DOMAIN loading
  <2>1. h \in Nat
    BY <1>0, <1>2 DEF Handles
  <2> QED
    BY <1>0, <1>2, <2>1 DEF CountInv, LoadsUnowned, Before, Leads
<1> QED
  BY <1>1, <1>2 DEF Fresh

LEMMA OpenAgainLands ==
    ASSUME NEW t \in Threads, RegistryInv, ControlInv, OpenAgain(t)
    PROVE  \/ HandsOverNothing(t)
           \/ \E h \in Nat, w \in Names, S \in SUBSET Names, c \in {0, 1} : Lands(t, h, w, S, c)
<1> DEFINE w == req[t].name
           h == byName[w]
<1>0. /\ pc \in [Threads -> PcType] /\ owners \in [Handles -> Nat] /\ wrap[t] = "none"
      /\ h \in Libs /\ Libs \subseteq Handles /\ w \in DOMAIN byName /\ w \in Names
      /\ Libs \cap DOMAIN loading = {} /\ nextHandle \in Nat /\ pc[t] = "open"
  BY DEF RegistryInv, TypeOK, RegistryTypes, ThreadTypes, LoadsNested, PcMeaning, ControlInv,
         PlainCalls, OpenAgain, Registered
<1>1. /\ byName' = byName /\ nextHandle' = nextHandle /\ loading' = loading
      /\ owners' = Credit(owners, h, cur[t])
      /\ pc'[t] = IF cur[t] # NoLoad THEN "deps" ELSE "idle"
  BY <1>0 DEF OpenAgain, Return, Goto
<1>2. CASE cur[t] # NoLoad
  BY <1>1, <1>2 DEF HandsOverNothing, Credit
<1>3. CASE cur[t] = NoLoad
  <2>1. owners' = [owners EXCEPT ![h] = @ + 1] /\ pc'[t] = "idle"
    BY <1>1, <1>3 DEF Credit
  <2>2. w \in Wanted(t)
    BY <1>0, <1>3 DEF ControlInv, DirectLoads
  <2>3. Handles' = Handles /\ h \in Handles /\ h \in Nat
    <3>1. Handles' = Handles
      BY <1>1 DEF Handles
    <3>2. h \in Handles
      BY <1>0
    <3> HIDE DEF h
    <3> QED
      BY <1>0, <3>1, <3>2 DEF Handles
  <2>4. \A k \in Handles' : owners'[k] = Before(k) + (IF k = h THEN 1 ELSE 0)
    BY <1>0, <2>1, <2>3 DEF Before
  <2>5. Leads(w, h) /\ LeadsNext(w, h) /\ h \notin DOMAIN loading'
    BY <1>0, <1>1 DEF Leads, LeadsNext
  <2>6. \A k \in Handles', n \in Names : Leads(n, k)' => Leads(n, k)
    BY <1>1 DEF Leads
  <2>7. Lands(t, h, w, {}, 1)
    BY <1>1, <2>1, <2>2, <2>3, <2>4, <2>5, <2>6 DEF Lands
  <2> QED
    BY <1>0, <2>3, <2>7
<1> QED
  BY <1>2, <1>3

LEMMA OpenStubLands ==
    ASSUME NEW t \in Threads, RegistryInv, ControlInv, OpenStub(t)
    PROVE  \E h \in Nat, w \in Names, S \in SUBSET Names, c \in {0, 1} : Lands(t, h, w, S, c)
<1> DEFINE w == req[t].name
           h == nextHandle
           c == IF cur[t] = NoLoad THEN 1 ELSE 0
<1>0. /\ pc \in [Threads -> PcType] /\ owners \in [Handles -> Nat] /\ wrap[t] = "none"
      /\ w \in Names /\ nextHandle \in Nat \ {0} /\ pc[t] = "open" /\ DOMAIN loading \subseteq Handles
  BY DEF RegistryInv, TypeOK, RegistryTypes, LoadTypes, ThreadTypes, PcMeaning, ControlInv,
         PlainCalls, OpenStub
<1>1. /\ byName' = Insert(byName, w, h) /\ nextHandle' = h + 1 /\ loading' = loading
      /\ owners' = Credit(Insert(owners, h, 0), h, cur[t])
      /\ pc'[t] = IF cur[t] # NoLoad THEN "deps" ELSE "idle"
  BY <1>0 DEF OpenStub, Return, Goto
<1>2. Handles' = Handles \cup {h} /\ h \notin Handles
  BY <1>0, <1>1 DEF Handles
<1>3. \A k \in Handles' : owners'[k] = Before(k) + (IF k = h THEN c ELSE 0)
  BY <1>0, <1>1, <1>2 DEF Before, Credit, Insert
<1>4. \A k \in Handles', n \in Names : Leads(n, k)' => Leads(n, k) \/ (k = h /\ n \in {w})
  BY <1>1 DEF Leads, Insert
<1>5. c = 1 => w \in Wanted(t) /\ h \notin DOMAIN loading' /\ LeadsNext(w, h)
  <2>1. w \in DOMAIN byName' /\ byName'[w] = h
    BY <1>1 DEF Insert
  <2>2. c = 1 => w \in Wanted(t) /\ h \notin DOMAIN loading'
    BY <1>0, <1>1, <1>2 DEF ControlInv, DirectLoads
  <2> QED
    BY <2>1, <2>2 DEF LeadsNext
<1>6. Lands(t, h, w, {w}, c)
  BY <1>1, <1>2, <1>3, <1>4, <1>5 DEF Lands, Fresh
<1> QED
  BY <1>0, <1>6

LEMMA OpenElfLands ==
    ASSUME NEW t \in Threads, RegistryInv, OpenElf(t)
    PROVE  \E h \in Nat, w \in Names, S \in SUBSET Names, c \in {0, 1} : Lands(t, h, w, S, c)
<1> DEFINE w == req[t].name
           h == nextHandle
<1>0. /\ pc \in [Threads -> PcType] /\ owners \in [Handles -> Nat]
      /\ w \in Names /\ nextHandle \in Nat \ {0} /\ pc[t] = "open"
  BY DEF RegistryInv, TypeOK, RegistryTypes, ThreadTypes, PcMeaning, OpenElf
<1>1. /\ byName' = byName /\ nextHandle' = h + 1 /\ DOMAIN loading' = DOMAIN loading \cup {h}
      /\ owners' = Insert(owners, h, 0) /\ pc'[t] = "deps"
  BY <1>0 DEF OpenElf, Goto, Insert
<1>2. Handles' = Handles \cup {h} /\ h \notin Handles
  BY <1>0, <1>1 DEF Handles
<1>3. \A k \in Handles' : owners'[k] = Before(k) + (IF k = h THEN 0 ELSE 0)
  BY <1>0, <1>1, <1>2 DEF Before, Insert
<1>4. \A k \in Handles', n \in Names : Leads(n, k)' => Leads(n, k)
  BY <1>1 DEF Leads
<1>5. Lands(t, h, w, {}, 0)
  BY <1>1, <1>2, <1>3, <1>4 DEF Lands, Fresh
<1> QED
  BY <1>0, <1>5

LEMMA FinishLands ==
    ASSUME NEW t \in Threads, RegistryInv, ControlInv, Finish(t)
    PROVE  \E h \in Nat, w \in Names, S \in SUBSET Names, c \in {0, 1} : Lands(t, h, w, S, c)
<1> DEFINE h == cur[t]
           w == loading[h].name
           S == {w, Soname[w]}
           c == IF loading[h].parent = NoLoad THEN 1 ELSE 0
<1>0. /\ pc \in [Threads -> PcType] /\ owners \in [Handles -> Nat] /\ wrap[t] = "none"
      /\ nextHandle \in Nat \ {0} /\ pc[t] = "ctor"
      /\ h \in DOMAIN loading /\ loading[h] \in LoadType /\ loading[h].thread = t
      /\ h \in Handles
  BY DEF RegistryInv, TypeOK, RegistryTypes, LoadTypes, LoadsNested, ThreadTypes, PcMeaning,
         ControlInv, PlainCalls, Finish
<1>1. w \in Elf /\ w \in Names /\ S \in SUBSET Names
  BY <1>0, FilesAssumption DEF LoadType
<1>2. /\ byName' = Overlay(byName, All({Soname[w], w}, h)) /\ nextHandle' = nextHandle
      /\ DOMAIN loading' = DOMAIN loading \ {h}
      /\ owners' = Credit(owners, h, loading[h].parent)
      /\ pc'[t] = IF loading[h].parent # NoLoad THEN "deps" ELSE "idle"
  BY <1>0 DEF Finish, Return, Goto, Keep
<1>3. Handles' = Handles \cup {h} /\ h \in Nat
  BY <1>0, <1>2 DEF Handles
<1>4. \A k \in Handles' : owners'[k] = Before(k) + (IF k = h THEN c ELSE 0)
  BY <1>0, <1>2, <1>3, SMTT(30) DEF Before, Credit
<1>5. \A k \in Handles', n \in Names : Leads(n, k)' => Leads(n, k) \/ (k = h /\ n \in S)
  BY <1>2 DEF Leads, Overlay, All
<1>6. c = 1 => w \in Wanted(t) /\ h \notin DOMAIN loading' /\ LeadsNext(w, h)
  <2>1. w \in DOMAIN byName' /\ byName'[w] = h
    BY <1>2 DEF Overlay, All
  <2>2. c = 1 => w \in Wanted(t) /\ h \notin DOMAIN loading'
    BY <1>0, <1>2 DEF ControlInv, DirectLoads
  <2> QED
    BY <2>1, <2>2 DEF LeadsNext
<1>7. Lands(t, h, w, S, c)
  <2> HIDE DEF h, w, c
  <2> QED
    BY <1>0, <1>1, <1>2, <1>3, <1>4, <1>5, <1>6 DEF Lands, Fresh, c
<1> QED
  BY <1>1, <1>3, <1>7

LEMMA LoadStepLands ==
    ASSUME NEW t \in Threads, RegistryInv, ControlInv, Step(t), pc[t] \in Load
    PROVE  \/ HandsOverNothing(t)
           \/ \E h \in Nat, w \in Names, S \in SUBSET Names, c \in {0, 1} : Lands(t, h, w, S, c)
<1>0. /\ pc \in [Threads -> PcType] /\ \A h \in DOMAIN loading : loading[h] \in LoadType
      /\ pc[t] # "idle"
  BY DEF RegistryInv, TypeOK, ThreadTypes, LoadTypes, Load
<1>1. CASE \/ Queue(t) \/ SkipDep(t) \/ LoadDep(t) \/ DepsDone(t) \/ Link(t)
  <2>1. /\ owners' = owners /\ byName' = byName /\ nextHandle' = nextHandle
        /\ DOMAIN loading' = DOMAIN loading
    BY <1>1, ZenonT(60) DEF Queue, SkipDep, LoadDep, DepsDone, Link, loadVars, regVars
  <2>2. pc'[t] # "idle"
    BY <1>0, <1>1 DEF Queue, SkipDep, LoadDep, DepsDone, Link, Goto, callVars
  <2> QED
    BY <2>1, <2>2 DEF HandsOverNothing
<1> QED
  BY <1>1, OpenAgainLands, OpenStubLands, OpenElfLands, FinishLands
  DEF Step, LoadStep, AfterLoad, Close, DlsymGlobal, AddSymbols, RunInit, Load

-----------------------------------------------------------------------------
(* The counting invariant.                                                   *)

LEMMA PathsAreFiles == Paths \subseteq Elf /\ Elf \subseteq Names /\ Others \subseteq Names
BY ModsAssumption, FilesAssumption DEF Paths, Others

\* A file becomes known under names of a mod, or of something else.
LEMMA NewNames ==
    ASSUME NamesDistinct, NEW w, NEW S, S \subseteq {w} \/ (w \in Elf /\ S = {w, Soname[w]})
    PROVE  /\ w \in Paths => S \cap Others = {}
           /\ w \in Others => S \cap Paths = {}
           /\ \A n \in S \cap Paths, k \in S : k \notin Others
BY PathsAreFiles DEF NamesDistinct

\* The names never lead both from a mod and from something else to one library.
LEMMA LandsKeepsNames ==
    ASSUME NamesDistinct, RegistryInv, CountInv, NEW t \in Threads, NEW h \in Nat,
           NEW w \in Names, NEW S \in SUBSET Names, NEW c \in {0, 1}, Lands(t, h, w, S, c)
    PROVE  NamesApart'
<1> SUFFICES ASSUME NEW k \in Handles', NEW n \in Paths, NEW o \in Others,
                    Leads(n, k)', Leads(o, k)'
             PROVE  FALSE
  BY DEF NamesApart
<1>0. n \in Names /\ o \in Names
  BY PathsAreFiles
<1>1. /\ Leads(n, k) \/ (k = h /\ n \in S)
      /\ Leads(o, k) \/ (k = h /\ o \in S)
  BY <1>0 DEF Lands
<1>2. ASSUME Leads(n, k) \/ Leads(o, k) PROVE k \in Handles
  BY <1>2 DEF RegistryInv, NamesLive, TypeOK, RegistryTypes, Leads
<1>3. ~(Leads(n, k) /\ Leads(o, k))
  BY <1>2 DEF CountInv, NamesApart
<1>4. k = h /\ S # {} /\ (n \in S \/ o \in S)
  BY <1>1, <1>3
<1>5. Fresh(h) /\ (S \subseteq {w} \/ (w \in Elf /\ S = {w, Soname[w]}))
  BY <1>4 DEF Lands
<1>6. ~Leads(n, k) /\ ~Leads(o, k)
  BY <1>0, <1>4, <1>5, FreshUnknown
<1> QED
  BY <1>1, <1>5, <1>6, NewNames

\* Somebody else, or a load that needs it, gets the library.
LEMMA OthersLand ==
    ASSUME NamesDistinct, RegistryInv, CountInv, NEW t \in Threads, NEW h \in Nat,
           NEW w \in Names, NEW S \in SUBSET Names, NEW c \in {0, 1}, Lands(t, h, w, S, c),
           table' = table, Held' = Held, c = 1 => w \in Others
    PROVE  CountInv'
<1>0. /\ Handles' = Handles \cup {h} /\ \A k : Count(k)' = Count(k)
      /\ owners \in [Handles -> Nat] /\ \A k \in Handles : Count(k) \in Nat
  BY DEF Lands, Count, RegistryInv, TypeOK, RegistryTypes
<1>1. \A k \in Handles' \ {h} : k \in Handles /\ owners'[k] = owners[k]
  BY <1>0 DEF Lands, Before
<1>2. \A k \in Handles' \ {h}, n \in Names : Leads(n, k)' => Leads(n, k)
  BY DEF Lands
<1>3. owners'[h] = Before(h) + c
  BY <1>0 DEF Lands
<1>4. CASE Fresh(h) /\ (S \subseteq {w} \/ (w \in Elf /\ S = {w, Soname[w]}))
  <2>1. Before(h) = 0 /\ Count(h) = 0 /\ \A n \in Names : ~Leads(n, h)
    BY <1>4, FreshUnknown
  <2>2. \A n \in Names : Leads(n, h)' => n \in S
    BY <1>0, <2>1 DEF Lands
  <2>3. owners'[h] = Count(h) \/ (Count(h) = 0 /\ \A n \in Paths : ~Leads(n, h)')
    <3>1. CASE c = 0
      BY <1>3, <2>1, <3>1
    <3>2. CASE c = 1
      <4>1. S \cap Paths = {}
        BY <1>4, <3>2, NewNames
      <4>2. \A n \in Paths : ~Leads(n, h)'
        BY <2>2, <4>1, PathsAreFiles
      <4> QED
        BY <2>1, <4>2
    <3> QED
      BY <3>1, <3>2
  <2> QED
    <3>1. OwnedAsCounted'
      <4> SUFFICES ASSUME NEW k \in Handles'
                   PROVE  owners'[k] = Count(k) \/ (Count(k) = 0 /\ \A n \in Paths : ~Leads(n, k)')
        BY <1>0 DEF OwnedAsCounted
      <4> QED
        BY <1>1, <1>2, <2>3, PathsAreFiles DEF CountInv, OwnedAsCounted
    <3>2. ModsApart'
      <4> SUFFICES ASSUME NEW k \in Handles', Count(k) > 0, NEW n \in Others
                   PROVE  ~Leads(n, k)'
        BY <1>0 DEF ModsApart
      <4>1. k # h
        BY <2>1
      <4> QED
        BY <1>1, <1>2, <4>1, PathsAreFiles DEF CountInv, ModsApart
    <3>3. LoadsUnowned'
      <4> SUFFICES ASSUME NEW k \in DOMAIN loading' PROVE owners'[k] = 0 /\ Count(k) = 0
        BY <1>0 DEF LoadsUnowned
      <4>1. CASE k = h
        BY <1>3, <2>1, <4>1 DEF Lands
      <4>2. CASE k # h
        <5>1. k \in DOMAIN loading /\ k \in Handles
          BY <4>2 DEF Lands, RegistryInv, TypeOK, LoadTypes
        <5> QED
          BY <1>0, <1>1, <4>2, <5>1 DEF CountInv, LoadsUnowned
      <4> QED
        BY <4>1, <4>2
    <3>4. ModsTracked'
      BY <1>0 DEF CountInv, ModsTracked
    <3> QED
      BY <3>1, <3>2, <3>3, <3>4, LandsKeepsNames DEF CountInv
<1>5. CASE S = {} /\ c = 1 /\ Leads(w, h)
  <2>1. h \in Handles /\ w \in Others /\ h \notin DOMAIN loading'
    BY <1>5 DEF Lands, RegistryInv, NamesLive, TypeOK, RegistryTypes, Leads
  <2>2. \A k \in Handles', n \in Names : Leads(n, k)' => Leads(n, k)
    BY <1>5 DEF Lands
  <2>3. Count(h) = 0 /\ \A n \in Paths : ~Leads(n, h)
    BY <1>0, <1>5, <2>1 DEF CountInv, ModsApart, NamesApart
  <2>4. OwnedAsCounted'
    <3> SUFFICES ASSUME NEW k \in Handles'
                 PROVE  owners'[k] = Count(k) \/ (Count(k) = 0 /\ \A n \in Paths : ~Leads(n, k)')
      BY <1>0 DEF OwnedAsCounted
    <3> QED
      BY <1>1, <2>2, <2>3, PathsAreFiles DEF CountInv, OwnedAsCounted
  <2>5. ModsApart'
    BY <1>0, <1>1, <2>1, <2>2, PathsAreFiles DEF CountInv, ModsApart
  <2>6. LoadsUnowned'
    <3> SUFFICES ASSUME NEW k \in DOMAIN loading' PROVE owners'[k] = 0 /\ Count(k) = 0
      BY <1>0 DEF LoadsUnowned
    <3>1. k # h /\ k \in DOMAIN loading /\ k \in Handles
      BY <2>1 DEF Lands, RegistryInv, TypeOK, LoadTypes
    <3> QED
      BY <1>0, <1>1, <3>1 DEF CountInv, LoadsUnowned
  <2>7. ModsTracked'
    BY <1>0 DEF CountInv, ModsTracked
  <2> QED
    BY <2>4, <2>5, <2>6, <2>7, LandsKeepsNames DEF CountInv
<1> QED
  BY <1>4, <1>5 DEF Lands

\* dlopen returns the library of a mod to load_mod.
LEMMA ModLands ==
    ASSUME NamesDistinct, RegistryInv, CountInv, NEW t \in Threads, NEW h \in Nat,
           NEW w \in Paths, NEW S \in SUBSET Names, Lands(t, h, w, S, 1),
           table' = table, Held = {}, Held' = {h}
    PROVE  CountInv'
<1>0. /\ Handles' = Handles \cup {h} /\ owners \in [Handles -> Nat] /\ w \in Names
      /\ \A k \in Handles : Count(k) \in Nat
      /\ \A k : k # h => Count(k)' = Count(k)
      /\ Count(h)' = Count(h) + 1 /\ h \notin DOMAIN loading'
  BY PathsAreFiles DEF Lands, Count, RegistryInv, TypeOK, RegistryTypes
<1>1. \A k \in Handles' \ {h} : k \in Handles /\ owners'[k] = owners[k]
  BY <1>0 DEF Lands, Before
<1>2. \A k \in Handles' \ {h}, n \in Names : Leads(n, k)' => Leads(n, k)
  BY DEF Lands
<1>3. owners'[h] = Before(h) + 1
  BY <1>0 DEF Lands
<1>4. Before(h) = Count(h) /\ \A n \in Others : ~Leads(n, h)'
  <2>1. CASE Fresh(h) /\ (S \subseteq {w} \/ (w \in Elf /\ S = {w, Soname[w]}))
    <3>1. Before(h) = 0 /\ Count(h) = 0 /\ \A n \in Names : ~Leads(n, h)
      BY <2>1, FreshUnknown
    <3>2. \A n \in Names : Leads(n, h)' => n \in S
      BY <1>0, <3>1 DEF Lands
    <3> QED
      BY <2>1, <3>1, <3>2, NewNames, PathsAreFiles
  <2>2. CASE S = {} /\ Leads(w, h)
    <3>1. h \in Handles
      BY <2>2 DEF RegistryInv, NamesLive, TypeOK, RegistryTypes, Leads
    <3>2. \A n \in Names : Leads(n, h)' => Leads(n, h)
      BY <1>0, <2>2 DEF Lands
    <3>3. owners[h] = Count(h) /\ \A n \in Others : ~Leads(n, h)
      BY <2>2, <3>1 DEF CountInv, OwnedAsCounted, NamesApart
    <3> QED
      BY <3>1, <3>2, <3>3, PathsAreFiles DEF Before
  <2> QED
    BY <2>1, <2>2 DEF Lands
<1>5. OwnedAsCounted'
  <2> SUFFICES ASSUME NEW k \in Handles'
               PROVE  \/ owners'[k] = Count(k)'
                      \/ Count(k)' = 0 /\ \A n \in Paths : ~Leads(n, k)'
    BY DEF OwnedAsCounted
  <2>1. CASE k = h
    BY <1>0, <1>3, <1>4, <2>1
  <2>2. CASE k # h
    BY <1>0, <1>1, <1>2, <2>2, PathsAreFiles DEF CountInv, OwnedAsCounted
  <2> QED
    BY <2>1, <2>2
<1>6. ModsApart'
  <2> SUFFICES ASSUME NEW k \in Handles', Count(k)' > 0, NEW n \in Others PROVE ~Leads(n, k)'
    BY DEF ModsApart
  <2>1. CASE k = h
    BY <1>4, <2>1
  <2>2. CASE k # h
    BY <1>0, <1>1, <1>2, <2>2, PathsAreFiles DEF CountInv, ModsApart
  <2> QED
    BY <2>1, <2>2
<1>7. LoadsUnowned'
  <2> SUFFICES ASSUME NEW k \in DOMAIN loading' PROVE owners'[k] = 0 /\ Count(k)' = 0
    BY DEF LoadsUnowned
  <2>1. k # h /\ k \in DOMAIN loading /\ k \in Handles
    BY <1>0 DEF Lands, RegistryInv, TypeOK, LoadTypes
  <2> QED
    BY <1>0, <1>1, <2>1 DEF CountInv, LoadsUnowned
<1>8. ModsTracked'
  BY <1>0 DEF CountInv, ModsTracked
<1>9. NamesApart'
  <2>1. 1 \in {0, 1}
    OBVIOUS
  <2> QED
    BY <1>0, <2>1, LandsKeepsNames
<1> QED
  BY <1>5, <1>6, <1>7, <1>8, <1>9 DEF CountInv

\* A step that neither counts, names nor hands over anything.
LEMMA NothingCounted ==
    ASSUME CountInv, owners' = owners, byName' = byName, nextHandle' = nextHandle,
           DOMAIN loading' = DOMAIN loading, \A k : Count(k)' = Count(k),
           DOMAIN table' \cup Held' = DOMAIN table \cup Held
    PROVE  CountInv'
<1>1. Handles' = Handles /\ \A n, k : Leads(n, k)' = Leads(n, k)
  BY DEF Handles, Leads
<1>2. OwnedAsCounted' /\ ModsApart'
  BY <1>1 DEF CountInv, OwnedAsCounted, ModsApart
<1>3. NamesApart' /\ LoadsUnowned' /\ ModsTracked'
  BY <1>1 DEF CountInv, NamesApart, LoadsUnowned, ModsTracked
<1> QED
  BY <1>2, <1>3 DEF CountInv

LEMMA SameCount ==
    ASSUME DOMAIN table' = DOMAIN table, Held' = Held
    PROVE  (\A k : Count(k)' = Count(k)) /\ DOMAIN table' \cup Held' = DOMAIN table \cup Held
BY DEF Count

LEMMA QuietStepCounts ==
    ASSUME ModInv,
           \/ PopFirst \/ NextDep \/ ModDropped \/ DoneBefore \/ Record \/ RunOwnEntry
           \/ ScanAgain \/ GameLoaded \/ InitDone
    PROVE  CountInv' /\ AgainRepeats'
<1>0. ModInv /\ CountInv /\ AgainRepeats /\ UNCHANGED vars
  BY DEF ModInv, PopFirst, NextDep, ModDropped, DoneBefore, Record, RunOwnEntry, ScanAgain,
         GameLoaded, InitDone
<1>1. /\ pc' = pc /\ owners' = owners /\ byName' = byName /\ nextHandle' = nextHandle
      /\ loading' = loading /\ lib' = lib
  BY <1>0 DEF vars, callVars, regVars, loadVars, PopFirst, NextDep, ModDropped, DoneBefore, Record,
              RunOwnEntry, ScanAgain, GameLoaded, InitDone
<1>2. CASE PopFirst \/ NextDep \/ ScanAgain \/ GameLoaded \/ InitDone
  <2>1. at' = at /\ table' = table
    BY <1>2 DEF PopFirst, NextDep, ScanAgain, GameLoaded, InitDone
  <2>2. Held' = Held
    BY <1>1, <2>1 DEF Held, Holding
  <2> QED
    BY <1>0, <1>1, <2>1, <2>2, SameCount, NothingCounted DEF AgainRepeats, Repeated
<1>3. CASE ModDropped \/ DoneBefore \/ RunOwnEntry
  <2>1. table' = table /\ at' = "scan" /\ (at = "entry" \/ pc[Loader] = "idle") /\ at # "opened"
    BY <1>3 DEF ModDropped, DoneBefore, RunOwnEntry, Leave
  <2>2. Held' = {} /\ Held = {}
    BY <2>1 DEF Held, Holding
  <2> QED
    BY <1>0, <1>1, <2>1, <2>2, SameCount, NothingCounted DEF AgainRepeats
<1>4. CASE Record
  <2>1. DOMAIN table' = DOMAIN table \cup {lib} /\ at' = "entry"
    BY <1>4 DEF Record, Insert
  <2>2. Held' = {}
    BY <2>1 DEF Held, Holding
  <2>3. CASE at = "opened" /\ lib \notin DOMAIN table
    <3>1. Held = {lib}
      BY <2>3 DEF Held, Holding
    <3>2. \A k : Count(k)' = Count(k)
      BY <2>1, <2>2, <2>3, <3>1 DEF Count
    <3> QED
      BY <1>0, <1>1, <2>1, <2>2, <3>1, <3>2, NothingCounted DEF AgainRepeats
  <2>4. CASE at = "again" /\ pc[Loader] = "idle"
    <3>1. Held = {} /\ lib \in DOMAIN table
      BY <1>0, <2>4 DEF Held, Holding, AgainRepeats, Repeated
    <3>2. DOMAIN table' = DOMAIN table
      BY <2>1, <3>1
    <3> QED
      BY <1>0, <1>1, <2>1, <2>2, <3>1, <3>2, SameCount, NothingCounted DEF AgainRepeats
  <2> QED
    BY <1>4, <2>3, <2>4 DEF Record, Repeated
<1> QED
  BY <1>2, <1>3, <1>4

\* The calls into the linker.
LEMMA CallCounts ==
    ASSUME RegistryInv, ModInv,
           OpenMod \/ LoadGame \/ DropMod \/ CloseAgain \/ LookElsewhere \/ RunFoundEntry
    PROVE  CountInv' /\ AgainRepeats'
<1>0. /\ Loader \in Threads /\ pc \in [Threads -> PcType] /\ CountInv
  BY ModsAssumption DEF RegistryInv, TypeOK, ThreadTypes, ModInv
<1>1. /\ owners' = owners /\ byName' = byName /\ nextHandle' = nextHandle /\ loading' = loading
      /\ table' = table /\ lib' = lib
  BY DEF OpenMod, LoadGame, DropMod, CloseAgain, LookElsewhere, RunFoundEntry, CallOpen, CallClose,
         DlsymOwn, DlsymGlobal, regVars, loadVars
<1>2. CASE OpenMod \/ LoadGame
  <2>1. at = "scan" /\ at' \in {"scan", "opening"}
    BY <1>2 DEF OpenMod, LoadGame, PassOver, Scanning
  <2>2. Held = {} /\ Held' = {}
    BY <2>1 DEF Held, Holding
  <2> QED
    BY <1>0, <1>1, <2>1, <2>2, SameCount, NothingCounted DEF AgainRepeats
<1>3. CASE DropMod \/ CloseAgain
  <2>1. /\ at = "opened" /\ at' \in {"dropping", "again"} /\ pc'[Loader] = "close"
        /\ at' = "again" => Repeated(lib)
    BY <1>0, <1>3 DEF DropMod, CloseAgain, CallClose, Goto
  <2>2. Held = {lib} /\ Held' = {lib}
    BY <1>1, <2>1 DEF Held, Holding
  <2> QED
    BY <1>0, <1>1, <2>1, <2>2, SameCount, NothingCounted DEF AgainRepeats, Repeated
<1>4. CASE LookElsewhere \/ RunFoundEntry
  <2>1. at \in {"entry", "lookup"} /\ at' \in {"lookup", "scan"}
    BY <1>4, ModsAssumption DEF LookElsewhere, RunFoundEntry, Leave, ModInv, ControlInv, LoaderPlace,
                                DlsymGlobal
  <2>2. Held = {} /\ Held' = {}
    BY <2>1 DEF Held, Holding
  <2> QED
    BY <1>0, <1>1, <2>1, <2>2, SameCount, NothingCounted DEF AgainRepeats
<1> QED
  BY <1>2, <1>3, <1>4

\* The main thread closes the reference it holds.
LEMMA CloseCounts ==
    ASSUME RegistryInv, ModInv, Close(Loader), at \in {"dropping", "again"}, arg[Loader] = lib,
           pc[Loader] = "close", at' = at, lib' = lib, table' = table
    PROVE  CountInv' /\ AgainRepeats'
<1>0. /\ Loader \in Threads /\ pc \in [Threads -> PcType] /\ CountInv
      /\ owners \in [Handles -> Nat] /\ Held = {lib} /\ lib \in Handles
      /\ DOMAIN loading \subseteq Handles
  BY ModsAssumption DEF RegistryInv, TypeOK, RegistryTypes, LoadTypes, ThreadTypes, ModInv, CountInv,
                        ModsTracked, Held, Holding
<1>1. /\ owners' = [owners EXCEPT ![lib] = @ - 1] /\ nextHandle' = nextHandle
      /\ loading' = loading /\ pc'[Loader] = "idle"
  BY <1>0 DEF Close, Goto, loadVars
<1>2. \A n, k : Leads(n, k)' => Leads(n, k)
  BY DEF Close, NamesForgotten, Keep, Leads
<1>3. Held' = {}
  BY <1>1 DEF Held, Holding
<1>4. /\ \A k : k # lib => Count(k)' = Count(k)
      /\ Count(lib) = Count(lib)' + 1 /\ Count(lib)' \in Nat
  BY <1>0, <1>3 DEF Count
<1>5. owners[lib] = Count(lib) /\ owners'[lib] = Count(lib)'
  BY <1>0, <1>1, <1>4 DEF CountInv, OwnedAsCounted
<1>6. Handles' = Handles /\ \A k \in Handles : k # lib => owners'[k] = owners[k]
  BY <1>0, <1>1 DEF Handles
<1>7. OwnedAsCounted'
  <2> SUFFICES ASSUME NEW k \in Handles'
               PROVE  \/ owners'[k] = Count(k)'
                      \/ Count(k)' = 0 /\ \A n \in Paths : ~Leads(n, k)'
    BY DEF OwnedAsCounted
  <2>1. CASE k = lib
    BY <1>5, <2>1
  <2>2. CASE k # lib
    <3>1. owners[k] = Count(k) \/ (Count(k) = 0 /\ \A n \in Paths : ~Leads(n, k))
      BY <1>0, <1>6 DEF CountInv, OwnedAsCounted
    <3> QED
      BY <1>2, <1>4, <1>6, <2>2, <3>1
  <2> QED
    BY <2>1, <2>2
<1>8. ModsApart'
  <2> SUFFICES ASSUME NEW k \in Handles', Count(k)' > 0, NEW n \in Others PROVE ~Leads(n, k)'
    BY DEF ModsApart
  <2>1. Count(k) > 0
    BY <1>4
  <2>2. ~Leads(n, k)
    BY <1>0, <1>6, <2>1 DEF CountInv, ModsApart
  <2> QED
    BY <1>2, <2>2
<1>9. NamesApart'
  <2> SUFFICES ASSUME NEW k \in Handles', NEW n \in Paths, NEW o \in Others,
                      Leads(n, k)', Leads(o, k)'
               PROVE  FALSE
    BY DEF NamesApart
  <2>1. Leads(n, k) /\ Leads(o, k)
    BY <1>2
  <2> QED
    BY <1>0, <1>6, <2>1 DEF CountInv, NamesApart
<1>10. LoadsUnowned'
  <2> SUFFICES ASSUME NEW k \in DOMAIN loading PROVE owners'[k] = 0 /\ Count(k)' = 0
    BY <1>1 DEF LoadsUnowned
  <2>1. owners[k] = 0 /\ Count(k) = 0 /\ k \in Handles
    BY <1>0 DEF CountInv, LoadsUnowned
  <2>2. k # lib
    BY <1>4, <2>1
  <2> QED
    BY <1>4, <1>6, <2>1, <2>2
<1>11. ModsTracked'
  BY <1>0, <1>3, <1>6 DEF CountInv, ModsTracked
<1> QED
  BY <1>7, <1>8, <1>9, <1>10, <1>11 DEF CountInv, AgainRepeats, ModInv, Repeated

\* The only handle with more references than before is the one handed over.
LEMMA CreditedIsNew ==
    ASSUME RegistryInv, RegistryInv', NEW t \in Threads, NEW h \in Nat, NEW w, NEW S,
           Lands(t, h, w, S, 1)
    PROVE  Credited = h
<1>1. /\ DOMAIN owners = Handles /\ DOMAIN owners' = Handles' /\ h \in Handles'
      /\ owners \in [Handles -> Nat]
  BY DEF Lands, RegistryInv, TypeOK, RegistryTypes
<1>2. ASSUME NEW k \in DOMAIN owners'
      PROVE  owners'[k] > (IF k \in DOMAIN owners THEN owners[k] ELSE 0) <=> k = h
  <2>1. k \in Handles' /\ owners'[k] = Before(k) + (IF k = h THEN 1 ELSE 0)
    BY <1>1 DEF Lands
  <2>2. Before(k) = (IF k \in DOMAIN owners THEN owners[k] ELSE 0) /\ Before(k) \in Nat
    BY <1>1 DEF Before
  <2> QED
    BY <2>1, <2>2
<1> QED
  BY <1>1, <1>2 DEF Credited

LEMMA LinkerStepCounts ==
    ASSUME NamesDistinct, StackOfMods, RegistryInv, RegistryInv', ModInv, LinkerStep
    PROVE  CountInv' /\ AgainRepeats'
<1>0. /\ Loader \in Threads /\ pc \in [Threads -> PcType] /\ CountInv /\ ControlInv /\ LoaderPlace
  BY ModsAssumption DEF RegistryInv, TypeOK, ThreadTypes, ModInv, ControlInv
<1>1. /\ Step(Loader) /\ table' = table
      /\ IF at = "opening" /\ pc'[Loader] = "idle" THEN at' = "opened" /\ lib' = Credited
           ELSE at' = at /\ lib' = lib
  BY DEF LinkerStep
<1>2. CASE pc[Loader] \in Load
  <2>1. (at = "opening" \/ at = "scan") /\ Held = {}
    BY <1>0, <1>2 DEF LoaderPlace, Load, Held, Holding
  <2>2. AgainRepeats'
    BY <1>1, <2>1 DEF AgainRepeats
  <2>3. CASE HandsOverNothing(Loader)
    <3>1. Held' = Held
      BY <1>1, <2>1, <2>3 DEF HandsOverNothing, Held, Holding
    <3>2. DOMAIN table' = DOMAIN table
      BY <1>1
    <3>3. CountInv'
      BY <1>0, <2>3, <3>1, <3>2, SameCount, NothingCounted DEF HandsOverNothing
    <3> QED
      BY <2>2, <3>3
  <2>4. ASSUME NEW h \in Nat, NEW w \in Names, NEW S \in SUBSET Names, NEW c \in {0, 1},
               Lands(Loader, h, w, S, c)
        PROVE  CountInv'
    <3>1. CASE c = 1 /\ at = "opening"
      <4>0. Top.mod \in Mods
        BY <1>0, <3>1, TopType DEF LoaderPlace, LoadCalls
      <4>1. pc'[Loader] = "idle" /\ w \in Paths
        BY <2>4, <3>1, <4>0 DEF Lands, Wanted, Paths
      <4>2. at' = "opened" /\ lib' = h
        BY <1>0, <1>1, <2>4, <3>1, <4>1, CreditedIsNew
      <4>3. Held' = {h}
        BY <4>2 DEF Held, Holding
      <4> QED
        BY <1>0, <1>1, <2>1, <2>4, <3>1, <4>1, <4>3, ModLands
    <3>2. CASE ~(c = 1 /\ at = "opening")
      <4>1. c = 1 => w \in Others
        BY <2>4, <3>2 DEF Lands, Wanted
      <4>2. at' = at
        BY <1>1, <2>4, <3>2 DEF Lands
      <4>3. Held' = Held
        BY <2>1, <4>2 DEF Held, Holding
      <4> QED
        BY <1>0, <1>1, <2>4, <4>1, <4>3, OthersLand
    <3> QED
      BY <3>1, <3>2
  <2> QED
    BY <1>0, <1>1, <1>2, <2>2, <2>3, <2>4, LoadStepLands
<1>3. CASE pc[Loader] \notin Load
  <2>1. pc[Loader] = "close" /\ at \in {"dropping", "again"} /\ arg[Loader] = lib
        /\ (Close(Loader) \/ Queue(Loader))
    BY <1>0, <1>1, <1>3
    DEF LoaderPlace, LinkerStep, Load, Step, Queue, Writing, LoadStep, OpenAgain, OpenStub,
        OpenElf, SkipDep, LoadDep, DepsDone, Link, Finish, AfterLoad, Close, DlsymGlobal,
        AddSymbols, RunInit
  <2>2. at' = at /\ lib' = lib
    BY <1>1, <2>1
  <2>3. CASE Close(Loader)
    BY <1>1, <2>1, <2>2, <2>3, CloseCounts
  <2>4. CASE Queue(Loader)
    <3>1. /\ owners' = owners /\ byName' = byName /\ nextHandle' = nextHandle
          /\ loading' = loading /\ pc' = pc
      BY <2>4 DEF Queue, regVars, loadVars, callVars
    <3>2. Held' = Held /\ DOMAIN table' = DOMAIN table
      BY <1>1, <2>2, <3>1 DEF Held, Holding
    <3>3. CountInv'
      BY <1>0, <3>1, <3>2, SameCount, NothingCounted
    <3> QED
      BY <1>1, <2>2, <3>3 DEF ModInv, AgainRepeats, Repeated
  <2> QED
    BY <2>1, <2>3, <2>4
<1> QED
  BY <1>2, <1>3

LEMMA BackgroundCounts ==
    ASSUME NamesDistinct, RegistryInv, RegistryInv', ModInv, NEW t \in Threads \ {Loader},
           BackgroundNext(t)
    PROVE  CountInv' /\ AgainRepeats'
<1>0. /\ Loader \in Threads /\ pc \in [Threads -> PcType] /\ CountInv /\ ControlInv
      /\ at' = at /\ lib' = lib /\ table' = table
  BY ModsAssumption DEF RegistryInv, TypeOK, ThreadTypes, ModInv, BackgroundNext, modVars
<1>1. AgainRepeats'
  BY <1>0 DEF ModInv, AgainRepeats, Repeated
<1>2. pc'[Loader] = pc[Loader]
  <2>1. CASE Step(t)
    BY <1>0, <2>1, OtherThreads
  <2>2. CASE \E n \in BackgroundNames : CallOpen(t, Request(n, TRUE, FALSE, Empty))
    BY <1>0, <2>2 DEF CallOpen, Goto
  <2> QED
    BY <2>1, <2>2 DEF BackgroundNext
<1>3. Held' = Held /\ DOMAIN table' = DOMAIN table
  BY <1>0, <1>2 DEF Held, Holding
<1>4. CASE \E n \in BackgroundNames : CallOpen(t, Request(n, TRUE, FALSE, Empty))
  <2>1. owners' = owners /\ byName' = byName /\ nextHandle' = nextHandle /\ loading' = loading
    BY <1>4 DEF CallOpen, regVars
  <2> QED
    BY <1>0, <1>1, <1>3, <2>1, SameCount, NothingCounted
<1>5. CASE Step(t)
  <2>1. pc[t] \in Load
    BY <1>0, <1>5
    DEF ControlInv, OthersPlace, Load, Step, Queue, Writing, LoadStep, OpenAgain, OpenStub,
        OpenElf, SkipDep, LoadDep, DepsDone, Link, Finish, AfterLoad, Close, DlsymGlobal,
        AddSymbols, RunInit
  <2>2. CASE HandsOverNothing(t)
    BY <1>0, <1>1, <1>3, <2>2, SameCount, NothingCounted DEF HandsOverNothing
  <2>3. ASSUME NEW h \in Nat, NEW w \in Names, NEW S \in SUBSET Names, NEW c \in {0, 1},
               Lands(t, h, w, S, c)
        PROVE  CountInv'
    <3>1. c = 1 => w \in Others
      BY <2>3 DEF Lands, Wanted
    <3> QED
      BY <1>0, <1>3, <2>3, <3>1, OthersLand
  <2> QED
    BY <1>0, <1>1, <1>5, <2>1, <2>2, <2>3, LoadStepLands
<1> QED
  BY <1>4, <1>5 DEF BackgroundNext

LEMMA CountsKept ==
    ASSUME NamesDistinct, StackOfMods, RegistryInv, RegistryInv', ModInv, [ModNext]_allVars
    PROVE  CountInv' /\ AgainRepeats'
<1>1. CASE UNCHANGED allVars
  <2>1. /\ owners' = owners /\ byName' = byName /\ nextHandle' = nextHandle /\ loading' = loading
        /\ pc' = pc /\ at' = at /\ lib' = lib /\ table' = table
    BY <1>1 DEF allVars, vars, regVars, loadVars, callVars, modVars
  <2>2. Held' = Held /\ DOMAIN table' = DOMAIN table
    BY <2>1 DEF Held, Holding
  <2> QED
    BY <2>1, <2>2, SameCount, NothingCounted DEF ModInv, AgainRepeats, Repeated
<1> QED
  BY <1>1, QuietStepCounts, CallCounts, LinkerStepCounts, BackgroundCounts
  DEF ModNext, LoaderNext

LEMMA ModInitCounts == ModInit => ModInv
<1> SUFFICES ASSUME ModInit PROVE ModInv
  OBVIOUS
<1>1. /\ DOMAIN Empty = {} /\ Loader \in Threads /\ pc[Loader] = "idle" /\ at = "scan"
      /\ pass = "preinit" /\ Held = {} /\ Handles = {}
  BY ModsAssumption DEF ModInit, Init, Empty, Held, Holding, Handles
<1>2. ControlInv
  BY <1>1 DEF ModInit, Init, ControlInv, LoaderPlace, OthersPlace, PlainCalls, DirectLoads
<1>3. CountInv /\ AgainRepeats
  BY <1>1 DEF ModInit, Init, CountInv, OwnedAsCounted, ModsApart, NamesApart, LoadsUnowned,
              ModsTracked, AgainRepeats
<1> QED
  BY <1>2, <1>3 DEF ModInv

LEMMA ModInvariant ==
    ASSUME NamesDistinct
    PROVE  ModSpec => [](StackOfMods /\ ModInv)
<1>1. ModInit => StackOfMods /\ ModInv
  BY ModInitCounts DEF ModInit, StackOfMods
<1>2. /\ StackOfMods /\ HandleInv /\ HandleInv' /\ ModInv /\ [ModNext]_allVars
         => StackOfMods' /\ ModInv'
  BY StackKept, ControlKept, CountsKept DEF HandleInv, ModInv
<1> QED
  BY <1>1, <1>2, LoaderUsesLinker, HandlesInvariant, PTL DEF ModSpec

\* Between two mods the loader owns exactly one reference to each mod of its table,
\* through both passes, repeated scans and mods given up, and beside whatever the
\* other threads load, while no file is a mod and something else at once.
THEOREM ReferencesOfMods ==
    ASSUME LookupClosers = {}, NamesDistinct
    PROVE  ModSpec => []OneReferencePerMod
<1>4. ModInv /\ RefsCoverOwners /\ HandleInv => OneReferencePerMod
  <2> SUFFICES ASSUME ModInv, RefsCoverOwners, HandleInv, at = "scan", NEW h \in DOMAIN table
               PROVE  h \in Libs /\ owners[h] = 1
    BY DEF OneReferencePerMod
  <2>1. Held = {} /\ h \in Handles /\ Count(h) = 1
    BY DEF ModInv, CountInv, ModsTracked, Held, Holding, Count
  <2>2. owners[h] = 1
    BY <2>1 DEF ModInv, CountInv, OwnedAsCounted
  <2>3. h \in DOMAIN owners
    BY <2>1 DEF HandleInv, RegistryInv, TypeOK, RegistryTypes
  <2> QED
    BY <2>2, <2>3 DEF RefsCoverOwners
<1> QED
  BY <1>4, ModInvariant, LoaderUsesLinker, HandlesInvariant, LoaderReferencesCover, PTL

-----------------------------------------------------------------------------
(* Each pass calls an entry point once.  The inductive invariant.            *)

\* The path of a mod is no soname of another file, and no file needs it.
PathsPrivate ==
    \A f \in Elf : /\ Soname[f] \in Paths => Soname[f] = f
                   /\ \A i \in DOMAIN Needed[f] : Needed[f][i] \notin Paths

PathRequests ==
    \A t \in Threads : pc[t] = "open" /\ req[t].name \in Paths => cur[t] = NoLoad

\* So the file of a mod is only loaded directly, while its name is unknown.
PathLoads ==
    \A h \in DOMAIN loading :
        /\ \A i \in DOMAIN loading[h].todo : loading[h].todo[i] \notin Paths
        /\ loading[h].name \in Paths =>
              loading[h].parent = NoLoad /\ loading[h].name \notin DOMAIN byName

\* A registered path keeps its library.
PathsKept == \A p \in Paths : p \in DOMAIN byName => p \in DOMAIN byName' /\ byName'[p] = byName[p]

\* load_mod holds the library its path leads to.
LoaderNames ==
    at \in {"opened", "again", "entry", "lookup"} => Leads(Path[Top.mod], lib)

\* The entry point of the mod ran in this pass.
Logged(m) == \E i \in DOMAIN log : log[i].mod = m /\ log[i].pass = pass

\* The table has the pass before the entry point runs, and it has not run yet.
Recorded ==
    at \in {"entry", "lookup"} =>
        /\ lib \in DOMAIN table /\ pass \in table[lib]
        /\ ~Logged(Top.mod)

LogEntries == [mod : Mods, pass : {"preinit", "init"}, scan : Nat, image : Int]

LogShape ==
    /\ log \in Seq(LogEntries) /\ scans \in Nat
    /\ pass \in {"preinit", "game", "init", "done"}
    /\ pass \in {"preinit", "game"} => \A i \in DOMAIN log : log[i].pass = "preinit"

\* A mod whose entry point ran in this pass is in the table under its path.
Listed(m) == \E h \in DOMAIN table : Leads(Path[m], h) /\ pass \in table[h]
LoggedListed == \A m \in Mods : Logged(m) => Listed(m)

PathInv == PathRequests /\ PathLoads
LogInv == LoaderNames /\ Recorded /\ LogShape /\ LoggedListed /\ CalledOncePerPass

-----------------------------------------------------------------------------
(* The names of the mods.                                                    *)

\* The file of a mod is loaded by the main thread, one at a time.
LEMMA PathLoadsAreDirect ==
    ASSUME NamesDistinct, RegistryInv, ControlInv, PathLoads,
           NEW h \in DOMAIN loading, loading[h].name \in Paths
    PROVE  /\ loading[h].parent = NoLoad /\ loading[h].thread = Loader
           /\ \A k \in DOMAIN loading : loading[k].name \in Paths => k = h
<1>1. ASSUME NEW k \in DOMAIN loading, loading[k].name \in Paths
      PROVE  loading[k].parent = NoLoad /\ loading[k].thread = Loader
  BY <1>1, PathsAreFiles DEF PathLoads, ControlInv, DirectLoads, Wanted, NamesDistinct
<1>2. ASSUME NEW k \in DOMAIN loading, loading[k].name \in Paths
      PROVE  ~(k < h) /\ ~(h < k) /\ k \in Nat /\ h \in Nat
  <2>1. k \in Handles /\ h \in Handles /\ nextHandle \in Nat
    BY DEF RegistryInv, TypeOK, RegistryTypes, LoadTypes
  <2>2. loading[k].parent = 0 /\ loading[h].parent = 0 /\ loading[k].thread = loading[h].thread
    BY <1>1, <1>2 DEF NoLoad
  <2>3. k < h => k <= loading[h].parent
    BY <2>2 DEF RegistryInv, LoadsNested
  <2>4. h < k => h <= loading[k].parent
    BY <2>2 DEF RegistryInv, LoadsNested
  <2> QED
    BY <2>1, <2>2, <2>3, <2>4 DEF Handles
<1> QED
  BY <1>1, <1>2

LEMMA OpenPaths ==
    ASSUME NamesDistinct, PathsPrivate, RegistryInv, ControlInv, PathInv,
           NEW t \in Threads, OpenAgain(t) \/ OpenStub(t) \/ OpenElf(t)
    PROVE  PathInv' /\ PathsKept
<1> DEFINE w == req[t].name
<1>0. /\ pc \in [Threads -> PcType] /\ req \in [Threads -> RequestType] /\ pc[t] = "open"
      /\ cur \in [Threads -> Nat] /\ w \in Names
      /\ Registered(w) \/ w \notin DOMAIN byName
  BY DEF RegistryInv, TypeOK, ThreadTypes, PcMeaning, OpenAgain, OpenStub, OpenElf, NamesLive,
         Registered
<1>1. PathRequests'
  BY <1>0 DEF PathInv, PathRequests, OpenAgain, OpenStub, OpenElf, Return, Goto
<1>2. CASE OpenAgain(t)
  BY <1>1, <1>2 DEF PathInv, PathLoads, PathsKept, OpenAgain
<1>3. CASE OpenStub(t)
  <2>1. byName' = Insert(byName, w, nextHandle) /\ loading' = loading /\ w \notin DOMAIN byName
    BY <1>0, <1>3 DEF OpenStub
  <2>2. PathsKept
    BY <2>1 DEF PathsKept, Insert
  <2>3. ASSUME NEW h \in DOMAIN loading, loading[h].name \in Paths PROVE loading[h].name # w
    <3> SUFFICES ASSUME w \in Paths, loading[h].name = w PROVE FALSE
      BY <2>3
    <3>1. cur[t] = NoLoad /\ w \in Wanted(t)
      BY <1>0 DEF PathInv, PathRequests, ControlInv, DirectLoads
    <3>2. t = Loader
      BY <3>1 DEF Wanted, NamesDistinct
    <3>3. loading[h].thread # t
      BY <3>1, IdleLoadsNothing
    <3> QED
      BY <2>3, <3>2, <3>3, PathLoadsAreDirect DEF PathInv
  <2>4. PathLoads'
    <3> SUFFICES ASSUME NEW h \in DOMAIN loading
                 PROVE  /\ \A i \in DOMAIN loading[h].todo : loading[h].todo[i] \notin Paths
                        /\ loading[h].name \in Paths =>
                              loading[h].parent = NoLoad /\ loading[h].name \notin DOMAIN byName'
      BY <2>1 DEF PathLoads
    <3> QED
      BY <2>1, <2>3 DEF PathInv, PathLoads, Insert
  <2> QED
    BY <1>1, <2>2, <2>4 DEF PathInv
<1>4. CASE OpenElf(t)
  <2>1. /\ byName' = byName /\ w \notin DOMAIN byName /\ w \in Elf
        /\ loading' = Insert(loading, nextHandle,
                       [thread |-> t, name |-> w, parent |-> cur[t],
                        todo |-> Needed[w], ext |-> req[t].ext, ctors |-> req[t].ctors])
    BY <1>0, <1>4 DEF OpenElf
  <2>2. w \in Paths => cur[t] = NoLoad
    BY <1>0 DEF PathInv, PathRequests
  <2>3. \A i \in DOMAIN Needed[w] : Needed[w][i] \notin Paths
    BY <2>1 DEF PathsPrivate
  <2>4. PathLoads'
    <3> SUFFICES ASSUME NEW h \in DOMAIN loading'
                 PROVE  /\ \A i \in DOMAIN loading'[h].todo : loading'[h].todo[i] \notin Paths
                        /\ loading'[h].name \in Paths =>
                              loading'[h].parent = NoLoad /\ loading'[h].name \notin DOMAIN byName'
      BY DEF PathLoads
    <3>1. CASE h = nextHandle
      BY <2>1, <2>2, <2>3, <3>1 DEF Insert
    <3>2. CASE h # nextHandle
      <4>1. h \in DOMAIN loading /\ loading'[h] = loading[h]
        BY <2>1, <3>2 DEF Insert
      <4> QED
        BY <2>1, <4>1 DEF PathInv, PathLoads
    <3> QED
      BY <3>1, <3>2
  <2> QED
    BY <1>1, <2>1, <2>4 DEF PathInv, PathsKept
<1> QED
  BY <1>2, <1>3, <1>4

LEMMA FinishPaths ==
    ASSUME NamesDistinct, PathsPrivate, RegistryInv, ControlInv, PathInv,
           NEW t \in Threads, Finish(t)
    PROVE  PathInv' /\ PathsKept
<1>0. /\ pc \in [Threads -> PcType] /\ req \in [Threads -> RequestType]
      /\ cur[t] \in DOMAIN loading /\ loading[cur[t]].name \in Elf
  BY DEF RegistryInv, TypeOK, ThreadTypes, LoadTypes, LoadType, LoadsNested, PcMeaning, Finish
<1>1. PICK w \in Elf, h \in DOMAIN loading :
         /\ w = loading[h].name /\ h = cur[t]
         /\ byName' = Overlay(byName, All({Soname[w], w}, h))
         /\ loading' = Keep(loading, DOMAIN loading \ {h})
  BY <1>0 DEF Finish
<1>2. PathRequests'
  <2>1. \A u \in Threads : pc'[u] = "open" => u # t
    BY <1>0 DEF Finish, Return, Goto
  <2>2. \A u \in Threads \ {t} : pc'[u] = pc[u] /\ req'[u] = req[u] /\ cur'[u] = cur[u]
    BY <1>0 DEF Finish, Return, Goto, RegistryInv, TypeOK, ThreadTypes
  <2> QED
    BY <2>1, <2>2 DEF PathInv, PathRequests
<1>3. Soname[w] \in Paths => Soname[w] = w
  BY DEF PathsPrivate
<1>4. w \in Paths => w \notin DOMAIN byName
  BY <1>1 DEF PathInv, PathLoads
<1>5. PathsKept
  <2> SUFFICES ASSUME NEW p \in Paths, p \in DOMAIN byName
               PROVE  p \in DOMAIN byName' /\ byName'[p] = byName[p]
    BY DEF PathsKept
  <2>1. p # w /\ p # Soname[w]
    BY <1>3, <1>4
  <2> QED
    BY <1>1, <2>1 DEF Overlay, All
<1>6. PathLoads'
  <2> SUFFICES ASSUME NEW k \in DOMAIN loading'
               PROVE  /\ \A i \in DOMAIN loading'[k].todo : loading'[k].todo[i] \notin Paths
                      /\ loading'[k].name \in Paths =>
                            loading'[k].parent = NoLoad /\ loading'[k].name \notin DOMAIN byName'
    BY DEF PathLoads
  <2>1. k \in DOMAIN loading /\ k # h /\ loading'[k] = loading[k]
    BY <1>1 DEF Keep
  <2>2. ASSUME loading[k].name \in Paths PROVE loading[k].name \notin {w, Soname[w]}
    <3>1. ASSUME loading[k].name \in {w, Soname[w]} PROVE FALSE
      <4>1. w \in Paths
        BY <1>3, <2>2, <3>1
      <4> QED
        BY <1>1, <2>1, <2>2, <4>1, PathLoadsAreDirect DEF PathInv
    <3> QED
      BY <3>1
  <2>3. loading[k].name \in Paths => loading[k].name \notin DOMAIN byName'
    BY <1>1, <2>1, <2>2 DEF PathInv, PathLoads, Overlay, All
  <2> QED
    BY <2>1, <2>3 DEF PathInv, PathLoads
<1> QED
  BY <1>2, <1>5, <1>6 DEF PathInv

LEMMA LoadStepPaths ==
    ASSUME NamesDistinct, PathsPrivate, RegistryInv, ControlInv, PathInv,
           NEW t \in Threads, Step(t), pc[t] \in Load
    PROVE  PathInv' /\ PathsKept
<1>0. /\ pc \in [Threads -> PcType] /\ req \in [Threads -> RequestType]
      /\ \A h \in DOMAIN loading : loading[h] \in LoadType
  BY DEF RegistryInv, TypeOK, ThreadTypes, LoadTypes
<1>1. CASE SkipDep(t) \/ LoadDep(t)
  <2>1. /\ cur[t] \in DOMAIN loading /\ cur' = cur /\ byName' = byName /\ cur[t] # NoLoad
        /\ loading[cur[t]].todo # <<>>
        /\ loading' = [loading EXCEPT ![cur[t]].todo = Tail(@)]
    BY <1>1 DEF SkipDep, LoadDep, RegistryInv, LoadsNested, PcMeaning, regVars
  <2> DEFINE todo == loading[cur[t]].todo
  <2>2. todo \in Seq(Names) /\ todo # <<>>
    BY <1>0, <2>1 DEF LoadType
  <2>3. /\ \A i \in DOMAIN Tail(todo) : Tail(todo)[i] \notin Paths
        /\ Head(todo) \notin Paths
    <3>1. \A i \in DOMAIN todo : todo[i] \notin Paths
      BY <2>1 DEF PathInv, PathLoads
    <3> HIDE DEF todo
    <3>2. Len(todo) \in Nat /\ DOMAIN todo = 1 .. Len(todo) /\ Len(todo) # 0
      BY <2>2
    <3>3. Head(todo) = todo[1] /\ Len(Tail(todo)) = Len(todo) - 1
          /\ DOMAIN Tail(todo) = 1 .. (Len(todo) - 1)
          /\ \A i \in 1 .. (Len(todo) - 1) : Tail(todo)[i] = todo[i + 1]
      BY <2>2
    <3> QED
      BY <3>1, <3>2, <3>3
  <2>4. PathLoads'
    <3> SUFFICES ASSUME NEW h \in DOMAIN loading
                 PROVE  /\ \A i \in DOMAIN loading'[h].todo : loading'[h].todo[i] \notin Paths
                        /\ loading'[h].name \in Paths =>
                              loading'[h].parent = NoLoad /\ loading'[h].name \notin DOMAIN byName
      BY <2>1 DEF PathLoads
    <3>1. CASE h = cur[t]
      <4>1. /\ loading'[h].todo = Tail(todo) /\ loading'[h].name = loading[h].name
            /\ loading'[h].parent = loading[h].parent
        BY <1>0, <2>1, <3>1 DEF LoadType
      <4> QED
        BY <2>3, <4>1 DEF PathInv, PathLoads
    <3>2. CASE h # cur[t]
      BY <2>1, <3>2 DEF PathInv, PathLoads
    <3> QED
      BY <3>1, <3>2
  <2>5. PathRequests'
    <3>1. CASE SkipDep(t)
      BY <3>1 DEF PathInv, PathRequests, SkipDep, callVars
    <3>2. CASE LoadDep(t)
      <4>1. /\ pc' = [pc EXCEPT ![t] = "open"]
            /\ req' = [req EXCEPT ![t] = Request(Head(todo), TRUE, FALSE, loading[cur[t]].ext)]
        BY <3>2 DEF LoadDep, Goto
      <4>2. req'[t].name = Head(todo)
        BY <1>0, <4>1 DEF Request
      <4> QED
        BY <1>0, <2>1, <2>3, <4>1, <4>2 DEF PathInv, PathRequests
    <3> QED
      BY <1>1, <3>1, <3>2
  <2> QED
    BY <2>1, <2>4, <2>5 DEF PathInv, PathsKept
<1>2. CASE Queue(t) \/ DepsDone(t) \/ Link(t)
  <2>1. UNCHANGED <<loading, byName, req, cur>> /\ \A u \in Threads : pc'[u] = "open" => pc[u] = "open"
    BY <1>0, <1>2 DEF Queue, DepsDone, Link, Goto, loadVars, regVars, callVars
  <2> QED
    BY <2>1 DEF PathInv, PathRequests, PathLoads, PathsKept
<1> QED
  BY <1>1, <1>2, OpenPaths, FinishPaths
  DEF Step, LoadStep, AfterLoad, Close, DlsymGlobal, AddSymbols, RunInit, Load

\* The steps of the main thread that are no steps of a load.
LEMMA OtherStepPaths ==
    ASSUME PathInv, loading' = loading, UNCHANGED <<req, cur>>,
           \A n \in DOMAIN byName' : n \in DOMAIN byName,
           \A u \in Threads : pc'[u] = "open" => pc[u] = "open"
    PROVE  PathInv'
BY DEF PathInv, PathRequests, PathLoads

LEMMA DirectCallPaths ==
    ASSUME RegistryInv, ControlInv, PathInv, NEW t \in Threads, NEW r \in RequestType,
           CallOpen(t, r)
    PROVE  PathInv' /\ PathsKept
<1>0. pc \in [Threads -> PcType] /\ req \in [Threads -> RequestType]
  BY DEF RegistryInv, TypeOK, ThreadTypes
<1>1. /\ pc' = [pc EXCEPT ![t] = "open"] /\ UNCHANGED <<cur, loading>> /\ cur[t] = NoLoad
      /\ req' = [req EXCEPT ![t] = r]
  BY CallOpenControl
<1>2. byName' = byName
  BY DEF CallOpen, regVars
<1>3. PathRequests'
  BY <1>0, <1>1 DEF PathInv, PathRequests
<1> QED
  BY <1>1, <1>2, <1>3 DEF PathInv, PathLoads, PathsKept

\* The loader gives up a second reference: the first keeps the name.
LEMMA ClosePaths ==
    ASSUME RegistryInv, RefsCoverOwners, ModInv, PathInv, Close(Loader), pc[Loader] = "close",
           at \in {"dropping", "again"}, arg[Loader] = lib
    PROVE  /\ PathInv'
           /\ \A n \in DOMAIN byName, h \in DOMAIN table :
                 byName[n] = h => n \in DOMAIN byName' /\ byName'[n] = h
<1>0. /\ Loader \in Threads /\ pc \in [Threads -> PcType] /\ lib \in Handles
      /\ owners \in [Handles -> Nat] /\ CountInv /\ Held = {lib}
      /\ \A h \in Libs : byHandle[h].refs \in Nat
  BY ModsAssumption DEF RegistryInv, TypeOK, RegistryTypes, LibraryType, ThreadTypes, ModInv,
                        CountInv, ModsTracked, Held, Holding
<1>1. /\ loading' = loading /\ UNCHANGED <<req, cur>> /\ pc' = [pc EXCEPT ![Loader] = "idle"]
      /\ byName' = (IF Shared(lib) THEN byName
                    ELSE IF lib \in Libs THEN NamesForgotten(lib) ELSE byName)
  BY DEF Close, Goto, loadVars
<1>2. \A n \in DOMAIN byName' : n \in DOMAIN byName
  BY <1>1 DEF NamesForgotten, Keep
<1>3. PathInv'
  BY <1>0, <1>1, <1>2, OtherStepPaths
<1>4. ASSUME lib \in DOMAIN table PROVE byName' = byName
  <2>1. Count(lib) = 2
    BY <1>0, <1>4 DEF Count
  <2>2. owners[lib] = 2
    BY <1>0, <2>1 DEF CountInv, OwnedAsCounted
  <2>3. Shared(lib)
    BY <1>0, <2>2 DEF RefsCoverOwners, Shared
  <2> QED
    BY <1>1, <2>3
<1>5. ASSUME NEW n \in DOMAIN byName, NEW h \in DOMAIN table, byName[n] = h
      PROVE  n \in DOMAIN byName' /\ byName'[n] = h
  <2>1. CASE h = lib
    BY <1>4, <1>5, <2>1
  <2>2. CASE h # lib
    BY <1>1, <1>5, <2>2 DEF NamesForgotten, Keep
  <2> QED
    BY <2>1, <2>2
<1> QED
  BY <1>3, <1>5

-----------------------------------------------------------------------------
(* The log.                                                                  *)

\* A library of the table keeps the path it is known under.
TableNamesKept ==
    \A p \in Paths, h \in DOMAIN table : Leads(p, h) => LeadsNext(p, h)

LEMMA TopIsMod ==
    ASSUME StackOfMods, ControlInv, at # "scan"
    PROVE  Top.mod \in Mods /\ Path[Top.mod] \in Paths
BY TopType DEF ControlInv, LoaderPlace, LoadCalls, Paths

LEMMA ListedKept ==
    ASSUME TableNamesKept, DOMAIN table \subseteq DOMAIN table', pass' = pass,
           \A h \in DOMAIN table : table[h] \subseteq table'[h], NEW m \in Mods, Listed(m)
    PROVE  Listed(m)'
<1>1. PICK h \in DOMAIN table : Leads(Path[m], h) /\ pass \in table[h]
  BY DEF Listed
<1>2. Path[m] \in Paths
  BY DEF Paths
<1>3. LeadsNext(Path[m], h)
  BY <1>1, <1>2 DEF TableNamesKept
<1> QED
  BY <1>1, <1>3 DEF Listed, Leads, LeadsNext

\* A step that neither logs nor begins a pass.
LEMMA LogKept ==
    ASSUME LogInv, TableNamesKept, log' = log, pass' = pass, scans' = scans,
           DOMAIN table \subseteq DOMAIN table', \A h \in DOMAIN table : table[h] \subseteq table'[h]
    PROVE  LogShape' /\ LoggedListed' /\ CalledOncePerPass'
<1>1. LogShape' /\ CalledOncePerPass'
  BY DEF LogInv, LogShape, CalledOncePerPass
<1>2. LoggedListed'
  <2> SUFFICES ASSUME NEW m \in Mods, Logged(m)' PROVE Listed(m)'
    BY DEF LoggedListed
  <2>1. Listed(m)
    BY DEF LogInv, LoggedListed, Logged
  <2> QED
    BY <2>1, ListedKept
<1> QED
  BY <1>1, <1>2

\* An entry point runs: it had not in this pass, and its mod is in the table.
LEMMA RunLogs ==
    ASSUME StackOfMods, HandleInv, AddressInv, ModInv, LogInv, RunOwnEntry \/ RunFoundEntry
    PROVE  LogInv'
<1>0. /\ at \in {"entry", "lookup"} /\ at' = "scan" /\ pass' = pass /\ lib' = lib /\ table' = table
      /\ byName' = byName /\ scans' = scans
      /\ Loader \in Threads
  <2>1. RunFoundEntry => pc[Loader] = "dlsym" /\ byName' = byName
    BY DEF RunFoundEntry, DlsymGlobal, regVars
  <2> QED
    BY <2>1, ModsAssumption DEF RunOwnEntry, RunFoundEntry, Leave, ModInv, ControlInv, LoaderPlace,
                                vars, regVars
<1>1. TableNamesKept
  BY <1>0 DEF TableNamesKept, Leads, LeadsNext
<1>2. CASE log' = log
  BY <1>0, <1>1, <1>2, LogKept DEF LogInv, LoaderNames, Recorded
<1>3. ASSUME NEW image \in Int, Run(image) PROVE LogInv'
  <2> DEFINE e == [mod |-> Top.mod, pass |-> pass, scan |-> scans, image |-> image]
  <2>1. Top.mod \in Mods /\ pass \in {"preinit", "init"} /\ scans \in Nat /\ log \in Seq(LogEntries)
    BY <1>0, TopIsMod DEF ModInv, ControlInv, LoaderPlace, LogInv, LogShape
  <2>2. PICK x \in LogEntries : x = e
    BY <1>3, <2>1 DEF LogEntries
  <2>3. /\ log' = Append(log, x) /\ x.mod = Top.mod /\ x.pass = pass /\ x.scan = scans
    BY <1>3, <2>2 DEF Run
  <2>4. /\ log' \in Seq(LogEntries) /\ DOMAIN log = 1 .. Len(log) /\ Len(log) \in Nat
        /\ DOMAIN log' = 1 .. (Len(log) + 1)
        /\ \A i \in 1 .. Len(log) : log'[i] = log[i]
        /\ log'[Len(log) + 1] = x
    BY <2>1, <2>3
  <2>5. \A i \in DOMAIN log' : (i \in DOMAIN log /\ log'[i] = log[i]) \/ (i = Len(log) + 1 /\ log'[i] = x)
    BY <2>4
  <2>6. \A i \in DOMAIN log : ~(log[i].mod = x.mod /\ log[i].pass = x.pass)
    BY <1>0, <2>3 DEF LogInv, Recorded, Logged
  <2>7. CalledOncePerPass'
    <3> SUFFICES ASSUME NEW i \in DOMAIN log', NEW j \in DOMAIN log',
                        log'[i].mod = log'[j].mod, log'[i].pass = log'[j].pass
                 PROVE  i = j
      BY DEF CalledOncePerPass
    <3> QED
      BY <2>5, <2>6 DEF LogInv, CalledOncePerPass
  <2>8. Listed(Top.mod)
    BY <1>0 DEF LogInv, LoaderNames, Recorded, Listed
  <2>9. LoggedListed'
    <3> SUFFICES ASSUME NEW m \in Mods, Logged(m)' PROVE Listed(m)'
      BY DEF LoggedListed
    <3>1. PICK i \in DOMAIN log' : log'[i].mod = m /\ log'[i].pass = pass
      BY <1>0 DEF Logged
    <3>2. Logged(m) \/ m = Top.mod
      BY <2>3, <2>5, <3>1 DEF Logged
    <3>3. Listed(m)
      BY <2>8, <3>2 DEF LogInv, LoggedListed
    <3> QED
      BY <1>0, <1>1, <3>3, ListedKept
  <2>10. LogShape'
    BY <1>0, <2>1, <2>3, <2>4, <2>5 DEF LogInv, LogShape
  <2> QED
    BY <1>0, <2>7, <2>9, <2>10 DEF LogInv, LoaderNames, Recorded
<1>4. CASE RunOwnEntry
  <2>1. lib \in Handles /\ nextHandle \in Nat /\ Run(lib)
    BY <1>0, <1>4 DEF RunOwnEntry, LogInv, Recorded, ModInv, CountInv, ModsTracked, HandleInv,
                      RegistryInv, TypeOK, RegistryTypes
  <2> QED
    BY <1>3, <2>1 DEF Handles
<1>5. CASE RunFoundEntry /\ log' # log
  <2>1. EntryPoint \in DOMAIN globals /\ Run(globals[EntryPoint])
    BY <1>5 DEF RunFoundEntry
  <2>2. Ready(globals[EntryPoint]) \/ Publishing(globals[EntryPoint])
    BY <2>1 DEF AddressInv, GlobalsReady
  <2>3. globals[EntryPoint] \in Int
    <3>1. /\ DOMAIN images \subseteq Handles /\ nextHandle \in Nat /\ cur \in [Threads -> Nat]
      BY DEF HandleInv, RegistryInv, TypeOK, RegistryTypes, LoadTypes, ThreadTypes
    <3> QED
      BY <2>2, <3>1 DEF Ready, Publishing, Handles, Launcher, Dispatch
  <2> QED
    BY <1>3, <2>1, <2>3
<1> QED
  BY <1>2, <1>4, <1>5

\* The table takes the pass: the mod's entry point has not run in it.
LEMMA RecordLogs ==
    ASSUME StackOfMods, ModInv, LogInv, Record
    PROVE  LogInv'
<1>0. /\ byName' = byName /\ UNCHANGED <<pass, scans, stack, lib, log>> /\ at' = "entry"
      /\ at \in {"opened", "again"}
      /\ table' = Insert(table, lib, (IF Repeated(lib) THEN table[lib] ELSE {}) \cup {pass})
      /\ Repeated(lib) => pass \notin table[lib]
  BY DEF Record, ModInv, AgainRepeats, AlreadyDone, vars, regVars
<1>1. Leads(Path[Top.mod], lib) /\ Top.mod \in Mods /\ Top' = Top
  BY <1>0, TopIsMod DEF LogInv, LoaderNames, ModInv, Top
<1>2. /\ DOMAIN table \subseteq DOMAIN table' /\ lib \in DOMAIN table' /\ pass \in table'[lib]
      /\ \A h \in DOMAIN table : table[h] \subseteq table'[h]
  BY <1>0 DEF Insert, Repeated
<1>3. TableNamesKept
  BY <1>0 DEF TableNamesKept, Leads, LeadsNext
<1>4. ~Logged(Top.mod)
  <2> SUFFICES ASSUME Logged(Top.mod) PROVE FALSE
    OBVIOUS
  <2>1. PICK h \in DOMAIN table : Leads(Path[Top.mod], h) /\ pass \in table[h]
    BY <1>1 DEF LogInv, LoggedListed, Listed
  <2>2. h = lib
    BY <1>1, <2>1 DEF Leads
  <2> QED
    BY <1>0, <2>1, <2>2 DEF Repeated
<1>5. LoaderNames' /\ Recorded'
  <2>1. LoaderNames'
    BY <1>0, <1>1 DEF LoaderNames, Leads
  <2>2. ~Logged(Top.mod)'
    BY <1>0, <1>1, <1>4 DEF Logged
  <2> QED
    BY <1>0, <1>1, <1>2, <2>1, <2>2 DEF Recorded
<1> QED
  BY <1>0, <1>2, <1>3, <1>5, LogKept DEF LogInv

\* The steps of the loader that neither record nor run anything.
LEMMA PlainStepLogs ==
    ASSUME StackOfMods, ModInv, LogInv,
           \/ PopFirst \/ NextDep \/ ModDropped \/ DoneBefore \/ ScanAgain \/ OpenMod
           \/ DropMod \/ CloseAgain \/ LookElsewhere
    PROVE  LogInv'
<1>0. /\ byName' = byName /\ UNCHANGED <<pass, log, table, lib>>
  BY DEF PopFirst, NextDep, ModDropped, DoneBefore, ScanAgain, OpenMod, DropMod, CloseAgain,
         LookElsewhere, CallOpen, CallClose, DlsymOwn, vars, regVars
<1>1. TableNamesKept
  BY <1>0 DEF TableNamesKept, Leads, LeadsNext
<1>2. CASE PopFirst \/ NextDep \/ ModDropped \/ DoneBefore \/ OpenMod \/ DropMod
  <2>1. scans' = scans /\ at' \in {"scan", "opening", "dropping"}
    BY <1>2 DEF PopFirst, NextDep, ModDropped, DoneBefore, OpenMod, DropMod, Leave, Scanning
  <2> QED
    BY <1>0, <1>1, <2>1, LogKept DEF LogInv, LoaderNames, Recorded
<1>3. CASE CloseAgain \/ LookElsewhere
  <2>1. /\ scans' = scans /\ stack' = stack /\ Top' = Top
        /\ (at = "opened" /\ at' = "again") \/ (at = "entry" /\ at' = "lookup")
    BY <1>3 DEF CloseAgain, LookElsewhere, Top
  <2>2. Leads(Path[Top.mod], lib) /\ (at = "entry" => ~Logged(Top.mod))
    BY <2>1 DEF LogInv, LoaderNames, Recorded
  <2>3. LoaderNames'
    BY <1>0, <2>1, <2>2 DEF LoaderNames, Leads
  <2>4. Recorded'
    BY <1>0, <2>1, <2>2 DEF LogInv, Recorded, Logged
  <2> QED
    BY <1>0, <1>1, <2>1, <2>3, <2>4, LogKept DEF LogInv
<1>4. CASE ScanAgain
  <2>1. scans' \in Nat /\ at' = "scan"
    BY <1>4 DEF ScanAgain, PassOver, Scanning, LogInv, LogShape
  <2>2. LogShape' /\ CalledOncePerPass'
    BY <1>0, <2>1 DEF LogInv, LogShape, CalledOncePerPass
  <2>3. LoggedListed'
    BY <1>0 DEF LogInv, LoggedListed, Logged, Listed, Leads
  <2> QED
    BY <2>1, <2>2, <2>3 DEF LogInv, LoaderNames, Recorded
<1> QED
  BY <1>2, <1>3, <1>4

\* A pass begins: no entry point has run in it.
LEMMA NewPassLogs ==
    ASSUME StackOfMods, ModInv, LogInv, LoadGame \/ GameLoaded \/ InitDone
    PROVE  LogInv'
<1>0. UNCHANGED <<log, table, at>> /\ at = "scan"
  BY DEF LoadGame, GameLoaded, InitDone, PassOver, Scanning, ModInv, ControlInv, LoaderPlace
<1>1. /\ \A i \in DOMAIN log : log[i].pass \in {"preinit", "init"} /\ log[i].pass # pass'
      /\ scans' \in Nat /\ pass' \in {"game", "init", "done"}
      /\ pass' = "game" => pass = "preinit"
  <2>1. CASE LoadGame
    BY <2>1 DEF LoadGame, LogInv, LogShape
  <2>2. CASE GameLoaded
    <3>1. scans' \in Nat
      BY <2>2, ModsAssumption DEF GameLoaded
    <3> QED
      BY <2>2, <3>1 DEF GameLoaded, LogInv, LogShape
  <2>3. CASE InitDone
    <3>1. \A i \in DOMAIN log : log[i] \in LogEntries
      BY DEF LogInv, LogShape
    <3> QED
      BY <2>3, <3>1 DEF InitDone, LogInv, LogShape, LogEntries
  <2> QED
    BY <2>1, <2>2, <2>3
<1>2. LogShape' /\ CalledOncePerPass'
  BY <1>0, <1>1 DEF LogInv, LogShape, CalledOncePerPass
<1>3. LoggedListed'
  BY <1>0, <1>1 DEF LoggedListed, Logged
<1> QED
  BY <1>0, <1>2, <1>3 DEF LogInv, LoaderNames, Recorded

LEMMA PathsKeptTable ==
    ASSUME PathsKept
    PROVE  TableNamesKept
BY DEF PathsKept, TableNamesKept, Leads, LeadsNext

\* A step of the linker inside a call of the main thread.
LEMMA LinkerStepLogs ==
    ASSUME NamesDistinct, PathsPrivate, StackOfMods, RegistryInv, RegistryInv', RefsCoverOwners,
           ModInv, PathInv, LogInv, LinkerStep
    PROVE  PathInv' /\ LogInv'
<1>0. /\ Loader \in Threads /\ pc \in [Threads -> PcType] /\ CountInv /\ ControlInv /\ LoaderPlace
      /\ UNCHANGED <<pass, scans, stack, table, log>> /\ Top' = Top
  BY ModsAssumption DEF RegistryInv, TypeOK, ThreadTypes, ModInv, ControlInv, LinkerStep, Top
<1>1. /\ Step(Loader)
      /\ IF at = "opening" /\ pc'[Loader] = "idle" THEN at' = "opened" /\ lib' = Credited
           ELSE at' = at /\ lib' = lib
  BY DEF LinkerStep
<1>2. CASE pc[Loader] \in Load
  <2>1. at \in {"opening", "scan"}
    BY <1>0, <1>2 DEF LoaderPlace, Load
  <2>2. PathInv' /\ PathsKept
    BY <1>0, <1>1, <1>2, LoadStepPaths
  <2>3. LogShape' /\ LoggedListed' /\ CalledOncePerPass'
    BY <1>0, <2>2, PathsKeptTable, LogKept
  <2>4. Recorded'
    BY <1>1, <2>1 DEF Recorded
  <2>5. LoaderNames'
    <3>1. CASE at = "opening" /\ pc'[Loader] = "idle"
      <4>1. PICK h \in Nat, w \in Names, S \in SUBSET Names, c \in {0, 1} : Lands(Loader, h, w, S, c)
        BY <1>0, <1>1, <1>2, <3>1, LoadStepLands DEF HandsOverNothing
      <4>2. c = 1 /\ w = Path[Top.mod] /\ LeadsNext(w, h)
        BY <3>1, <4>1 DEF Lands, Wanted
      <4>3. lib' = h
        BY <1>0, <1>1, <3>1, <4>1, <4>2, CreditedIsNew
      <4> QED
        BY <1>0, <4>2, <4>3 DEF LoaderNames, Leads, LeadsNext
    <3>2. CASE ~(at = "opening" /\ pc'[Loader] = "idle")
      BY <1>1, <2>1, <3>2 DEF LoaderNames
    <3> QED
      BY <3>1, <3>2
  <2> QED
    BY <2>2, <2>3, <2>4, <2>5 DEF LogInv
<1>3. CASE pc[Loader] \notin Load
  <2>1. pc[Loader] = "close" /\ at \in {"dropping", "again"} /\ arg[Loader] = lib
        /\ (Close(Loader) \/ Queue(Loader))
    BY <1>0, <1>1, <1>3
    DEF LoaderPlace, LinkerStep, Load, Step, Queue, Writing, LoadStep, OpenAgain, OpenStub,
        OpenElf, SkipDep, LoadDep, DepsDone, Link, Finish, AfterLoad, Close, DlsymGlobal,
        AddSymbols, RunInit
  <2>2. at' = at /\ lib' = lib
    BY <1>1, <2>1
  <2>3. PathInv' /\ \A n \in DOMAIN byName, h \in DOMAIN table :
                        byName[n] = h => n \in DOMAIN byName' /\ byName'[n] = h
    <3>1. CASE Close(Loader)
      BY <2>1, <3>1, ClosePaths
    <3>2. CASE Queue(Loader)
      <4>1. UNCHANGED <<loading, req, cur, byName, pc>>
        BY <3>2 DEF Queue, regVars, loadVars, callVars
      <4> QED
        BY <4>1, OtherStepPaths
    <3> QED
      BY <2>1, <3>1, <3>2
  <2>4. TableNamesKept
    BY <2>3 DEF TableNamesKept, Leads, LeadsNext
  <2>5. LogShape' /\ LoggedListed' /\ CalledOncePerPass'
    BY <1>0, <2>4, LogKept
  <2>6. LoaderNames'
    <3>1. CASE at = "again"
      <4>1. lib \in DOMAIN table /\ Leads(Path[Top.mod], lib)
        BY <3>1 DEF ModInv, AgainRepeats, Repeated, LogInv, LoaderNames
      <4> QED
        BY <1>0, <2>2, <2>3, <4>1 DEF LoaderNames, Leads
    <3> QED
      BY <2>1, <2>2, <3>1 DEF LoaderNames
  <2>7. Recorded'
    BY <2>1, <2>2 DEF Recorded
  <2> QED
    BY <2>3, <2>5, <2>6, <2>7 DEF LogInv
<1> QED
  BY <1>2, <1>3

LEMMA BackgroundLogs ==
    ASSUME NamesDistinct, PathsPrivate, StackOfMods, RegistryInv, RegistryInv', ModInv, PathInv,
           LogInv, NEW t \in Threads \ {Loader}, BackgroundNext(t)
    PROVE  PathInv' /\ LogInv'
<1>0. /\ UNCHANGED <<at, lib, pass, scans, stack, table, log>> /\ Top' = Top /\ ControlInv
  BY DEF BackgroundNext, modVars, Top, ModInv
<1>1. PathInv' /\ PathsKept
  <2>1. CASE \E n \in BackgroundNames : CallOpen(t, Request(n, TRUE, FALSE, Empty))
    <3>1. PICK n \in BackgroundNames : CallOpen(t, Request(n, TRUE, FALSE, Empty))
      BY <2>1
    <3>2. Request(n, TRUE, FALSE, Empty) \in RequestType
      BY ModsAssumption, NoReqType DEF Request, RequestType, NoReq
    <3> QED
      BY <1>0, <3>1, <3>2, DirectCallPaths
  <2>2. CASE Step(t)
    <3>1. pc[t] \in Load
      BY <1>0, <2>2
      DEF ControlInv, OthersPlace, Load, Step, Queue, Writing, LoadStep, OpenAgain, OpenStub,
          OpenElf, SkipDep, LoadDep, DepsDone, Link, Finish, AfterLoad, Close, DlsymGlobal,
          AddSymbols, RunInit
    <3> QED
      BY <1>0, <2>2, <3>1, LoadStepPaths
  <2> QED
    BY <2>1, <2>2 DEF BackgroundNext
<1>2. LogShape' /\ LoggedListed' /\ CalledOncePerPass'
  BY <1>0, <1>1, PathsKeptTable, LogKept
<1>3. LoaderNames'
  <2> SUFFICES ASSUME at \in {"opened", "again", "entry", "lookup"} PROVE Leads(Path[Top.mod], lib)'
    BY <1>0 DEF LoaderNames
  <2>1. Path[Top.mod] \in Paths /\ Leads(Path[Top.mod], lib)
    BY <1>0, TopIsMod DEF LogInv, LoaderNames
  <2> QED
    BY <1>0, <1>1, <2>1 DEF PathsKept, Leads
<1>4. Recorded'
  BY <1>0 DEF LogInv, Recorded, Logged
<1> QED
  BY <1>1, <1>2, <1>3, <1>4 DEF LogInv

\* The loader's own steps.
LEMMA LoaderPaths ==
    ASSUME StackOfMods, RegistryInv, ModInv, PathInv,
           \/ PopFirst \/ NextDep \/ ModDropped \/ DoneBefore \/ ScanAgain \/ OpenMod
           \/ DropMod \/ CloseAgain \/ LookElsewhere \/ RunOwnEntry \/ RunFoundEntry \/ Record
           \/ LoadGame \/ GameLoaded \/ InitDone
    PROVE  PathInv'
<1>0. Loader \in Threads /\ pc \in [Threads -> PcType] /\ ControlInv
  BY ModsAssumption DEF RegistryInv, TypeOK, ThreadTypes, ModInv
<1>1. CASE OpenMod
  <2>1. Path[Top.mod] \in Names
    <3>1. Top.mod \in Mods
      BY <1>1, TopType DEF OpenMod, LoadCalls
    <3> QED
      BY <3>1, DepsType, FilesAssumption
  <2>2. Request(Path[Top.mod], TRUE, FALSE, Empty) \in RequestType
    BY <2>1, NoReqType DEF Request, RequestType, NoReq
  <2> QED
    BY <1>0, <1>1, <2>2, DirectCallPaths DEF OpenMod
<1>2. CASE LoadGame
  <2>1. All(Hooks, Launcher) \in Exts /\ Game \in Names
    BY AllType, FilesAssumption, ModsAssumption
  <2>2. Request(Game, FALSE, FALSE, All(Hooks, Launcher)) \in RequestType
    BY <2>1 DEF Request, RequestType
  <2> QED
    BY <1>0, <1>2, <2>2, DirectCallPaths DEF LoadGame
<1>3. CASE \/ PopFirst \/ NextDep \/ ModDropped \/ DoneBefore \/ ScanAgain \/ RunOwnEntry
           \/ Record \/ GameLoaded \/ InitDone
  <2>1. UNCHANGED <<loading, req, cur, byName, pc>>
    BY <1>3 DEF PopFirst, NextDep, ModDropped, DoneBefore, ScanAgain, RunOwnEntry, Record,
                GameLoaded, InitDone, vars, regVars, loadVars, callVars
  <2> QED
    BY <2>1, OtherStepPaths
<1>4. CASE DropMod \/ CloseAgain \/ LookElsewhere \/ RunFoundEntry
  <2>1. /\ UNCHANGED <<loading, req, cur, byName>>
        /\ \E l \in {"close", "dlsym", "idle"} : pc' = [pc EXCEPT ![Loader] = l]
    BY <1>4 DEF DropMod, CloseAgain, LookElsewhere, RunFoundEntry, CallClose, DlsymOwn,
                DlsymGlobal, Goto, regVars, loadVars
  <2>2. \A u \in Threads : pc'[u] = "open" => pc[u] = "open"
    BY <1>0, <2>1
  <2> QED
    BY <2>1, <2>2, OtherStepPaths
<1> QED
  BY <1>1, <1>2, <1>3, <1>4

OnceInv == PathInv /\ LogInv

LEMMA OnceKept ==
    ASSUME NamesDistinct, PathsPrivate, StackOfMods, HandleInv, HandleInv', RefsCoverOwners,
           AddressInv, ModInv, OnceInv, [ModNext]_allVars
    PROVE  OnceInv'
<1>0. RegistryInv /\ RegistryInv' /\ PathInv /\ LogInv
  BY DEF HandleInv, OnceInv
<1>1. CASE UNCHANGED allVars
  <2>1. PathInv'
    BY <1>0, <1>1 DEF PathInv, PathRequests, PathLoads, allVars, vars, regVars, loadVars, callVars
  <2>2. LogInv'
    BY <1>0, <1>1 DEF LogInv, LoaderNames, Recorded, LogShape, LoggedListed, Logged, Listed, Leads,
                      CalledOncePerPass, Top, allVars, modVars, vars, regVars
  <2> QED
    BY <2>1, <2>2 DEF OnceInv
<1>2. CASE LinkerStep \/ \E t \in Threads \ {Loader} : BackgroundNext(t)
  BY <1>0, <1>2, LinkerStepLogs, BackgroundLogs DEF OnceInv
<1>3. CASE LoaderNext /\ ~LinkerStep
  <2>1. PathInv'
    BY <1>0, <1>3, LoaderPaths DEF LoaderNext
  <2>2. LogInv'
    BY <1>0, <1>3, PlainStepLogs, NewPassLogs, RecordLogs, RunLogs DEF LoaderNext
  <2> QED
    BY <2>1, <2>2 DEF OnceInv
<1> QED
  BY <1>1, <1>2, <1>3 DEF ModNext

LEMMA ModInitOnce == ModInit => OnceInv
<1> SUFFICES ASSUME ModInit PROVE OnceInv
  OBVIOUS
<1>1. /\ DOMAIN Empty = {} /\ log = <<>> /\ DOMAIN log = {} /\ loading = Empty /\ at = "scan"
      /\ \A t \in Threads : pc[t] = "idle"
  BY DEF ModInit, Init, Empty
<1>2. PathInv
  BY <1>1 DEF PathInv, PathRequests, PathLoads
<1>3. LogShape
  BY <1>1, ModsAssumption DEF ModInit, LogShape
<1> QED
  BY <1>1, <1>2, <1>3 DEF OnceInv, LogInv, LoaderNames, Recorded, LoggedListed, Logged,
                          CalledOncePerPass

LEMMA OnceInvariant ==
    ASSUME LookupClosers = {}, NamesDistinct, PathsPrivate
    PROVE  ModSpec => []OnceInv
<1>1. (/\ StackOfMods /\ HandleInv /\ HandleInv' /\ RefsCoverOwners /\ AddressInv /\ ModInv
       /\ OnceInv /\ [ModNext]_allVars) => OnceInv'
  BY OnceKept
<1> QED
  BY <1>1, ModInitOnce, ModInvariant, LoaderUsesLinker, HandlesInvariant, AddressesInvariant,
     LoaderReferencesCover, PTL DEF ModSpec

\* A mod's entry point is called at most once in each pass, however often the
\* directories name it, whatever the other threads load and whichever loads fail:
\* the path keeps the library that is in the table.
THEOREM EntriesOnce ==
    ASSUME LookupClosers = {}, NamesDistinct, PathsPrivate
    PROVE  ModSpec => []CalledOncePerPass
<1>1. OnceInv => CalledOncePerPass
  BY DEF OnceInv, LogInv
<1> QED
  BY <1>1, OnceInvariant, PTL

-----------------------------------------------------------------------------
(* Dependencies first.  The inductive invariant.                             *)

Needs(m, d) == \E k \in DOMAIN Deps(m) : Deps(m)[k] = d

\* Mods that need each other in a circle do so in pairs: along any other
\* dependency the rank falls.
Ranked(rank) ==
    /\ rank \in [Mods -> Nat]
    /\ \A m, d \in Mods : Needs(m, d) =>
          rank[d] <= rank[m] /\ (rank[d] = rank[m] => Needs(d, m))

\* The calls of load_mod_multi in s, with the files of T not taken yet: what is
\* left of a call are dependencies of its mod, a dependency still to be taken is
\* left, and each call serves a mod that the ones before it need.
Nested(s, T, rank) ==
    /\ \A k \in DOMAIN s : \A x \in DOMAIN s[k].todo : Needs(s[k].mod, s[k].todo[x])
    /\ \A k \in DOMAIN s, d \in T : Needs(s[k].mod, d) =>
          \E x \in DOMAIN s[k].todo : s[k].todo[x] = d
    /\ \A j, k \in DOMAIN s : j <= k => rank[s[k].mod] <= rank[s[j].mod]

\* d is the next dependency of the innermost call of s; the calls after it is taken
\* off that call's list; the calls with one more, for mod m.
Takes(s, d) == s # <<>> /\ s[Len(s)].todo # <<>> /\ d = Head(s[Len(s)].todo)
Advanced(s) == Append(SubSeq(s, 1, Len(s) - 1), [s[Len(s)] EXCEPT !.todo = Tail(@)])
Pushed(s, m) == Append(s, [mod |-> m, todo |-> Deps(m)])

\* No call of s serves a mod of a lower rank than d.
RanksAbove(s, rank, d) == \A k \in DOMAIN s : rank[d] <= rank[s[k].mod]

OnStack(d) == \E k \in DOMAIN stack : stack[k].mod = d

\* In this scan a mod that ran has nothing left to take, and what it needs and is
\* still on the stack needs it too.
RanAfter ==
    \A i \in DOMAIN log : log[i].pass = pass /\ log[i].scan = scans =>
        \A d \in Mods : Needs(log[i].mod, d) =>
            d \notin toLoad /\ (OnStack(d) => Needs(d, log[i].mod))

ScansCountDown == \A i \in DOMAIN log : log[i].pass = pass => log[i].scan >= scans

TopDone == at # "scan" => Top.todo = <<>>

OrderInv(rank) ==
    /\ Nested(stack, toLoad, rank)
    /\ RanAfter /\ ScansCountDown /\ TopDone /\ DependenciesFirst

-----------------------------------------------------------------------------
(* The stack of load_mod_multi.                                              *)

LEMMA NestedPart ==
    ASSUME NEW s, NEW T, NEW rank, Nested(s, T, rank), NEW U \in SUBSET T,
           NEW r, \A k \in DOMAIN r : k \in DOMAIN s /\ r[k] = s[k]
    PROVE  Nested(r, U, rank)
BY DEF Nested

\* The first dependency left is taken, or was taken before.
LEMMA NestedHead ==
    ASSUME NEW s \in Seq(LoadCalls), NEW T, NEW rank, Nested(s, T, rank),
           NEW d, Takes(s, d), NEW U \in SUBSET (T \ {d}), NEW r, r = Advanced(s)
    PROVE  /\ Nested(r, U, rank) /\ r \in Seq(LoadCalls)
           /\ Needs(s[Len(s)].mod, d)
           /\ DOMAIN r = DOMAIN s /\ \A k \in DOMAIN r : r[k].mod = s[k].mod
<1> DEFINE n == Len(s)
           top == s[n]
           todo == top.todo
           f == [top EXCEPT !.todo = Tail(@)]
<1>1. n \in Nat \ {0} /\ DOMAIN s = 1 .. n /\ n \in DOMAIN s
  BY LenProperties, EmptySeq DEF Takes
<1>2. top \in LoadCalls /\ todo \in Seq(Names)
  <2>1. \A k \in 1 .. Len(s) : s[k] \in LoadCalls
    BY ElementOfSeq
  <2>2. s[Len(s)] \in LoadCalls
    BY <1>1, <2>1
  <2> QED
    BY <2>2 DEF LoadCalls
<1>3. f.mod = top.mod /\ f.todo = Tail(todo) /\ f \in LoadCalls
  <2>1. Tail(todo) \in Seq(Names)
    <3>1. todo # <<>>
      BY DEF Takes
    <3> HIDE DEF todo
    <3> QED
      BY <1>2, <3>1, HeadTailProperties
  <2> QED
    BY <1>2, <2>1 DEF LoadCalls
<1>4. /\ SubSeq(s, 1, n - 1) \in Seq(LoadCalls) /\ Len(SubSeq(s, 1, n - 1)) = n - 1
      /\ \A k \in 1 .. (n - 1) : SubSeq(s, 1, n - 1)[k] = s[k]
  BY <1>1, SubSeqProperties, ElementOfSeq
<1>5. /\ r \in Seq(LoadCalls) /\ DOMAIN r = DOMAIN s
      /\ \A k \in 1 .. (n - 1) : r[k] = s[k]
      /\ r[n] = f
  <2> HIDE DEF f, n
  <2>1. PICK q \in Seq(LoadCalls) : q = SubSeq(s, 1, n - 1)
    BY <1>4
  <2>2. /\ Append(q, f) \in Seq(LoadCalls) /\ Len(Append(q, f)) = Len(q) + 1
        /\ \A k \in 1 .. Len(q) : Append(q, f)[k] = q[k]
        /\ Append(q, f)[Len(q) + 1] = f
    BY <1>3, <2>1, AppendProperties
  <2>3. r = Append(q, f)
    BY <2>1 DEF f, n, Advanced
  <2> QED
    BY <1>1, <1>4, <2>1, <2>2, <2>3, LenProperties
<1>6. /\ Len(todo) \in Nat \ {0} /\ DOMAIN todo = 1 .. Len(todo) /\ d = todo[1]
      /\ DOMAIN Tail(todo) = 1 .. (Len(todo) - 1)
      /\ \A x \in 1 .. (Len(todo) - 1) : Tail(todo)[x] = todo[x + 1]
  <2> HIDE DEF todo
  <2>1. todo # <<>> /\ d = Head(todo)
    BY DEF todo, Takes
  <2> QED
    BY <1>2, <2>1
<1>7. Needs(top.mod, d)
  BY <1>1, <1>6 DEF Nested
<1>8. \A k \in DOMAIN r : r[k].mod = s[k].mod
  <2> SUFFICES ASSUME NEW k \in DOMAIN r PROVE r[k].mod = s[k].mod
    OBVIOUS
  <2>1. CASE k = n
    <3>1. r[k] = f /\ s[k] = top
      BY <1>5, <2>1
    <3> HIDE DEF f, top
    <3> QED
      BY <1>3, <3>1
  <2>2. CASE k # n
    <3> HIDE DEF f, top, n
    <3> QED
      BY <1>1, <1>5, <2>2
  <2> QED
    BY <2>1, <2>2
<1>9. \A k \in DOMAIN r : \A x \in DOMAIN r[k].todo : Needs(r[k].mod, r[k].todo[x])
  <2> SUFFICES ASSUME NEW k \in DOMAIN r, NEW x \in DOMAIN r[k].todo
               PROVE  Needs(r[k].mod, r[k].todo[x])
    OBVIOUS
  <2>1. CASE k = n
    <3>1. r[k].todo = Tail(todo) /\ r[k].mod = s[n].mod
      BY <1>3, <1>5, <2>1
    <3>2. x \in 1 .. (Len(todo) - 1)
      BY <1>6, <3>1
    <3>3. r[k].todo[x] = todo[x + 1] /\ x + 1 \in DOMAIN todo
      <4> HIDE DEF todo
      <4> QED
        BY <1>6, <3>1, <3>2
    <3> QED
      BY <1>1, <3>1, <3>3 DEF Nested
  <2>2. CASE k # n
    <3>1. k \in DOMAIN s /\ r[k] = s[k]
      BY <1>1, <1>5, <2>2
    <3> QED
      BY <3>1 DEF Nested
  <2> QED
    BY <2>1, <2>2
<1>10. \A k \in DOMAIN r, e \in U : Needs(r[k].mod, e) =>
          \E x \in DOMAIN r[k].todo : r[k].todo[x] = e
  <2> SUFFICES ASSUME NEW k \in DOMAIN r, NEW e \in U, Needs(r[k].mod, e)
               PROVE  \E x \in DOMAIN r[k].todo : r[k].todo[x] = e
    OBVIOUS
  <2>1. CASE k = n
    <3>1. r[k].todo = Tail(todo) /\ r[k].mod = s[n].mod
      BY <1>3, <1>5, <2>1
    <3>2. PICK x \in DOMAIN todo : todo[x] = e
      BY <1>1, <3>1 DEF Nested
    <3>3. x # 1 /\ x \in Nat
      BY <1>6, <3>2
    <3>4. x - 1 \in 1 .. (Len(todo) - 1) /\ (x - 1) + 1 = x
      BY <1>6, <3>3
    <3>5. Tail(todo)[x - 1] = e
      BY <1>6, <3>2, <3>4
    <3> QED
      BY <1>6, <3>1, <3>4, <3>5
  <2>2. CASE k # n
    <3>1. k \in DOMAIN s /\ r[k] = s[k]
      <4> HIDE DEF n
      <4> QED
        BY <1>1, <1>5, <2>2
    <3>2. e \in T /\ Needs(s[k].mod, e)
      BY <3>1
    <3>3. PICK x \in DOMAIN s[k].todo : s[k].todo[x] = e
      <4> HIDE DEF Needs
      <4> QED
        BY <3>1, <3>2 DEF Nested
    <3> QED
      BY <3>1, <3>3
  <2> QED
    BY <2>1, <2>2
<1>11. \A j, k \in DOMAIN r : j <= k => rank[r[k].mod] <= rank[r[j].mod]
  BY <1>5, <1>8 DEF Nested
<1> QED
  BY <1>5, <1>7, <1>8, <1>9, <1>10, <1>11 DEF Nested

\* A call for a mod that the callers need.
LEMMA NestedPush ==
    ASSUME NEW r \in Seq(LoadCalls), NEW U, NEW rank, Ranked(rank), Nested(r, U, rank),
           NEW d \in Mods, RanksAbove(r, rank, d), NEW q, q = Pushed(r, d)
    PROVE  /\ Nested(q, U, rank)
           /\ \A k \in DOMAIN q : (k \in DOMAIN r /\ q[k] = r[k]) \/ q[k].mod = d
<1> DEFINE f == [mod |-> d, todo |-> Deps(d)]
           n == Len(r)
<1>1. f \in LoadCalls /\ f.mod = d /\ f.todo = Deps(d)
  BY DepsType DEF LoadCalls
<1>2. /\ n \in Nat /\ DOMAIN r = 1 .. n /\ DOMAIN q = 1 .. (n + 1)
      /\ \A k \in 1 .. n : q[k] = r[k]
      /\ q[n + 1] = f
  <2> HIDE DEF f, n
  <2>1. /\ Append(r, f) \in Seq(LoadCalls) /\ Len(Append(r, f)) = n + 1
        /\ \A k \in 1 .. n : Append(r, f)[k] = r[k]
        /\ Append(r, f)[n + 1] = f
    BY <1>1, AppendProperties DEF n
  <2>2. q = Append(r, f)
    BY DEF f, Pushed
  <2> QED
    BY <2>1, <2>2, LenProperties DEF n
<1>3. \A k \in DOMAIN q : (k \in DOMAIN r /\ q[k] = r[k]) \/ (k = n + 1 /\ q[k] = f)
  BY <1>2
<1>4. \A x \in DOMAIN Deps(d) : Needs(d, Deps(d)[x])
  BY DEF Needs
<1>5. \A e : Needs(d, e) => \E x \in DOMAIN Deps(d) : Deps(d)[x] = e
  BY DEF Needs
<1>6. \A k \in DOMAIN q : \A x \in DOMAIN q[k].todo : Needs(q[k].mod, q[k].todo[x])
  BY <1>1, <1>3, <1>4 DEF Nested
<1>7. \A k \in DOMAIN q, e \in U : Needs(q[k].mod, e) =>
          \E x \in DOMAIN q[k].todo : q[k].todo[x] = e
  BY <1>1, <1>3, <1>5 DEF Nested
<1>8. \A j, k \in DOMAIN q : j <= k => rank[q[k].mod] <= rank[q[j].mod]
  <2> SUFFICES ASSUME NEW j \in DOMAIN q, NEW k \in DOMAIN q, j <= k
               PROVE  rank[q[k].mod] <= rank[q[j].mod]
    OBVIOUS
  <2>1. rank[d] \in Nat
    BY DEF Ranked
  <2>2. CASE k = n + 1
    BY <1>1, <1>2, <1>3, <2>1, <2>2 DEF RanksAbove
  <2>3. CASE k # n + 1
    <3>1. j # n + 1
      BY <1>2, <2>3
    <3> QED
      BY <1>3, <2>3, <3>1 DEF Nested
  <2> QED
    BY <2>2, <2>3
<1> QED
  BY <1>1, <1>3, <1>6, <1>7, <1>8 DEF Nested

-----------------------------------------------------------------------------
(* Dependencies first.  The steps.                                           *)

\* Nothing runs, and the mods that join the stack were to be taken.
LEMMA NothingRuns ==
    ASSUME NEW rank, OrderInv(rank), UNCHANGED <<log, pass, scans>>, Nested(stack', toLoad', rank),
           TopDone', toLoad' \subseteq toLoad,
           \A k \in DOMAIN stack' : OnStack(stack'[k].mod) \/ stack'[k].mod \in toLoad
    PROVE  OrderInv(rank)'
<1>1. RanAfter'
  <2> SUFFICES ASSUME NEW i \in DOMAIN log, log[i].pass = pass, log[i].scan = scans,
                      NEW d \in Mods, Needs(log[i].mod, d)
               PROVE  d \notin toLoad' /\ (OnStack(d)' => Needs(d, log[i].mod))
    BY DEF RanAfter
  <2>1. d \notin toLoad /\ (OnStack(d) => Needs(d, log[i].mod))
    BY DEF OrderInv, RanAfter
  <2>2. OnStack(d)' => OnStack(d)
    BY <2>1 DEF OnStack
  <2> QED
    BY <2>1, <2>2
<1>2. ScansCountDown' /\ DependenciesFirst'
  BY DEF OrderInv, ScansCountDown, DependenciesFirst
<1> QED
  BY <1>1, <1>2 DEF OrderInv

\* A pass or a scan begins: no entry point has run in it.
LEMMA NothingRan ==
    ASSUME NEW rank, DependenciesFirst, stack' = <<>>, at' = "scan", log' = log,
           \A i \in DOMAIN log : log[i].pass = pass' => log[i].scan > scans' /\ log[i].scan \in Nat,
           scans' \in Nat
    PROVE  OrderInv(rank)'
<1>1. DOMAIN stack' = {}
  OBVIOUS
<1>2. \A i \in DOMAIN log' : log'[i].pass = pass' => log'[i].scan >= scans' /\ log'[i].scan # scans'
  OBVIOUS
<1>3. Nested(stack', toLoad', rank)
  BY <1>1 DEF Nested
<1>4. RanAfter' /\ ScansCountDown' /\ TopDone'
  BY <1>2 DEF RanAfter, ScansCountDown, TopDone
<1>5. DependenciesFirst'
  <2> SUFFICES ASSUME NEW i \in DOMAIN log', NEW j \in DOMAIN log', i < j,
                      log'[i].pass = log'[j].pass, log'[i].scan = log'[j].scan,
                      Needs(log'[i].mod, log'[j].mod)
               PROVE  Needs(log'[j].mod, log'[i].mod)
    BY DEF DependenciesFirst, Needs
  <2> QED
    BY DEF DependenciesFirst, Needs
<1> QED
  BY <1>3, <1>4, <1>5 DEF OrderInv

LEMMA PopFirstOrder ==
    ASSUME NEW rank, Ranked(rank), StackOfMods, OrderInv(rank), PopFirst
    PROVE  OrderInv(rank)'
<1>1. PICK m \in toLoad : Enter(m, <<>>) /\ toLoad' = Popped(m)
  BY DEF PopFirst
<1>2. /\ stack = <<>> /\ m \in Mods /\ toLoad' \subseteq toLoad /\ at' = "scan"
      /\ UNCHANGED <<log, pass, scans>>
  BY <1>1 DEF PopFirst, StackOfMods, Popped, Scanning
<1>3. PICK r \in Seq(LoadCalls) : r = <<>>
  BY EmptySeq
<1>4. Nested(r, toLoad', rank) /\ DOMAIN r = {}
  BY <1>3 DEF Nested
<1>5. /\ Nested(stack', toLoad', rank)
      /\ \A k \in DOMAIN stack' : stack'[k].mod = m
  <2>1. CASE stack' = <<>>
    BY <1>3, <1>4, <2>1
  <2>2. CASE stack' = Pushed(r, m)
    <3>1. PICK q : q = Pushed(r, m)
      OBVIOUS
    <3>2. PICK U : U = toLoad'
      OBVIOUS
    <3>3. Nested(r, U, rank) /\ m \in Mods /\ RanksAbove(r, rank, m)
      BY <1>2, <1>4, <3>2 DEF RanksAbove
    <3>4. /\ Nested(q, U, rank)
          /\ \A k \in DOMAIN q : (k \in DOMAIN r /\ q[k] = r[k]) \/ q[k].mod = m
      BY <3>1, <3>3, NestedPush
    <3> QED
      BY <1>4, <2>2, <3>1, <3>2, <3>4
  <2> QED
    BY <1>1, <1>3, <2>1, <2>2 DEF Enter, Pushed
<1> QED
  BY <1>1, <1>2, <1>5, NothingRuns DEF TopDone

LEMMA NextDepOrder ==
    ASSUME NEW rank, Ranked(rank), StackOfMods, OrderInv(rank), NextDep
    PROVE  OrderInv(rank)'
<1> DEFINE d == Head(Top.todo)
           callers == Append(Below, [Top EXCEPT !.todo = Tail(@)])
<1>1. /\ stack # <<>> /\ stack \in Seq(LoadCalls) /\ Top.todo # <<>> /\ Top = stack[Len(stack)]
      /\ Nested(stack, toLoad, rank)
      /\ at' = "scan" /\ UNCHANGED <<log, pass, scans>>
      /\ \/ d \in toLoad /\ toLoad' = toLoad \ {d} /\ Enter(d, callers)
         \/ d \notin toLoad /\ stack' = callers /\ toLoad' = toLoad
  BY DEF NextDep, StackOfMods, OrderInv, Top, Pending, Scanning
<1>2. toLoad' \in SUBSET (toLoad \ {d})
  BY <1>1
<1>3. callers = Advanced(stack)
  BY DEF Below, Top, Advanced
<1> HIDE DEF d, callers
<1>4. PICK e : e = d
  OBVIOUS
<1>5. PICK r : r = callers
  OBVIOUS
<1>6. Takes(stack, e)
  BY <1>1, <1>4 DEF d, Takes
<1>7. r = Advanced(stack)
  BY <1>3, <1>5
<1>8. /\ Nested(r, toLoad', rank) /\ r \in Seq(LoadCalls) /\ Needs(Top.mod, e)
      /\ DOMAIN r = DOMAIN stack /\ \A k \in DOMAIN r : r[k].mod = stack[k].mod
  <2>2. PICK s, T, U : s = stack /\ T = toLoad /\ U = toLoad'
    OBVIOUS
  <2>3. /\ s \in Seq(LoadCalls) /\ Nested(s, T, rank) /\ Takes(s, e)
        /\ U \in SUBSET (T \ {e}) /\ r = Advanced(s)
    BY <1>1, <1>2, <1>4, <1>6, <1>7, <2>2
  <2>4. /\ Nested(r, U, rank) /\ r \in Seq(LoadCalls) /\ Needs(s[Len(s)].mod, e)
        /\ DOMAIN r = DOMAIN s /\ \A k \in DOMAIN r : r[k].mod = s[k].mod
    BY <2>3, NestedHead
  <2> QED
    BY <1>1, <2>2, <2>4
<1>9. \A k \in DOMAIN r : OnStack(r[k].mod)
  BY <1>8 DEF OnStack
<1>10. CASE stack' = r
  BY <1>1, <1>2, <1>8, <1>9, <1>10, NothingRuns DEF TopDone
<1>11. CASE stack' = <<>>
  <2>1. Nested(stack', toLoad', rank) /\ DOMAIN stack' = {}
    BY <1>11 DEF Nested
  <2> QED
    BY <1>1, <1>2, <2>1, NothingRuns DEF TopDone
<1>12. CASE e \in toLoad /\ stack' = Pushed(r, e)
  <2>1. e \in Mods /\ Top.mod \in Mods /\ \A k \in DOMAIN r : r[k].mod \in Mods
    <3>1. Top \in LoadCalls /\ \A k \in DOMAIN r : r[k] \in LoadCalls
      BY <1>1, <1>8, TopType, ElementOfSeq, LenProperties
    <3> QED
      BY <1>12, <3>1 DEF StackOfMods, LoadCalls
  <2>2. /\ Len(stack) \in DOMAIN stack /\ DOMAIN stack = 1 .. Len(stack)
    BY <1>1, LenProperties, EmptySeq
  <2>3. \A k \in DOMAIN r : rank[Top.mod] <= rank[r[k].mod]
    BY <1>1, <1>8, <2>2 DEF Nested
  <2>4. rank[e] <= rank[Top.mod]
    BY <1>8, <2>1 DEF Ranked
  <2>5. rank[e] \in Nat /\ rank[Top.mod] \in Nat /\ \A k \in DOMAIN r : rank[r[k].mod] \in Nat
    BY <2>1 DEF Ranked
  <2>6. RanksAbove(r, rank, e)
    BY <2>3, <2>4, <2>5 DEF RanksAbove
  <2>7. /\ Nested(stack', toLoad', rank)
        /\ \A k \in DOMAIN stack' : (k \in DOMAIN r /\ stack'[k] = r[k]) \/ stack'[k].mod = e
    <3>1. PICK q : q = Pushed(r, e)
      OBVIOUS
    <3>2. PICK U : U = toLoad'
      OBVIOUS
    <3>3. Nested(r, U, rank) /\ r \in Seq(LoadCalls) /\ e \in Mods
      BY <1>8, <2>1, <3>2
    <3>4. /\ Nested(q, U, rank)
          /\ \A k \in DOMAIN q : (k \in DOMAIN r /\ q[k] = r[k]) \/ q[k].mod = e
      BY <2>6, <3>1, <3>3, NestedPush
    <3> QED
      BY <1>12, <3>1, <3>2, <3>4
  <2>8. \A k \in DOMAIN stack' : OnStack(stack'[k].mod) \/ stack'[k].mod \in toLoad
    BY <1>9, <1>12, <2>7
  <2> QED
    BY <1>1, <1>2, <2>7, <2>8, NothingRuns DEF TopDone
<1> QED
  BY <1>1, <1>4, <1>5, <1>10, <1>11, <1>12 DEF Enter, Pushed

\* A step inside load_mod, of another thread, or one that leaves the mod.
LEMMA QuietOrder ==
    ASSUME NEW rank, StackOfMods, ModInv, OrderInv(rank),
           \/ OpenMod \/ LinkerStep \/ DropMod \/ CloseAgain \/ Record \/ LookElsewhere
           \/ \E t \in Threads \ {Loader} : BackgroundNext(t)
    PROVE  OrderInv(rank)'
<1>1. /\ UNCHANGED <<log, pass, scans, stack, toLoad>>
      /\ at' # "scan" => at # "scan" \/ Top.todo = <<>>
  BY DEF OpenMod, LinkerStep, DropMod, CloseAgain, Record, LookElsewhere, BackgroundNext, modVars
<1>2. TopDone'
  BY <1>1 DEF OrderInv, TopDone, Top
<1>3. \A k \in DOMAIN stack' : OnStack(stack'[k].mod)
  BY <1>1 DEF OnStack
<1> QED
  BY <1>1, <1>2, <1>3, NothingRuns DEF OrderInv

\* The calls that are left when load_mod returns.
LEMMA LeaveOrder ==
    ASSUME NEW rank, StackOfMods, stack # <<>>, OrderInv(rank), Leave, toLoad' = toLoad
    PROVE  /\ Nested(stack', toLoad', rank) /\ TopDone'
           /\ \A k \in DOMAIN stack' : k \in DOMAIN stack /\ stack'[k] = stack[k]
<1>1. /\ Len(stack) \in Nat \ {0} /\ DOMAIN stack = 1 .. Len(stack)
      /\ \A k \in 1 .. Len(stack) : stack[k] \in LoadCalls
  BY LenProperties, EmptySeq, ElementOfSeq DEF StackOfMods
<1>2. /\ DOMAIN stack' = 1 .. (Len(stack) - 1)
      /\ \A k \in 1 .. (Len(stack) - 1) : stack'[k] = stack[k]
  BY <1>1, SubSeqProperties, LenProperties DEF Leave, Below, StackOfMods
<1>3. \A k \in DOMAIN stack' : k \in DOMAIN stack /\ stack'[k] = stack[k]
  BY <1>1, <1>2
<1> QED
  BY <1>3, NestedPart DEF OrderInv, Leave, TopDone

\* What runs has taken the mods it needs, and those still on the stack need it.
LEMMA RunOrder ==
    ASSUME NEW rank, Ranked(rank), StackOfMods, at # "scan", stack # <<>>, LogShape, OrderInv(rank),
           NEW image, Run(image), Leave, UNCHANGED <<pass, scans, toLoad>>
    PROVE  OrderInv(rank)'
<1> DEFINE x == [mod |-> Top.mod, pass |-> pass, scan |-> scans, image |-> image]
           n == Len(stack)
<1>1. /\ Len(log) \in Nat /\ DOMAIN log = 1 .. Len(log)
      /\ DOMAIN log' = 1 .. (Len(log) + 1)
      /\ \A i \in 1 .. Len(log) : log'[i] = log[i]
      /\ log'[Len(log) + 1] = x
  BY DEF Run, LogShape
<1>2. /\ x.mod = Top.mod /\ x.pass = pass /\ x.scan = scans
  OBVIOUS
<1> HIDE DEF x
<1>3. \A i \in DOMAIN log' : (i \in DOMAIN log /\ log'[i] = log[i]) \/ (i = Len(log) + 1 /\ log'[i] = x)
  BY <1>1
<1>4. /\ n \in DOMAIN stack /\ DOMAIN stack = 1 .. n /\ n \in Nat /\ Top = stack[n]
      /\ \A k \in DOMAIN stack : stack[k] \in LoadCalls
  BY LenProperties, EmptySeq, ElementOfSeq DEF StackOfMods, Top
<1>5. Top.mod \in Mods /\ \A k \in DOMAIN stack : stack[k].mod \in Mods
  BY <1>4 DEF LoadCalls
<1>6. ASSUME NEW d \in Mods, Needs(Top.mod, d)
      PROVE  d \notin toLoad /\ (OnStack(d) => Needs(d, Top.mod))
  <2>1. Top.todo = <<>> /\ DOMAIN Top.todo = {}
    BY DEF OrderInv, TopDone
  <2>2. d \notin toLoad
    BY <1>4, <1>6, <2>1 DEF OrderInv, Nested
  <2>3. ASSUME NEW k \in DOMAIN stack, stack[k].mod = d
        PROVE  Needs(d, Top.mod)
    <3>1. rank[Top.mod] <= rank[d]
      BY <1>4, <2>3 DEF OrderInv, Nested
    <3>2. rank[d] <= rank[Top.mod] /\ (rank[d] = rank[Top.mod] => Needs(d, Top.mod))
      BY <1>5, <1>6 DEF Ranked
    <3>3. rank[d] \in Nat /\ rank[Top.mod] \in Nat
      BY <1>5 DEF Ranked
    <3> QED
      BY <3>1, <3>2, <3>3
  <2> QED
    BY <2>2, <2>3 DEF OnStack
<1>7. /\ Nested(stack', toLoad', rank) /\ TopDone'
      /\ \A k \in DOMAIN stack' : k \in DOMAIN stack /\ stack'[k] = stack[k]
  BY LeaveOrder
<1>8. \A d : OnStack(d)' => OnStack(d)
  BY <1>7 DEF OnStack
<1>9. RanAfter'
  <2> SUFFICES ASSUME NEW i \in DOMAIN log', log'[i].pass = pass, log'[i].scan = scans,
                      NEW d \in Mods, Needs(log'[i].mod, d)
               PROVE  d \notin toLoad /\ (OnStack(d)' => Needs(d, log'[i].mod))
    BY DEF RanAfter
  <2>1. CASE i \in DOMAIN log /\ log'[i] = log[i]
    BY <1>8, <2>1 DEF OrderInv, RanAfter
  <2>2. CASE log'[i] = x
    BY <1>2, <1>6, <1>8, <2>2
  <2> QED
    BY <1>3, <2>1, <2>2
<1>10. ScansCountDown'
  BY <1>2, <1>3 DEF OrderInv, ScansCountDown, LogShape
<1>11. DependenciesFirst'
  <2> SUFFICES ASSUME NEW i \in DOMAIN log', NEW j \in DOMAIN log', i < j,
                      log'[i].pass = log'[j].pass, log'[i].scan = log'[j].scan,
                      Needs(log'[i].mod, log'[j].mod)
               PROVE  Needs(log'[j].mod, log'[i].mod)
    BY DEF DependenciesFirst, Needs
  <2>1. i \in DOMAIN log /\ log'[i] = log[i]
    BY <1>1
  <2>2. CASE j \in DOMAIN log /\ log'[j] = log[j]
    BY <2>1, <2>2 DEF OrderInv, DependenciesFirst, Needs
  <2>3. CASE log'[j] = x
    <3>1. OnStack(Top.mod)
      BY <1>4 DEF OnStack
    <3> QED
      BY <1>2, <1>5, <2>1, <2>3, <3>1 DEF OrderInv, RanAfter
  <2> QED
    BY <1>3, <2>2, <2>3
<1> QED
  BY <1>7, <1>9, <1>10, <1>11 DEF OrderInv

LEMMA OrderKept ==
    ASSUME NEW rank, Ranked(rank), StackOfMods, ModInv, OnceInv, OrderInv(rank), [ModNext]_allVars
    PROVE  OrderInv(rank)'
<1>1. CASE UNCHANGED allVars
  <2>1. UNCHANGED <<stack, toLoad, log, pass, scans, at>>
    BY <1>1 DEF allVars, modVars
  <2>2. \A k \in DOMAIN stack' : OnStack(stack'[k].mod)
    BY <2>1 DEF OnStack
  <2>3. TopDone'
    BY <2>1 DEF OrderInv, TopDone, Top
  <2> QED
    BY <2>1, <2>2, <2>3, NothingRuns DEF OrderInv
<1>2. CASE ModDropped \/ DoneBefore \/ RunOwnEntry \/ RunFoundEntry
  <2>1. /\ Leave /\ at # "scan" /\ stack # <<>> /\ LogShape /\ UNCHANGED <<pass, scans, toLoad>>
        /\ log' = log \/ \E image : Run(image)
    BY <1>2 DEF ModDropped, DoneBefore, RunOwnEntry, RunFoundEntry, ModInv, ControlInv, LoaderPlace,
                OnceInv, LogInv
  <2>2. /\ Nested(stack', toLoad', rank) /\ TopDone'
        /\ \A k \in DOMAIN stack' : k \in DOMAIN stack /\ stack'[k] = stack[k]
    BY <2>1, LeaveOrder
  <2>3. CASE log' = log
    BY <2>1, <2>2, <2>3, NothingRuns DEF OnStack
  <2> QED
    BY <2>1, <2>3, RunOrder
<1>3. CASE ScanAgain \/ LoadGame \/ GameLoaded \/ InitDone
  <2>1. /\ stack' = <<>> /\ at' = "scan" /\ log' = log /\ DependenciesFirst
    BY <1>3 DEF ScanAgain, LoadGame, GameLoaded, InitDone, PassOver, Scanning, ModInv, ControlInv,
                LoaderPlace, OrderInv
  <2>2. /\ \A i \in DOMAIN log : log[i].pass \in {"preinit", "init"} /\ log[i].scan \in Nat
        /\ pass \in {"preinit", "game"} => \A i \in DOMAIN log : log[i].pass = "preinit"
        /\ scans \in Nat
    <3>1. \A i \in DOMAIN log : log[i] \in LogEntries
      BY DEF OnceInv, LogInv, LogShape
    <3> QED
      BY <3>1 DEF OnceInv, LogInv, LogShape, LogEntries
  <2>3. /\ scans' \in Nat
        /\ \A i \in DOMAIN log : log[i].pass = pass' => log[i].scan > scans'
    <3>1. CASE ScanAgain
      <4>1. pass' = pass /\ scans' = scans - 1 /\ scans > 0
        BY <3>1 DEF ScanAgain
      <4> QED
        BY <2>2, <4>1 DEF OrderInv, ScansCountDown
    <3>2. CASE LoadGame
      BY <2>2, <3>2 DEF LoadGame
    <3>3. CASE GameLoaded
      <4>1. scans' \in Nat
        BY <3>3, ModsAssumption DEF GameLoaded
      <4> QED
        BY <2>2, <3>3, <4>1 DEF GameLoaded
    <3>4. CASE InitDone
      BY <2>2, <3>4 DEF InitDone
    <3> QED
      BY <1>3, <3>1, <3>2, <3>3, <3>4
  <2> QED
    BY <2>1, <2>2, <2>3, NothingRan
<1> QED
  BY <1>1, <1>2, <1>3, PopFirstOrder, NextDepOrder, QuietOrder DEF ModNext, LoaderNext

LEMMA ModInitOrder ==
    ASSUME NEW rank
    PROVE  ModInit => OrderInv(rank)
<1> SUFFICES ASSUME ModInit PROVE OrderInv(rank)
  OBVIOUS
<1>1. DOMAIN log = {} /\ DOMAIN stack = {} /\ at = "scan"
  BY DEF ModInit
<1> QED
  BY <1>1 DEF OrderInv, Nested, RanAfter, ScansCountDown, TopDone, DependenciesFirst

\* A pass calls each entry point once at most and, in one scan, that of a mod after
\* those of the mods it needs, unless the two need each other.  Mods that need each
\* other in a longer circle have no such order: of three, the last one taken needs
\* the first one, which runs after it.
THEOREM PassesStaySound ==
    ASSUME LookupClosers = {}, NamesDistinct, PathsPrivate, NEW rank, Ranked(rank)
    PROVE  ModSpec => []PassesSound
<1>1. (StackOfMods /\ ModInv /\ OnceInv /\ OrderInv(rank) /\ [ModNext]_allVars) => OrderInv(rank)'
  BY OrderKept
<1>2. ModInit => OrderInv(rank)
  BY ModInitOrder
<1>3. ModSpec => []OrderInv(rank)
  BY <1>1, <1>2, ModInvariant, OnceInvariant, PTL DEF ModSpec
<1>4. OnceInv /\ OrderInv(rank) => PassesSound
  BY DEF OnceInv, LogInv, OrderInv, PassesSound
<1> QED
  BY <1>3, <1>4, OnceInvariant, PTL
=============================================================================
