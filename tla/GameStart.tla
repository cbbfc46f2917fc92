------------------------------ MODULE GameStart ------------------------------
(***************************************************************************)
(* From the command line to a running game and back: main() registers the *)
(* libraries the game is bound to, loads the game with the launcher's and  *)
(* the mods' hooks, and hands over to two threads - the helper that calls  *)
(* GameActivity_onCreate and the life-cycle callbacks, and the main thread *)
(* that runs the game's own first thread and its event loop.               *)
(***************************************************************************)
EXTENDS Naturals, Sequences, SequencesExt, FiniteSets

CONSTANTS
    Runs,          \* what the command line, the disk and the mods may be like
    HookNames,     \* symbols mods ask to hook before the game is loaded
    PreinitMods,   \* mods that ask, each with one replacement function
    PreinitRoom,   \* MAX_PREINIT, the room for their hooks
    MaxPreinit,    \* bound: calls of mcpelauncher_preinithook
    GameNatives    \* native methods the game library exports

VARIABLES
    stage,         \* how far main() is
    run,           \* what the command line and the disk are like
    moved,         \* the working directory is the data directory now
    libs,          \* library -> what its names are bound to
    preinit,       \* symbol -> the mod's function and where its original goes
    relocated,     \* symbol -> what the game's references to it were bound to
    slots,         \* where a mod asked for its original -> what it was given
    jni,       \* JniSupport and the global that should own it
    natives,       \* native methods registered for the game's classes
    helper,        \* the thread that starts the game
    given,         \* the window the helper passes to the game
    gameThread,    \* the game's first thread, run by the main thread
    life,          \* what the game has received -> what it had received before that
    quits          \* threads of request_exit_game that have not run yet

startVars == <<stage, run, moved, libs, preinit, relocated, slots, jni,
               natives, helper, given, gameThread, life, quits>>
loadVars == <<run, moved, libs, preinit, relocated, slots, natives>>
hostVars == <<jni, natives, helper, given, gameThread, life, quits>>

-----------------------------------------------------------------------------
Libraries == {"c", "m", "z", "mod", "c++", "stdc++", "GLES", "EGL", "log", "android",
              "aaudio", "gamewindow", "fmod", "pairip", "sqlite", "game"}

\* Every name the game imports must have a provider when it is relocated.
BoundNow == {"c", "m", "z", "mod", "stdc++", "GLES", "EGL", "log", "android", "gamewindow"}

\* Registering a name that is known already changes nothing but its count.
Register(kinds) == [l \in Libraries |-> IF l \in DOMAIN kinds /\ libs[l] = "absent" THEN kinds[l] ELSE libs[l]]

\* Mutant: a library that is registered keeps the functions it came with.
KeepsItsOwn(kinds) == Register(kinds)
\* Its functions are put over those of a library that is there.
Bind(kinds) == [l \in Libraries |-> IF l \in DOMAIN kinds THEN kinds[l] ELSE libs[l]]

\* A relative --game-dir no longer leads to the game after the chdir.
Reachable(l) == l \notin run.missing /\ ~(run.relative /\ moved)

\* PathHelper's places for a file of the launcher, in the order they are tried.
DataPlaces(overridden) ==
    (IF overridden THEN <<"data">> ELSE <<"app", "home">>) \o <<"runtime", "controllers", "xdg", "share">>

FoundData(holder, overridden) == holder \in Range(DataPlaces(overridden))

-----------------------------------------------------------------------------
NoSupport == [made |-> FALSE, shared |-> FALSE, known |-> FALSE, activity |-> FALSE, window |-> "null",
              looper |-> FALSE, text |-> FALSE, exit |-> FALSE]

StartInit ==
    /\ stage = "arguments"
    /\ run = [smoke |-> FALSE, relative |-> FALSE, missing |-> {}, quiet |-> FALSE, overridden |-> FALSE,
              holder |-> "none", asks |-> {}]
    /\ moved = FALSE
    /\ libs = [l \in Libraries |-> "absent"]
    /\ preinit = << >> /\ relocated = << >> /\ slots = << >>
    /\ jni = NoSupport
    /\ natives = {}
    /\ helper = "none" /\ given = "null" /\ gameThread = "none"
    /\ life = << >>
    /\ quits = 0

ParseArguments(r) ==
    /\ stage = "arguments"
    /\ stage' = "paths"
    /\ run' = r
    /\ UNCHANGED <<moved, libs, preinit, relocated, slots, hostVars>>

\* The chdir to the data directory may fail; the launcher only warns.
SetupPaths(ok) ==
    /\ stage = "paths"
    /\ stage' = "core"
    /\ moved' = ok
    /\ UNCHANGED <<run, libs, preinit, relocated, slots, hostVars>>

\* linker::init() drops what main() registered before it.
LoadCoreLibraries ==
    /\ stage = "core"
    /\ stage' = "hooks"
    /\ libs' = Register([l \in {"c", "mod", "log", "GLES", "stdc++", "gamewindow"}
                                 \cup IF run.smoke THEN {} ELSE {"m", "z"} |->
                         IF l = "GLES" THEN "dead" ELSE IF l \in {"stdc++", "gamewindow"} THEN "empty" ELSE "full"])
    /\ UNCHANGED <<run, moved, preinit, relocated, slots, hostVars>>

SetupAndroidHooks ==
    /\ stage = "hooks"
    /\ stage' = "window"
    /\ libs' = Bind([l \in {"gamewindow", "android", "aaudio"} |-> "full"])
    /\ UNCHANGED <<run, moved, preinit, relocated, slots, hostVars>>

\* The window first, then FakeEGL, then the driver's functions replace the stubs.
CreateWindow ==
    /\ stage = "window"
    /\ stage' = IF run.smoke THEN "held" ELSE "preinit"
    /\ libs' = Bind([l \in {"EGL", "GLES"} |-> "full"])
    /\ UNCHANGED <<run, moved, preinit, relocated, slots, hostVars>>

SmokeEnds == stage = "held" /\ stage' = "exited" /\ UNCHANGED <<loadVars, jni, helper, given, gameThread, life, quits>>

-----------------------------------------------------------------------------
\* Mods ask while they are constructed in the preinit pass (later nobody looks);
\* a second request for a symbol replaces the first.
Asked(name, mod, slotted) == [x \in DOMAIN preinit \cup {name} |->
    IF x = name THEN [value |-> mod, slot |-> slotted] ELSE preinit[x]]

PreinitHook(name, mod, slotted) ==
    /\ stage = "preinit"
    /\ mod \in run.asks /\ \A x \in DOMAIN preinit : preinit[x].value # mod
    /\ Cardinality(DOMAIN preinit) < MaxPreinit \/ name \in DOMAIN preinit
    /\ preinit' = Asked(name, mod, slotted)
    /\ UNCHANGED <<stage, run, moved, libs, relocated, slots, hostVars>>

ModsPreinitialised == stage = "preinit" /\ stage' = "runtime" /\ UNCHANGED <<loadVars, jni, helper, given, gameThread, life, quits>>

LoadRuntime ==
    /\ stage = "runtime"
    /\ stage' = "fmod"
    /\ libs' = IF Reachable("c++") THEN Bind([l \in {"c++", "stdc++"} |-> "full"]) ELSE libs
    /\ UNCHANGED <<run, moved, preinit, relocated, slots, hostVars>>

LoadFmod ==
    /\ stage = "fmod"
    /\ stage' = "integrity"
    /\ libs' = IF Reachable("fmod") THEN Bind([l \in {"fmod"} |-> "full"]) ELSE libs
    /\ UNCHANGED <<run, moved, preinit, relocated, slots, hostVars>>

\* libsqliteX is loaded only beside libpairipcore and with telemetry left on.
LoadIntegrity ==
    /\ stage = "integrity"
    /\ stage' = "load"
    /\ libs' = Bind([l \in {l \in {"pairip", "sqlite"} :
                        IF l = "pairip" THEN Reachable("pairip")
                        ELSE /\ ~run.quiet /\ Reachable("pairip")
                             /\ Reachable("sqlite") \/ FoundData(run.holder, run.overridden)} |-> "full"])
    /\ UNCHANGED <<run, moved, preinit, relocated, slots, hostVars>>

\* The launcher's own hooks, around those of the mods; the last of a name counts.
HookList(mods) ==
    <<<<"swappy", "launcher">>>> \o mods
    \o <<<<"pointer", "launcher">>, <<"GameActivity_finish", "launcher">>>>
    \o (IF libs["c++"] = "full" THEN <<<<"__cxa_throw", "launcher">>>> ELSE << >>)
    \o (IF libs["fmod"] = "full" THEN <<<<"fmod", "launcher">>>> ELSE << >>)
    \o <<<<"ifaddrs", "launcher">>>>
    \o (IF run.quiet THEN <<<<"telemetry", "launcher">>>> ELSE << >>)

LastOf(list, name) == list[SelectLastInSeq(list, LAMBDA h : h[1] = name)][2]

\* What the callback of a mod is told about the symbol it hooked.
Original(list, name) == LastOf(list, name)

FinalizeLoad(list) ==
    [x \in {x \in DOMAIN preinit : preinit[x].slot /\ \E i \in DOMAIN list : list[i][1] = x} |-> Original(list, x)]

LoadGame ==
    /\ stage = "load"
    /\ \/ /\ Reachable("game")
          /\ \E chosen \in {s \in SUBSET DOMAIN preinit : Cardinality(s) <= PreinitRoom
                                /\ (Cardinality(DOMAIN preinit) <= PreinitRoom => s = DOMAIN preinit)
                                /\ (Cardinality(DOMAIN preinit) > PreinitRoom => Cardinality(s) = PreinitRoom)} :
                LET list == HookList([i \in 1..Cardinality(chosen) |->
                                <<SetToSeq(chosen)[i], preinit[SetToSeq(chosen)[i]].value>>])
                IN  /\ relocated' = [x \in {list[i][1] : i \in DOMAIN list} |-> LastOf(list, x)]
                    /\ slots' = FinalizeLoad(list)
          /\ libs' = Bind([l \in {"game"} |-> "full"])
          /\ stage' = "mods"
       \/ /\ ~Reachable("game")
          /\ stage' = "exited"
          /\ UNCHANGED <<libs, relocated, slots>>
    /\ UNCHANGED <<run, moved, preinit, hostVars>>

-----------------------------------------------------------------------------
ModsInitialised == stage = "mods" /\ stage' = "jni" /\ UNCHANGED <<loadVars, jni, helper, given, gameThread, life, quits>>

\* The box goes into the global and is taken out again before the caller gets its pointer.
NewSupport == [NoSupport EXCEPT !.made = TRUE, !.shared = FALSE]

JniSupportNew ==
    /\ stage = "jni"
    /\ stage' = "natives"
    /\ jni' = [NewSupport EXCEPT !.known = TRUE]
    /\ UNCHANGED <<loadVars, helper, given, gameThread, life, quits>>

\* Natives the game does not export are skipped.
RegisterNatives ==
    /\ stage = "natives"
    /\ stage' = "main"
    /\ natives' = GameNatives
    /\ helper' = "activity"
    /\ UNCHANGED <<run, moved, libs, preinit, relocated, slots, jni, given, gameThread, life, quits>>

-----------------------------------------------------------------------------
HelperGoes(from, to) == helper = from /\ helper' = to /\ UNCHANGED <<stage, loadVars, quits>>

\* What comes before c, if c comes for the first time.
Before(calls, c) == DOMAIN life \cup {calls[i] : i \in {i \in DOMAIN calls : \A j \in 1..i : calls[j] # c}}

Receives(calls) ==
    life' = [c \in DOMAIN life \cup Range(calls) |-> IF c \in DOMAIN life THEN life[c] ELSE Before(calls, c)]

CallsNative(n) == IF n \in natives THEN Receives(<<n>>) ELSE life' = life

\* GameActivity, its callbacks and the asset manager exist before the game runs.
StartGame ==
    /\ HelperGoes("activity", "attach")
    /\ jni' = [jni EXCEPT !.activity = TRUE]
    /\ UNCHANGED <<given, gameThread, life>>

\* The game's constructors, which need the VM, and JNI_OnLoad of three libraries.
AttachLibraries ==
    /\ HelperGoes("attach", "create")
    /\ Receives(IF libs["fmod"] = "full" THEN <<"constructors", "fmodOnLoad", "OnLoad">> ELSE <<"constructors", "OnLoad">>)
    /\ UNCHANGED <<jni, given, gameThread>>

\* onCreate sets the callbacks, starts the game's thread - captured for main - and waits for it.
GameOnCreate ==
    /\ HelperGoes("create", "waits")
    /\ Receives(<<"create">>)
    /\ gameThread' = "captured"
    /\ UNCHANGED <<jni, given>>

\* onCreate returns; only now is the window of the looper read.
GameCreated ==
    /\ gameThread = "running"
    /\ HelperGoes("waits", "start")
    /\ given' = jni.window
    /\ UNCHANGED <<jni, gameThread, life>>

OnStart == HelperGoes("start", "window") /\ Receives(<<"start">>) /\ UNCHANGED <<jni, given, gameThread>>

OnNativeWindowCreated ==
    /\ HelperGoes("window", "network")
    /\ Receives(<<"window">>)
    /\ UNCHANGED <<jni, given, gameThread>>

UpdateNetworkStatus ==
    /\ HelperGoes("network", "text")
    /\ CallsNative("nativeUpdateNetworkStatus")
    /\ UNCHANGED <<jni, given, gameThread>>

\* Until the handler exists text of the keyboard goes nowhere.
InstallTextHandler ==
    /\ HelperGoes("text", "done")
    /\ jni' = [jni EXCEPT !.text = TRUE]
    /\ UNCHANGED <<given, gameThread, life>>

-----------------------------------------------------------------------------
MainUnchanged == UNCHANGED <<stage, loadVars, helper, given>>

\* Mutant: the looper is set up before it knows the JniSupport.
ToldNobody(s) == s

\* The launcher's window exists since CreateWindow.
Told(s) == [s EXCEPT !.window = "token", !.looper = TRUE]

ExecuteMainThread == stage = "main" /\ gameThread = "captured" /\ gameThread' = "entered" /\ MainUnchanged /\ UNCHANGED <<jni, life, quits>>

PrepareGame ==
    /\ gameThread = "entered"
    /\ gameThread' = "prepared"
    /\ jni' = IF jni.known THEN Told(jni) ELSE jni
    /\ MainUnchanged /\ UNCHANGED <<life, quits>>

\* The game's glue lets onCreate return once its thread has a looper.
GlueRunning == gameThread = "prepared" /\ gameThread' = "running" /\ MainUnchanged /\ UNCHANGED <<jni, life, quits>>

Looping == gameThread = "running" /\ MainUnchanged /\ UNCHANGED <<jni, gameThread, quits>>

\* send_key_down, send_key_up and send_motion_event need the activity only.
SendMotionEvent == Looping /\ jni.activity /\ Receives(<<"touch">>)

WindowResized == Looping /\ jni.activity /\ CallsNative("nativeResize")

ControllerConnected(n) == Looping /\ n \in {"onInputDeviceAddedNative", "onInputDeviceRemovedNative"} /\ CallsNative(n)

SetTextboxText == Looping /\ jni.text /\ CallsNative("nativeSetTextboxText")

\* The game of this build exports no nativeCaretPosition.
CaretPosition ==
    /\ Looping /\ jni.text
    /\ \/ "nativeCaretPosition" \in natives /\ CallsNative("nativeCaretPosition")
       \/ "nativeCaretPosition" \notin natives /\ CallsNative("nativeSetTextboxText")

ReturnKey == Looping /\ jni.activity /\ CallsNative("nativeReturnKeyPressed")

\* A dropped file is copied and announced when its extension is known and its path has no '&'.
ImportFile(known, plain, copied) ==
    /\ Looping
    /\ known /\ plain /\ copied
    /\ CallsNative("nativeProcessIntentUriQuery")

-----------------------------------------------------------------------------
\* GameActivity_finish is hooked: the exit is flagged and a thread is to stop the game.
GameFinish ==
    /\ gameThread = "running" /\ jni.known /\ ~jni.exit
    /\ relocated["GameActivity_finish"] = "launcher"
    /\ jni' = [jni EXCEPT !.exit = TRUE]
    /\ quits' = quits + 1
    /\ MainUnchanged /\ UNCHANGED <<gameThread, life>>

Stopping == <<"pause", "stop", "destroy">>

\* The thread finds its JniSupport in the global, and there is none.
StopGame ==
    /\ quits > 0
    /\ quits' = quits - 1
    /\ \/ /\ jni.shared
          /\ jni' = [jni EXCEPT !.looper = FALSE]
          /\ Receives(SelectSeq(<<"nativeStopThis", "nativeUnregisterThis", "nativeOnDestroy">>,
                                LAMBDA n : n \in natives) \o Stopping)
       \/ ~jni.shared /\ UNCHANGED <<jni, life>>
    /\ MainUnchanged /\ UNCHANGED gameThread

-----------------------------------------------------------------------------
MainStep ==
    \/ \E r \in Runs : ParseArguments(r)
    \/ \E ok \in BOOLEAN : SetupPaths(ok)
    \/ LoadCoreLibraries \/ SetupAndroidHooks \/ CreateWindow \/ SmokeEnds
    \/ \E name \in HookNames, mod \in PreinitMods, slotted \in BOOLEAN : PreinitHook(name, mod, slotted)
    \/ ModsPreinitialised \/ LoadRuntime \/ LoadFmod \/ LoadIntegrity \/ LoadGame
    \/ ModsInitialised \/ JniSupportNew \/ RegisterNatives

HelperStep ==
    \/ StartGame \/ AttachLibraries \/ GameOnCreate \/ GameCreated
    \/ OnStart \/ OnNativeWindowCreated \/ UpdateNetworkStatus \/ InstallTextHandler

GameStep ==
    \/ ExecuteMainThread \/ PrepareGame \/ GlueRunning
    \/ SendMotionEvent \/ WindowResized \/ SetTextboxText \/ CaretPosition \/ ReturnKey
    \/ \E n \in {"onInputDeviceAddedNative", "onInputDeviceRemovedNative"} : ControllerConnected(n)
    \/ \E known, plain, copied \in BOOLEAN : ImportFile(known, plain, copied)
    \/ GameFinish

StartNext == MainStep \/ HelperStep \/ GameStep \/ StopGame

StartSpec == StartInit /\ [][StartNext]_startVars

-----------------------------------------------------------------------------
\* A call the game receives before another one.
Precedes(a, b) == b \in DOMAIN life => a \in life[b]

(***************************************************************************)
(* The launch is in order, whatever is missing and however the two threads *)
(* interleave: the game is linked only when everything it binds to is in   *)
(* place with the driver's GL in it; no call reaches the game before its   *)
(* constructors and onCreate; the window it is given is the looper's, not  *)
(* null; text arrives only after that window (startup.rs, jni_support.rs); *)
(* and a mod that asks for the original of a symbol is told what the       *)
(* game's references are bound to.                                         *)
(***************************************************************************)
StartSound ==
    /\ libs["game"] = "full" => /\ \A l \in BoundNow : libs[l] # "absent"
                                /\ \A l \in {"GLES", "EGL", "gamewindow", "android"} : libs[l] = "full"
    /\ \A call \in DOMAIN life \ {"constructors", "fmodOnLoad", "OnLoad", "create"} :
          Precedes("constructors", call) /\ Precedes("OnLoad", call) /\ Precedes("create", call)
    /\ helper \in {"start", "window", "network", "text", "done"} => given = "token"
    /\ Precedes("window", "nativeSetTextboxText") /\ Precedes("start", "window")
    /\ \A x \in DOMAIN slots : slots[x] = relocated[x]

(***************************************************************************)
(* When the thread a requested exit starts has run, the game has been      *)
(* stopped: jni_support.rs says that the global owns the JniSupport.       *)
(***************************************************************************)
ExitStopsGame == jni.exit /\ quits = 0 => "destroy" \in DOMAIN life

(***************************************************************************)
(* A mod that hooks a symbol before the game is loaded is given the        *)
(* original it replaces (the `orig` of mcpelauncher_preinithook), not its  *)
(* own function.                                                           *)
(***************************************************************************)
OriginalIsNotTheHook == \A x \in DOMAIN slots : slots[x] # preinit[x].value
=============================================================================
