------------------------------ MODULE ModMenu ------------------------------
(***************************************************************************)
(* The registry of menus and windows of mods: mods register from a thread  *)
(* of the game or from a callback, the render thread draws what is         *)
(* registered under the lock, and calls the mods' callbacks after it.      *)
(***************************************************************************)
EXTENDS Naturals, Sequences, FiniteSets, SequencesExt

CONSTANTS
    WindowTitles,       \* titles mods use
    MaxRegistrations,   \* bound: registrations, each with a user pointer of its own
    MaxActions,         \* bound: clicks of one frame
    SelectedRegisters   \* whether a mod's selected callback uses the registry

ASSUME MaxRegistrations \in Nat /\ MaxActions \in Nat

VARIABLES
    windows,     \* Registry.windows
    menus,       \* Registry.menus: the users of its entries
    popups,      \* titles ImGui has an open popup for
    menuLock,    \* who holds the registry: none, render, mod
    menuStage,   \* the render thread: idle, menus, windows (drawing them), acting
    actions,     \* callbacks collected while drawing
    modCall,     \* thread -> the registry call it is in, or none
    registered,  \* ghost: registrations so far
    userClosed,  \* ghost: users of windows closed on the screen
    closeCalls   \* ghost: users onClose was called with, in order

menuVars == <<windows, menus, popups, menuLock, menuStage, actions, modCall, registered, userClosed, closeCalls>>
screenVars == <<popups, menuStage, actions, userClosed, closeCalls>>

-----------------------------------------------------------------------------
MenuThreads == {"render", "mod"}
NoCall == [op |-> "none", title |-> "", modal |-> FALSE]
RegistryCalls ==
    [op : {"show"}, title : WindowTitles, modal : BOOLEAN]
    \cup [op : {"close"}, title : WindowTitles, modal : {FALSE}]
    \cup {[op |-> "addmenu", title |-> "", modal |-> FALSE]}
Titled(t) == {i \in DOMAIN windows : windows[i].title = t}

MenuInit ==
    /\ windows = <<>> /\ menus = {} /\ popups = {}
    /\ menuLock = "none" /\ menuStage = "idle" /\ actions = <<>>
    /\ modCall = [t \in MenuThreads |-> NoCall]
    /\ registered = 0 /\ userClosed = {} /\ closeCalls = <<>>

\* A mod calls at any time on its own thread.
ModCalls(c) ==
    /\ modCall["mod"] = NoCall
    /\ modCall' = [modCall EXCEPT !["mod"] = c]
    /\ UNCHANGED <<windows, menus, menuLock, registered, screenVars>>

EntersRegistry(t) ==
    /\ modCall[t] # NoCall /\ menuLock = "none"
    /\ modCall[t].op # "close" => registered < MaxRegistrations
    /\ menuLock' = t
    /\ UNCHANGED <<windows, menus, modCall, registered, screenVars>>

\* An existing window keeps its place, open and modal_opened.
ShowWindow(title, modal, user) ==
    IF Titled(title) # {}
    THEN [i \in DOMAIN windows |->
             IF windows[i].title = title THEN [windows[i] EXCEPT !.modal = modal, !.user = user] ELSE windows[i]]
    ELSE Append(windows, [title |-> title, modal |-> modal, open |-> TRUE, opened |-> FALSE, user |-> user])
\* The elements of s at some of its positions, in their order.
Keeping(s, positions) ==
    LET kept[n \in 0 .. Len(s)] ==
            IF n = 0 THEN <<>> ELSE IF n \in positions THEN Append(kept[n - 1], s[n]) ELSE kept[n - 1]
    IN  kept[Len(s)]
CloseWindow(title) == Keeping(windows, DOMAIN windows \ Titled(title))

LeavesRegistry(t) ==
    /\ menuLock = t /\ modCall[t] # NoCall /\ (t = "render" => menuStage = "acting")
    /\ LET c == modCall[t]
           user == registered + 1
       IN  /\ windows' = CASE c.op = "show" -> ShowWindow(c.title, c.modal, user)
                           [] c.op = "close" -> CloseWindow(c.title)
                           [] OTHER -> windows
           /\ menus' = IF c.op = "addmenu" THEN menus \cup {user} ELSE menus
           /\ registered' = IF c.op = "close" THEN registered ELSE user
    /\ menuLock' = "none"
    /\ modCall' = [modCall EXCEPT ![t] = NoCall]
    /\ UNCHANGED screenVars

-----------------------------------------------------------------------------
\* try_lock: a frame whose registry is busy draws nothing of the mods.
DrawMenus ==
    /\ menuStage = "idle" /\ menuLock = "none" /\ menus # {}
    /\ menuStage' = "menus" /\ menuLock' = "render"
    /\ UNCHANGED <<windows, menus, popups, actions, modCall, registered, userClosed, closeCalls>>

\* The selected callback is called while the menus are drawn.
CallSelected(c) ==
    /\ menuStage = "menus" /\ SelectedRegisters /\ modCall["render"] = NoCall
    /\ modCall' = [modCall EXCEPT !["render"] = c]
    /\ UNCHANGED <<windows, menus, menuLock, registered, screenVars>>

Collects(kind, user) ==
    /\ Len(actions) < MaxActions
    /\ actions' = Append(actions, [kind |-> kind, user |-> user])
Drawing(what) == menuStage = what /\ modCall["render"] = NoCall

ClickMenu(user) ==
    /\ Drawing("menus") /\ user \in menus
    /\ Collects("click", user)
    /\ UNCHANGED <<windows, menus, popups, menuLock, menuStage, modCall, registered, userClosed, closeCalls>>

\* A modal window asks for its popup once; ImGui drops popups nobody draws.
DrawWindows ==
    /\ menuStage = "idle" /\ menuLock = "none" /\ windows # <<>>
    /\ menuStage' = "windows" /\ menuLock' = "render"
    /\ popups' = {windows[i].title : i \in {j \in DOMAIN windows :
                     windows[j].modal /\ (~windows[j].opened \/ windows[j].title \in popups)}}
    /\ windows' = [i \in DOMAIN windows |-> [windows[i] EXCEPT !.opened = @ \/ windows[i].modal]]
    /\ UNCHANGED <<menus, actions, modCall, registered, userClosed, closeCalls>>

OnScreen(w) == w.open /\ (w.modal => w.title \in popups)

ClickControl(i) ==
    /\ Drawing("windows") /\ OnScreen(windows[i])
    /\ Collects("click", windows[i].user)
    /\ UNCHANGED <<windows, menus, popups, menuLock, menuStage, modCall, registered, userClosed, closeCalls>>

UserCloses(i) ==
    /\ Drawing("windows") /\ OnScreen(windows[i])
    /\ windows' = [windows EXCEPT ![i].open = FALSE]
    /\ popups' = popups \ {windows[i].title}
    /\ userClosed' = userClosed \cup {windows[i].user}
    /\ UNCHANGED <<menus, menuLock, menuStage, actions, modCall, registered, closeCalls>>

\* Mutant: the guard lives until the callbacks have been called.
HeldOn == "render"
AfterDrawing == "none"

OpenWindows == {i \in DOMAIN windows : windows[i].open}
Closes(w) == [kind |-> "close", user |-> w.user]
Swept == LET gone == Keeping(windows, DOMAIN windows \ OpenWindows)
         IN  [k \in DOMAIN gone |-> Closes(gone[k])]

EndDrawing ==
    /\ Drawing("menus") \/ Drawing("windows")
    /\ windows' = Keeping(windows, OpenWindows)
    /\ actions' = actions \o Swept
    /\ menuStage' = "acting" /\ menuLock' = AfterDrawing
    /\ UNCHANGED <<menus, popups, modCall, registered, userClosed, closeCalls>>

\* In the order collected; a callback may use the registry itself.
CallbackRuns(c) ==
    /\ menuStage = "acting" /\ actions # <<>> /\ modCall["render"] = NoCall
    /\ closeCalls' = IF Head(actions).kind = "close" THEN Append(closeCalls, Head(actions).user) ELSE closeCalls
    /\ actions' = Tail(actions)
    /\ modCall' = [modCall EXCEPT !["render"] = c]
    /\ UNCHANGED <<windows, menus, popups, menuLock, menuStage, registered, userClosed>>

ActionsDone ==
    /\ menuStage = "acting" /\ actions = <<>> /\ modCall["render"] = NoCall
    /\ menuStage' = "idle"
    /\ UNCHANGED <<windows, menus, popups, menuLock, actions, modCall, registered, userClosed, closeCalls>>

MenuNext ==
    \/ \E c \in RegistryCalls : ModCalls(c) \/ CallSelected(c)
    \/ \E t \in MenuThreads : EntersRegistry(t) \/ LeavesRegistry(t)
    \/ DrawMenus \/ DrawWindows \/ EndDrawing \/ ActionsDone
    \/ \E user \in menus : ClickMenu(user)
    \/ \E i \in DOMAIN windows : ClickControl(i) \/ UserCloses(i)
    \/ \E c \in RegistryCalls \cup {NoCall} : CallbackRuns(c)

MenuSpec == MenuInit /\ [][MenuNext]_menuVars

-----------------------------------------------------------------------------
(***************************************************************************)
(* No callback of a mod makes the render thread wait for the registry it   *)
(* holds itself (corelib's mod_menu.rs, the locking it describes).         *)
(***************************************************************************)
NoSelfWait == ~(menuLock = "render" /\ modCall["render"] # NoCall /\ menuStage \in {"menus", "windows"})

(***************************************************************************)
(* The callbacks run unlocked; a title names one window; and onClose is    *)
(* called once, with the user of that moment, for each window the user     *)
(* closed and for no window a mod closed (render_mod_windows).             *)
(***************************************************************************)
MenuSound ==
    /\ NoSelfWait
    /\ menuStage = "acting" /\ menuLock = "render" => modCall["render"] # NoCall
    /\ \A t \in WindowTitles : Cardinality(Titled(t)) <= 1
    /\ IsInjective(closeCalls) /\ ToSet(closeCalls) \subseteq userClosed
    /\ menuStage = "idle" => userClosed = ToSet(closeCalls)
=============================================================================
