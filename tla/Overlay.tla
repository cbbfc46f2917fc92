------------------------------ MODULE Overlay ------------------------------
(***************************************************************************)
(* The ImGui overlay: events recorded by the window's thread are replayed  *)
(* by the render thread at the next frame, the menu bar shows itself or    *)
(* hides, and the settings its menus change are saved at once, with keys   *)
(* of other launchers kept.  Fullscreen is changed and saved by other      *)
(* threads too, and the process may be killed and started again.           *)
(***************************************************************************)
EXTENDS Naturals, Sequences, FiniteSets, SequencesExt

CONSTANTS
    OverlayKeys,   \* keys of the keyboard, by their codes
    MenuOptions,   \* options that the menus change
    FoundOn,       \* what a file another launcher wrote switches on
    ForeignKeys,   \* lines another launcher may have put into the file
    MaxPending     \* bound: recorded events that wait for a frame

VARIABLES
    overlay,       \* off, loaded, ready, failed: settings loaded, init_once attempted
    settings,      \* the values in memory
    unknown,       \* UNKNOWN_PROPS
    file,          \* the settings file
    saving,        \* thread -> how far its save is, and its text
    alone,         \* ghost: the last save did not begin while another was under way
    theirs,        \* ghost: what other launchers wrote and load() can keep
    pressed,       \* ghost: the keys and the button as the user holds them
    pending,       \* INPUT: key events in order, and the last edge of the button
    imgui,         \* what ImGui is told is held down
    bar            \* menu bar: session visibility and previous Alt request

overlayVars == <<overlay, settings, unknown, file, saving, alone, theirs, pressed, pending, imgui, bar>>
inputVars == <<pressed, pending, imgui>>
fileVars == <<unknown, file, saving, alone, theirs>>

-----------------------------------------------------------------------------
\* Both Alt keys are one modifier of ImGui; so are those of Shift and of Ctrl.
AltKeys == {"leftAlt", "rightAlt"}
ASSUME OverlayAssumption == AltKeys \subseteq OverlayKeys /\ "ModAlt" \notin OverlayKeys
MapKey(k) == IF k \in AltKeys THEN {k, "ModAlt"} ELSE {k}

\* imgui and menubar are only read from the file.
Options == {"imgui", "menubar", "altFocus", "fullscreen"}
Defaults == [o \in Options |-> o # "fullscreen"]
Savers == {"render", "window"}
\* A missing file and an empty one are read alike.
NoText == [values |-> Defaults, foreign |-> {}, readable |-> TRUE]
NoSave == [stage |-> "none", text |-> NoText]
NoEdge == "none"
Edge(down) == IF down THEN "down" ELSE "up"

\* "menubarFocusKey" with another key than Alt's is a line load() understands as
\* no Alt, and does not keep.
FocusKey == "focusKey"
KeptOf(text) == text.foreign \ {FocusKey}

Found(on, foreign, readable) ==
    [values |-> [o \in Options |-> o \in on /\ (o = "altFocus" => FocusKey \notin foreign)],
     foreign |-> foreign, readable |-> readable]

OverlayInit ==
    /\ overlay = "off"
    /\ settings = Defaults /\ unknown = {} /\ alone = TRUE
    /\ saving = [s \in Savers |-> NoSave]
    /\ file = NoText /\ theirs = {}
    /\ pressed = [keys |-> {}, button |-> FALSE]
    /\ pending = [keys |-> <<>>, button |-> NoEdge]
    /\ imgui = [keys |-> {}, button |-> FALSE]
    /\ bar = [session |-> TRUE, wanted |-> FALSE]

\* Another launcher writes its settings while this one does not run.
OthersWrite(on, foreign, readable) ==
    /\ overlay = "off"
    /\ file' = Found(on, foreign, readable)
    /\ theirs' = IF readable THEN KeptOf(file') ELSE {}
    /\ UNCHANGED <<overlay, settings, unknown, saving, alone, bar, inputVars>>

\* A file that cannot be read leaves the defaults, like a missing one.
LoadSettings ==
    /\ overlay = "off"
    /\ overlay' = "loaded"
    /\ settings' = IF file.readable THEN file.values ELSE settings
    /\ unknown' = IF file.readable THEN KeptOf(file) ELSE unknown
    /\ UNCHANGED <<file, saving, alone, theirs, bar, inputVars>>

\* Attempted once, when the context becomes current; failing is for good.
InitOnce(works) ==
    /\ overlay = "loaded"
    /\ overlay' = IF works THEN "ready" ELSE "failed"
    /\ UNCHANGED <<settings, bar, fileVars, inputVars>>

-----------------------------------------------------------------------------
Waiting == Len(pending.keys) + IF pending.button = NoEdge THEN 0 ELSE 1

\* Recorded whether the overlay is on or not; a held key repeats.
RecordKey(k, down) ==
    /\ overlay # "off" /\ Waiting < MaxPending
    /\ down \/ k \in pressed.keys
    /\ pressed' = [pressed EXCEPT !.keys = IF down THEN @ \cup {k} ELSE @ \ {k}]
    /\ pending' = [pending EXCEPT !.keys = Append(@, <<k, down>>)]
    /\ UNCHANGED <<overlay, settings, imgui, bar, fileVars>>

\* Mutant: an edge that waits for its frame is not replaced.
KeepsFirst(edge, down) == IF edge = NoEdge THEN Edge(down) ELSE edge
\* One edge per button and frame: the last.
LastEdge(edge, down) == Edge(down)
RecordMouseButton ==
    /\ overlay # "off" /\ (pending.button # NoEdge \/ Waiting < MaxPending)
    /\ pressed' = [pressed EXCEPT !.button = ~@]
    /\ pending' = [pending EXCEPT !.button = LastEdge(@, ~pressed.button)]
    /\ UNCHANGED <<overlay, settings, imgui, bar, fileVars>>

Held(keys, e) == IF e[2] THEN keys \cup MapKey(e[1]) ELSE keys \ MapKey(e[1])
Replayed == [keys |-> FoldLeft(Held, imgui.keys, pending.keys),
             button |-> IF pending.button = NoEdge THEN imgui.button ELSE pending.button = "down"]

-----------------------------------------------------------------------------
\* Alt asks for the bar every other frame while it is held.
WantsFocus == settings["altFocus"] /\ AltKeys \cap pressed.keys # {} /\ ~bar.wanted
Session == bar.session \/ WantsFocus
\* reachable: the pointer is free or rests at the top, or the bar has the focus.
ShowMenubar(reachable) == settings["menubar"] /\ Session /\ (reachable \/ WantsFocus)

Under(s) == saving[s].stage # "none"
Saves(s) ==
    /\ saving' = [saving EXCEPT ![s] = [stage |-> "changed", text |-> NoText]]
    /\ alone' = \A r \in Savers \ {s} : ~Under(r)

\* The menus: hide the bar, change an option, or nothing.  What they
\* set is the contrary of what was read while the menu was built.
Chooses(choice, value) ==
    IF choice \in {"none", "hide"} THEN UNCHANGED <<settings, saving, alone>>
    ELSE settings' = [settings EXCEPT ![choice] = value] /\ Saves("render")

\* Built and drawn before the swap, unless switched off in the settings.
DrawFrame(reachable, choice, value) ==
    /\ overlay = "ready" /\ ~Under("render") /\ settings["imgui"]
    /\ imgui' = Replayed
    /\ pending' = [keys |-> <<>>, button |-> NoEdge]
    /\ choice # "none" => ShowMenubar(reachable)
    /\ bar' = [session |-> Session /\ choice # "hide", wanted |-> WantsFocus]
    /\ Chooses(choice, value)
    /\ UNCHANGED <<overlay, unknown, file, theirs, pressed>>

\* F11 on the window's thread, or the game.
SetFullscreen ==
    /\ overlay # "off" /\ ~Under("window")
    /\ settings' = [settings EXCEPT !["fullscreen"] = ~@]
    /\ Saves("window")
    /\ UNCHANGED <<overlay, bar, unknown, file, theirs, inputVars>>

Advances(s, from, to, text) ==
    /\ saving[s].stage = from
    /\ saving' = [saving EXCEPT ![s] = [stage |-> to, text |-> text]]
    /\ UNCHANGED <<overlay, settings, unknown, alone, theirs, bar, inputVars>>

\* The text is put together, fs::write empties the file, then fills it; nothing
\* orders two threads.
Snapshot == [values |-> settings, foreign |-> unknown, readable |-> TRUE]
WritesOver(s) == Advances(s, "changed", "writing", Snapshot) /\ file' = NoText
SaveSettings(s) == Advances(s, "writing", "none", NoText) /\ file' = saving[s].text

\* Killed, or ended by _exit while the other thread saves; the next start finds
\* the file as it is, emptied if it was being written.
Writing == \E s \in Savers : saving[s].stage = "writing"
Restart ==
    /\ overlay' = "off" /\ settings' = Defaults /\ unknown' = {} /\ alone' = TRUE
    /\ saving' = [s \in Savers |-> NoSave]
    /\ theirs' = IF Writing THEN KeptOf(file) ELSE theirs
    /\ pressed' = [keys |-> {}, button |-> FALSE]
    /\ pending' = [keys |-> <<>>, button |-> NoEdge]
    /\ imgui' = [keys |-> {}, button |-> FALSE]
    /\ bar' = [session |-> TRUE, wanted |-> FALSE]
    /\ UNCHANGED file

OverlayNext ==
    \/ \E on \in FoundOn, foreign \in SUBSET ForeignKeys, readable \in BOOLEAN :
          OthersWrite(on, foreign, readable)
    \/ LoadSettings \/ \E works \in BOOLEAN : InitOnce(works)
    \/ \E k \in OverlayKeys, down \in BOOLEAN : RecordKey(k, down)
    \/ RecordMouseButton
    \/ \E reachable, value \in BOOLEAN, choice \in {"none", "hide"} \cup MenuOptions :
          DrawFrame(reachable, choice, value)
    \/ SetFullscreen
    \/ \E s \in Savers : WritesOver(s) \/ SaveSettings(s)
    \/ Restart

OverlaySpec == OverlayInit /\ [][OverlayNext]_overlayVars

-----------------------------------------------------------------------------
(***************************************************************************)
(* Whatever is pressed and released between two frames, ImGui is told at   *)
(* the next one of every key and of the button as the user holds them, and *)
(* of no modifier without one of its keys (imgui_ui/mod.rs).  Not the      *)
(* converse: releasing one of two Alt keys takes the modifier away.        *)
(* When no thread saves, the file has the values in memory, unless two     *)
(* saves overlapped (alone), and every line the last other launcher wrote  *)
(* is there still, whoever saved and however often the process was killed  *)
(* (settings.rs).  Lost all the same are: a menubarFocusKey other than     *)
(* Alt's, a file that is not readable text, and all of it when the process *)
(* ends between fs::write's two steps.                                     *)
(***************************************************************************)
OverlaySound ==
    /\ Replayed.keys \cap OverlayKeys = pressed.keys
    /\ "ModAlt" \in Replayed.keys => AltKeys \cap pressed.keys # {}
    /\ Replayed.button = pressed.button
    /\ overlay # "off" /\ alone /\ file.readable /\ ~(\E s \in Savers : Under(s)) => file.values = settings
    /\ ~Writing => theirs \subseteq file.foreign
=============================================================================
