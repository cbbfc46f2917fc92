----------------------------- MODULE WindowInput -----------------------------
(***************************************************************************)
(* window_callbacks.rs: what the events of the window become for the game. *)
(* An event counts only in its input mode; a device takes the mode over at *)
(* once from one of higher rank, and after input_mode_switch_delay from    *)
(* the others.                                                             *)
(***************************************************************************)
EXTENDS Integers, Sequences, FiniteSets

CONSTANTS Fingers, PointerSlots,   \* touches of the window, and the length of pointer_ids
          Heights, BarSizes,       \* window heights, values of the menubarsize setting
          MaxHeld                  \* bound: fingers, keys and buttons held at once

\* Ids of touches are not negative: pointer_ids says -1 for a free slot.
ASSUME WindowAssumption ==
    Fingers \subseteq Nat /\ PointerSlots \in Nat /\ Heights \cup BarSizes \subseteq Int

VARIABLES config,      \* the environment's choices: raw input, a forced mode; and a bound:
                       \* a behaviour is about the devices or about the view
          sending,     \* send_events
          mode,        \* input_mode
          lock,        \* the handle's mouse_locked, cursor_locked, the pointer's own lock; and
                       \* ghost: was the game's wish the handle's alone, there being no callbacks
          held,        \* mouse button and key: down in the hand, down for the game, a release lost
          buttonState, \* button_state has the button
          pointers,    \* pointer_ids
          touching,    \* fingers on the screen: the pointer id of their start
          gameTouches, \* pointer ids the game was told of and not released
          pad,         \* the gamepad's GamepadData
          gamePad,     \* what the game was told of it
          size,        \* height of the window, menubarsize here and in the settings, height told
          screen,      \* fullscreen: of the window, in the settings
          delayedPaste \* delayed_paste

handVars == <<held, buttonState>>
touchVars == <<pointers, touching, gameTouches>>
padVars == <<pad, gamePad>>
viewVars == <<size, screen, delayedPaste>>
windowVars == <<config, sending, mode, lock, handVars, touchVars, padVars, viewVars>>

Free == 0 - 1
NoMode == "unknown"
NotTold == 0 - 100
\* The order of InputMode.
Rank == [touch |-> 0, mouse |-> 1, gamepad |-> 2, unknown |-> 3]
PadButtons == {"a", "left", "right"}
NoPad == [connected |-> FALSE, buttons |-> [b \in PadButtons |-> FALSE], axis |-> 0]
Up == [hand |-> FALSE, game |-> FALSE, lost |-> FALSE]

WindowInit ==
    /\ config = [created |-> FALSE, raw |-> FALSE, forced |-> NoMode, about |-> "view"]
    /\ sending = FALSE /\ mode = NoMode
    /\ lock = [asked |-> FALSE, cursor |-> FALSE, pointer |-> FALSE, early |-> FALSE]
    /\ held = [d \in {"button", "key"} |-> Up] /\ buttonState = FALSE
    /\ pointers = [i \in 0 .. PointerSlots - 1 |-> Free]
    /\ touching = [f \in {} |-> 0] /\ gameTouches = {}
    /\ pad = NoPad /\ gamePad = [connected |-> FALSE, a |-> FALSE, hat |-> 0, axis |-> 0]
    /\ size = [height |-> 0, bar |-> 0, setting |-> 0, told |-> NotTold]
    /\ screen = [window |-> FALSE, setting |-> FALSE]
    /\ delayedPaste = 0

\* window_callbacks_create reads the environment and the setting.
Create(raw, forced, full, about) ==
    /\ ~config.created
    /\ config' = [created |-> TRUE, raw |-> raw, forced |-> forced, about |-> about]
    /\ screen' = [window |-> full, setting |-> full]
    /\ UNCHANGED <<sending, mode, lock, handVars, touchVars, padVars, size, delayedPaste>>

---------------------------------------------------------------------------
(* The input mode *)

\* has_input_mode: may an event of this kind count?  late is the time since
\* the last that did, against the delay.
Takes(want, change, late) ==
    /\ sending
    /\ \/ config.raw
       \/ ~config.raw /\ config.forced # NoMode /\ want = config.forced
       \/ ~config.raw /\ config.forced = NoMode
          /\ (mode = want \/ (change /\ (Rank[want] < Rank[mode] \/ late)))

\* Then it also sets the mode; on a change the pointer is locked, or for the
\* mouse as the game asked.
SwitchTo(want) ==
    IF config.raw \/ config.forced # NoMode \/ mode = want THEN UNCHANGED <<mode, lock>>
    ELSE /\ mode' = want
         /\ lock' = [lock EXCEPT !.pointer = IF want = "mouse" THEN lock.cursor ELSE TRUE]

\* set_cursor_locked, through core_patches; without callbacks only the handle knows.
\* Mutant: what the game asks is kept only in the mouse's mode.
KeepsInMode(l) ==
    IF Takes("mouse", FALSE, FALSE) THEN [asked |-> l, cursor |-> l, pointer |-> l, early |-> FALSE]
    ELSE [lock EXCEPT !.asked = l, !.early = FALSE]
Locked(l) ==
    IF Takes("mouse", FALSE, FALSE) THEN [asked |-> l, cursor |-> l, pointer |-> l, early |-> FALSE]
    ELSE [lock EXCEPT !.asked = l, !.cursor = l, !.early = FALSE]
SetCursorLocked(l) ==
    /\ lock.asked # l
    /\ lock' = IF config.created THEN Locked(l) ELSE [lock EXCEPT !.asked = l, !.early = TRUE]
    /\ UNCHANGED <<config, sending, mode, handVars, touchVars, padVars, viewVars>>

\* start_send_events, at every poll: the game hears of the gamepads once, of
\* a changed menu bar, and a delayed paste comes nearer.
StartSendEvents ==
    /\ config.created
    /\ sending' = TRUE
    /\ gamePad' = IF sending THEN gamePad ELSE [gamePad EXCEPT !.connected = pad.connected]
    /\ size' = IF size.setting = size.bar THEN size
               ELSE [size EXCEPT !.bar = size.setting, !.told = size.height - size.setting]
    /\ delayedPaste' = IF delayedPaste > 0 THEN delayedPaste - 1 ELSE 0
    /\ UNCHANGED <<config, mode, lock, handVars, touchVars, pad, screen>>

---------------------------------------------------------------------------
(* Mouse and keyboard *)

HeldNow == Cardinality({d \in DOMAIN held : held[d].hand}) + Cardinality(DOMAIN touching) +
           Cardinality({b \in PadButtons : pad.buttons[b]}) + pad.axis
MayHold == HeldNow < MaxHeld

\* on_mouse_position, on_mouse_relative_position and on_mouse_scroll change
\* the mode only; a small relative motion not even that.
MouseMoves(change, late) ==
    /\ Takes("mouse", change, late) /\ SwitchTo("mouse")
    /\ UNCHANGED <<config, sending, handVars, touchVars, padVars, viewVars>>

\* set_fullscreen: the window is toggled only when it differs.
FullscreenIs(fs) == IF screen.setting = fs THEN screen ELSE [window |-> fs, setting |-> fs]
\* The game and the launcher's menu, which toggles both.
SetFullscreen(fs) ==
    /\ config.created
    /\ screen' = FullscreenIs(fs)
    /\ UNCHANGED <<config, sending, mode, lock, handVars, touchVars, padVars, size, delayedPaste>>
MenuTogglesFullscreen ==
    /\ config.created
    /\ screen' = [window |-> ~screen.window, setting |-> ~screen.setting]
    /\ UNCHANGED <<config, sending, mode, lock, handVars, touchVars, padVars, size, delayedPaste>>

\* on_mouse_button and on_keyboard: the mode, then whoever takes the event
\* for itself (imgui, the mods' callbacks), then the game.  A side button
\* goes to on_keyboard, and F11 sets fullscreen.
NotHeard(h, down) == [h EXCEPT !.hand = down, !.lost = h.lost \/ ~down]
Heard(down) == [hand |-> down, game |-> down, lost |-> FALSE]
Press(d, down, taken, late) ==
    /\ config.created
    /\ IF down THEN ~held[d].hand /\ MayHold ELSE held[d].hand
    /\ LET counts == Takes("mouse", TRUE, late) IN
       /\ IF counts THEN SwitchTo("mouse") ELSE UNCHANGED <<mode, lock>>
       /\ held' = [held EXCEPT ![d] = IF counts /\ ~taken THEN Heard(down) ELSE NotHeard(@, down)]
       /\ buttonState' = IF counts /\ ~taken /\ d = "button" THEN down ELSE buttonState
       /\ screen' \in {screen} \cup (IF counts /\ ~taken /\ d = "key" /\ down /\ config.about = "view"
                                     THEN {FullscreenIs(~screen.setting)} ELSE {})
    /\ UNCHANGED <<config, sending, touchVars, padVars, size, delayedPaste>>

---------------------------------------------------------------------------
(* Touches *)

\* obtain_touch_pointer: the finger's slot, a free one, or beyond the slots.
SlotsWith(x) == {i \in DOMAIN pointers : pointers[i] = x}
Lowest(s) == CHOOSE i \in s : \A j \in s : i <= j
Obtain(f) == IF SlotsWith(f) # {} THEN Lowest(SlotsWith(f))
             ELSE IF SlotsWith(Free) # {} THEN Lowest(SlotsWith(Free))
             ELSE PointerSlots + f
WithSlot(f) == IF Obtain(f) < PointerSlots THEN [pointers EXCEPT ![Obtain(f)] = f] ELSE pointers
WithoutSlot(f) == IF Obtain(f) < PointerSlots THEN [pointers EXCEPT ![Obtain(f)] = Free] ELSE pointers

\* The slot is taken and given back whether or not the mode lets the event
\* count.  Never more fingers than slots.
TouchMode(late) == IF Takes("touch", TRUE, late) THEN SwitchTo("touch") ELSE UNCHANGED <<mode, lock>>
TouchStart(f, late) ==
    /\ config.created /\ f \notin DOMAIN touching /\ MayHold /\ Cardinality(DOMAIN touching) < PointerSlots
    /\ TouchMode(late)
    /\ pointers' = WithSlot(f)
    /\ touching' = [g \in DOMAIN touching \cup {f} |-> IF g = f THEN Obtain(f) ELSE touching[g]]
    /\ gameTouches' = IF Takes("touch", TRUE, late) THEN gameTouches \cup {Obtain(f)} ELSE gameTouches
    /\ UNCHANGED <<config, sending, handVars, padVars, viewVars>>
TouchUpdate(f, late) ==
    /\ f \in DOMAIN touching
    /\ TouchMode(late)
    /\ pointers' = WithSlot(f)
    /\ UNCHANGED <<config, sending, handVars, touching, gameTouches, padVars, viewVars>>
TouchEnd(f, late) ==
    /\ f \in DOMAIN touching
    /\ TouchMode(late)
    /\ pointers' = WithoutSlot(f)
    /\ touching' = [g \in DOMAIN touching \ {f} |-> touching[g]]
    /\ gameTouches' = IF Takes("touch", TRUE, late) THEN gameTouches \ {Obtain(f)} ELSE gameTouches
    /\ UNCHANGED <<config, sending, handVars, padVars, viewVars>>

---------------------------------------------------------------------------
(* The gamepad *)

\* on_gamepad_state: fresh data for a pad that connects.  The game forgets
\* what was pressed on a pad that goes.
PadState(c) ==
    /\ config.created /\ pad.connected # c
    /\ pad' = [NoPad EXCEPT !.connected = c]
    /\ gamePad' = IF sending THEN [connected |-> c, a |-> FALSE, hat |-> 0, axis |-> 0] ELSE gamePad
    /\ UNCHANGED <<config, sending, mode, lock, handVars, touchVars, viewVars>>

\* queue_gamepad_axis_input_if_needed: the axes, and the d-pad as a hat on
\* which right beats left.
Hat(p) == IF p.buttons.right THEN 1 ELSE IF p.buttons.left THEN -1 ELSE 0
AxesOf(p) == [gamePad EXCEPT !.hat = Hat(p), !.axis = p.axis]

\* on_gamepad_button: a button that is as it was says nothing.
PadButton(b, down, late) ==
    /\ Takes("gamepad", TRUE, late) /\ SwitchTo("gamepad")
    /\ down => MayHold
    /\ IF ~pad.connected \/ pad.buttons[b] = down THEN UNCHANGED padVars
       ELSE /\ pad' = [pad EXCEPT !.buttons[b] = down]
            /\ gamePad' = IF b = "a" THEN [gamePad EXCEPT !.a = down] ELSE AxesOf(pad')
    /\ UNCHANGED <<config, sending, handVars, touchVars, viewVars>>
\* on_gamepad_axis: only a push of more than 0.4 takes the mode over.
PadAxis(v, late) ==
    /\ Takes("gamepad", v # 0, late) /\ SwitchTo("gamepad")
    /\ v # 0 => MayHold
    /\ IF pad.connected THEN pad' = [pad EXCEPT !.axis = v] /\ gamePad' = AxesOf(pad')
       ELSE UNCHANGED padVars
    /\ UNCHANGED <<config, sending, handVars, touchVars, viewVars>>

---------------------------------------------------------------------------
(* The window *)

\* eglut_cb_reshape: a new size is told less the menu bar.
Reshape(h) ==
    /\ config.created /\ size.height # h
    /\ size' = [size EXCEPT !.height = h, !.told = h - size.bar]
    /\ UNCHANGED <<config, sending, mode, lock, handVars, touchVars, padVars, screen, delayedPaste>>
\* The menu bar is drawn or not.
MenuBar(n) ==
    /\ size.setting # n /\ size' = [size EXCEPT !.setting = n]
    /\ UNCHANGED <<config, sending, mode, lock, handVars, touchVars, padVars, screen, delayedPaste>>
\* The patch of the text field asks for the last paste to be typed again.
SetDelayedPaste ==
    /\ config.created /\ delayedPaste = 0 /\ delayedPaste' = 2
    /\ UNCHANGED <<config, sending, mode, lock, handVars, touchVars, padVars, size, screen>>

WindowNext ==
    \/ \E raw, full \in BOOLEAN, forced \in {NoMode, "mouse", "touch"}, about \in {"devices", "view"} :
          Create(raw, forced, full, about)
    \/ StartSendEvents
    \/ \E b \in BOOLEAN : SetCursorLocked(b)
    \/ \E d \in {"button", "key"}, down, taken, late \in BOOLEAN : Press(d, down, taken, late)
    \/ config.about = "view" /\
        \/ SetDelayedPaste \/ MenuTogglesFullscreen
        \/ \E b \in BOOLEAN : SetFullscreen(b)
        \/ \E h \in Heights : Reshape(h)
        \/ \E n \in BarSizes : MenuBar(n)
    \/ config.about = "devices" /\ \E late \in BOOLEAN :
        \/ \E b \in BOOLEAN : MouseMoves(b, late) \/ PadState(b)
        \/ \E f \in Fingers : TouchStart(f, late) \/ TouchUpdate(f, late) \/ TouchEnd(f, late)
        \/ \E b \in PadButtons, down \in BOOLEAN : PadButton(b, down, late)
        \/ \E v \in 0 .. 1 : PadAxis(v, late)

WindowSpec == WindowInit /\ [][WindowNext]_windowVars

---------------------------------------------------------------------------
(* Keys: get_key_minecraft, keysyms of X to the game's key codes *)

\* Ranges of keysyms map to ranges of codes; the keypad's navigation keys
\* are ordered like the codes of the main ones.
KeysymRanges ==
    {[first |-> 65, last |-> 90, code |-> 65], [first |-> 97, last |-> 122, code |-> 65],
     [first |-> 65470, last |-> 65481, code |-> 112], [first |-> 65456, last |-> 65465, code |-> 96],
     [first |-> 65450, last |-> 65455, code |-> 106], [first |-> 65429, last |-> 65433, code |-> 36],
     [first |-> 65434, last |-> 65436, code |-> 33]}
\* Home, left, up, right, down, page up, page down and end, beside the keypad.
MainKeysyms == [i \in 65360 .. 65367 |-> <<36, 37, 38, 39, 40, 33, 34, 35>>[i - 65359]]
KeyOf(k) ==
    IF \E r \in KeysymRanges : k \in r.first .. r.last
    THEN LET r == CHOOSE r \in KeysymRanges : k \in r.first .. r.last IN k - r.first + r.code
    ELSE IF k \in DOMAIN MainKeysyms THEN MainKeysyms[k] ELSE IF k < 256 THEN k ELSE 0
KeypadOf == [k \in 65360 .. 65367 |-> <<65429, 65430, 65431, 65432, 65433, 65434, 65435, 65436>>[k - 65359]]

---------------------------------------------------------------------------
(* Correctness *)

\* What the game thinks is down is down, or a release of it was kept from
\* the game; button_state is what the game was told.
NothingStuck ==
    /\ \A d \in DOMAIN held : held[d].game => held[d].hand \/ held[d].lost
    /\ buttonState = held["button"].game

\* Two fingers never share a pointer, a finger keeps its own from start to
\* end, and the game is left with no touch nobody makes.
TouchesAgree ==
    /\ \A f, g \in DOMAIN touching : touching[f] = touching[g] => f = g
    /\ \A f \in DOMAIN touching : Obtain(f) = touching[f]
    /\ gameTouches \subseteq {touching[f] : f \in DOMAIN touching}

\* The game knows the gamepad, its buttons and its hat as the callbacks do,
\* whenever it was connected and whatever came before it.
PadAgrees ==
    /\ sending => gamePad.connected = pad.connected
    /\ gamePad.connected => gamePad.a = pad.buttons.a /\ gamePad.hat = Hat(pad) /\ gamePad.axis = pad.axis

\* In the mouse's mode the pointer is locked just when the game asked for it,
\* whenever it asked once the callbacks were there; the other modes lock it.
PointerLockAgrees ==
    ~config.raw /\ config.forced = NoMode =>
        /\ mode = "mouse" /\ ~lock.early => lock.pointer = lock.asked
        /\ mode \in {"touch", "gamepad"} => lock.pointer

\* The game's idea of the window leaves out the menu bar, and the setting
\* says how the window is.
ViewAgrees ==
    /\ size.told # NotTold => size.told = size.height - size.bar
    /\ screen.window = screen.setting

\* The keypad navigates like the keys beside it.
KeypadNavigates == \A k \in DOMAIN KeypadOf : KeyOf(KeypadOf[k]) = KeyOf(k)

\* The game sees the devices as they are (window_callbacks.rs).
DevicesAgree == NothingStuck /\ TouchesAgree /\ PadAgrees /\ PointerLockAgrees /\ ViewAgrees /\ KeypadNavigates
=============================================================================
