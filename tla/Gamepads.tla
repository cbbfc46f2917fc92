----------------------------- MODULE Gamepads -------------------------------
(***************************************************************************)
(* gamepad/: devices that udev announces become joysticks with an id; the  *)
(* frames of the kernel become buttons and axes through an SDL mapping     *)
(* line, and go to the game.  One thread runs it all, at its poll.         *)
(***************************************************************************)
EXTENDS Integers, Sequences, FiniteSets, SequencesExt

CONSTANTS Pads,                        \* device nodes
          Keys, FirstButton,           \* key codes a device has; BTN_JOYSTICK
          AxisInfo,                    \* [min, max, flat] of the axis all have
          Moves,                       \* frames there are: device, element and raw value
          Line,                        \* entries of the mapping line of the pads
          MaxPlugs, MaxFrames          \* bounds: devices plugged in, frames the kernel keeps

Buttons == {"a", "b", "dpleft", "dpdown"}
Axes == {"leftx", "lefttrigger"}
Dirs == {"left", "down", "right", "up"}
Elements == {"key", "x", "y", "axis"}      \* of a device: a button, the hat's two axes, an axis

ASSUME PadsAssumption ==
    /\ \A a \in {AxisInfo.min, AxisInfo.max, AxisInfo.flat} : a \in Int
    /\ AxisInfo.min + 2 <= AxisInfo.max
    /\ \A f \in Moves : f.pad \in Pads /\ f.el \in Elements /\ f.value \in Int
    /\ Line \in Seq([tmod : {"", "+", "-"}, target : STRING, smod : {"", "+", "-"}, inv : BOOLEAN,
                     source : {"button", "hat", "axis", "bad"}, id : Nat, mask : Dirs])
    /\ MaxPlugs \in Nat /\ MaxFrames \in Nat
    /\ FirstButton \in Nat /\ \A p \in Pads : Keys[p] \in SUBSET Nat

VARIABLES plugged, position,           \* the devices
          monitor,                     \* udev events not yet received
          phase, work,                 \* what the thread is at, and what it has left to do
          joysticks,                   \* sequence of joysticks with their pads
          opened,                      \* joysticks made so far
          lowId, takenIds,             \* taken_gamepad_low_id and taken_gamepad_ids
          windowPads,                  \* the window's pads: id -> joystick
          focused, mapped,             \* has the window the focus; was the line loaded
          view,                        \* the game: id -> what it thinks of the pad
          reused, doubled, padPanic     \* ghosts: an id came back; a device was announced twice

deviceVars == <<plugged, position>>
idVars == <<lowId, takenIds>>
padsVars == <<deviceVars, monitor, phase, work, joysticks, opened, idVars, windowPads,
              focused, mapped, view, reused, doubled, padPanic>>

Scale == 4                             \* 1.0 on an axis
Middle ==                              \* rounded towards 0
    LET sum == AxisInfo.min + AxisInfo.max IN IF sum >= 0 THEN sum \div 2 ELSE -((-sum) \div 2)
Rest == [el \in Elements |-> IF el = "axis" THEN Middle ELSE 0]

---------------------------------------------------------------------------
(* Mapping lines *)

Range01(mod) == IF mod = "" THEN <<-Scale, Scale>> ELSE <<0, IF mod = "+" THEN Scale ELSE -Scale>>
\* GamepadMapping::parse: an entry with an unknown target is skipped, one
\* whose source cannot be read fails the line.
ToOf(e) ==
    IF e.target \in Buttons THEN [target |-> e.target, range |-> <<0, 1>>]
    ELSE [target |-> e.target,
          range |-> LET r == IF e.target = "lefttrigger" THEN <<0, Scale>> ELSE Range01(e.tmod)
                    IN IF e.inv /\ e.source = "axis" THEN <<r[2], r[1]>> ELSE r]
Known(e) == e.target \in Buttons \cup Axes
KnownOf(line) ==
    LET kept[n \in 0 .. Len(line)] ==
            IF n = 0 THEN <<>>
            ELSE IF Known(line[n]) THEN Append(kept[n - 1], line[n]) ELSE kept[n - 1]
    IN  kept[Len(line)]
Parsed(line) ==
    LET entries == KnownOf(line)
    IN IF \E i \in DOMAIN entries : entries[i].source = "bad" THEN <<>>
       ELSE [i \in DOMAIN entries |->
                [from |-> [kind |-> entries[i].source, id |-> entries[i].id, mask |-> entries[i].mask,
                           range |-> Range01(entries[i].smod)],
                 to |-> ToOf(entries[i])]]

\* is_axis_active and get_axis_transformed_value; outside the source's range
\* there is no value (NaN).
IsAxisActive(r, v) ==
    IF r[1] < r[2] THEN 2 * v >= r[1] + r[2] ELSE 2 * v <= r[1] + r[2]
\* Mutant: a value outside the range is carried on past its end.
AnyValue(r, v) == TRUE
InRange(r, v) == (r[1] <= v /\ v <= r[2]) \/ (r[2] <= v /\ v <= r[1])
Distance(a, b) == IF a < b THEN b - a ELSE a - b
Transformed(from, to, v) ==
    to[1] + (Distance(from[1], v) * (to[2] - to[1])) \div Distance(from[1], from[2])
Switched(to, on) == IF on THEN to.range[2] ELSE to.range[1]

\* on_joystick_button, on_joystick_axis, on_joystick_hat: what the event e of
\* a joystick makes of a mapping entry m.
Answers(m, e) ==
    /\ m.from.kind = e.kind /\ m.from.id = e.id
    /\ e.kind = "axis" /\ m.to.target \in Axes => InRange(m.from.range, e.value)
Answer(m, e) ==
    CASE e.kind = "button" -> Switched(m.to, e.value = 1)
      [] e.kind = "hat" -> Switched(m.to, e.value[m.from.mask])
      [] e.kind = "axis" -> IF m.to.target \in Axes THEN Transformed(m.from.range, m.to.range, e.value)
                            ELSE Switched(m.to, IsAxisActive(m.from.range, e.value))

---------------------------------------------------------------------------
(* Joysticks *)

\* LinuxJoystick::new numbers the keys from BTN_JOYSTICK on and then the
\* others, and keeps the number of these at an index past the table's end.
NumberPanics(p) == \E k \in Keys[p] : k < FirstButton
ButtonOf(p, k) == Cardinality({j \in Keys[p] : FirstButton <= j /\ j < k})

\* The axis between -1 and 1, with the dead zone around its middle.
Clamped(v) == IF v < -Scale THEN -Scale ELSE IF v > Scale THEN Scale ELSE v
Calibrated(raw) ==
    LET off == Distance(Middle, raw) * Scale
    IN IF Distance(Middle, raw) < AxisInfo.flat THEN 0
       ELSE IF raw >= Middle THEN Clamped(off \div (AxisInfo.max - Middle))
       ELSE Clamped(-(off \div (Middle - AxisInfo.min)))

\* A hat is four bits (left, down, right, up), and each frame sets two.
Centred == [d \in Dirs |-> FALSE]
HatAfter(hat, el, v) ==
    [d \in Dirs |-> IF (el = "x") = (d \in {"left", "right"})
                    THEN d = (IF el = "x" THEN IF v > 0 THEN "right" ELSE "left"
                                          ELSE IF v > 0 THEN "down" ELSE "up") /\ v # 0
                    ELSE hat[d]]

\* LinuxJoystick::poll: the event a frame decodes to.
Decoded(p, hat, f) ==
    CASE f.el = "key" -> [kind |-> "button", id |-> ButtonOf(p, FirstButton), value |-> f.value]
      [] f.el = "axis" -> [kind |-> "axis", id |-> 0, value |-> Calibrated(f.value)]
      [] OTHER -> [kind |-> "hat", id |-> 0, value |-> HatAfter(hat, f.el, f.value)]

\* Frames up to one the kernel lost: next_event then says SYNC, and the loop
\* ends as on an error.
Lost == [el |-> "lost", value |-> 0]
ReadNow(q) == IF Lost \in ToSet(q) THEN SubSeq(q, 1, (CHOOSE i \in DOMAIN q : q[i] = Lost) - 1) ELSE q
LeftAfter(q) == SubSeq(q, Len(ReadNow(q)) + 2, Len(q))

---------------------------------------------------------------------------
PadsInit ==
    /\ plugged = {} /\ position = [p \in Pads |-> Rest]
    /\ monitor = <<>>
    /\ phase = "idle" /\ work = {}
    /\ joysticks = <<>> /\ opened = 0
    /\ lowId = 0 /\ takenIds = {}
    /\ windowPads = <<>>
    /\ focused = FALSE /\ mapped = FALSE
    /\ view = <<>>
    /\ reused = FALSE /\ doubled = FALSE /\ padPanic = FALSE

(* The devices *)

Listening == phase # "idle"
Announce(what, p) == monitor' = IF Listening THEN Append(monitor, [what |-> what, pad |-> p]) ELSE monitor
Plug(p) ==
    /\ p \notin plugged /\ opened + Len(monitor) + Cardinality(plugged) < MaxPlugs
    /\ plugged' = plugged \cup {p} /\ position' = [position EXCEPT ![p] = Rest]
    /\ Announce("add", p)
    /\ doubled' = (doubled \/ phase = "scan")
    /\ UNCHANGED <<phase, work, joysticks, opened, idVars, windowPads, focused, mapped, view, reused, padPanic>>
Unplug(p) ==
    /\ p \in plugged /\ plugged' = plugged \ {p}
    /\ Announce("remove", p)
    /\ joysticks' = [i \in DOMAIN joysticks |->
                        [joysticks[i] EXCEPT !.live = @ /\ joysticks[i].path # p]]
    /\ UNCHANGED <<position, phase, work, opened, idVars, windowPads, focused, mapped, view,
                   reused, doubled, padPanic>>
\* The kernel queues the frame for everyone who has the device open; a queue
\* that is full is given up.
WithFrame(j, p, f) ==
    IF j.path # p \/ ~j.live THEN j
    ELSE IF Len(j.queue) < MaxFrames
         THEN [j EXCEPT !.queue = Append(@, f), !.moved = @ \cup {f.el}]
         ELSE [j EXCEPT !.queue = <<Lost>>, !.stale = TRUE]
Move(p, el, v) ==
    /\ p \in plugged /\ position[p][el] # v /\ phase = "ready"
    /\ mapped /\ ~doubled                \* bound: a pad without a line has no answer to a frame
    /\ \E i \in DOMAIN joysticks : joysticks[i].path = p
    /\ position' = [position EXCEPT ![p][el] = v]
    /\ joysticks' = [i \in DOMAIN joysticks |-> WithFrame(joysticks[i], p, [el |-> el, value |-> v])]
    /\ UNCHANGED <<plugged, monitor, phase, work, opened, idVars, windowPads, focused, mapped, view,
                   reused, doubled, padPanic>>

---------------------------------------------------------------------------
(* Ids: take_gamepad_id and put_gamepad_id_back *)

TakeGamepadId == CHOOSE i \in lowId .. lowId + Cardinality(takenIds) :
                    i \notin takenIds /\ \A k \in lowId .. i - 1 : k \in takenIds
LowAfter(id) == IF id = lowId THEN lowId + 1 ELSE lowId
PutBack(id) == IF id < lowId THEN id ELSE lowId

Shown == phase \notin {"idle", "scan", "found"}      \* window_added
Fresh == [t \in Buttons \cup Axes |-> 0]
LessPad(f, k) == [i \in DOMAIN f \ {k} |-> f[i]]
With(f, k, v) == [i \in DOMAIN f \cup {k} |-> IF i = k THEN v ELSE f[i]]

\* on_device_added: what went away meanwhile cannot be opened.  The pad gets
\* its id and mapping and is announced before the joystick is in the list.
DeviceAdded(p) ==
    IF p \notin plugged THEN UNCHANGED <<joysticks, opened, idVars, windowPads, view, padPanic>>
    ELSE IF NumberPanics(p) THEN padPanic' = TRUE /\ UNCHANGED <<joysticks, opened, idVars, windowPads, view>>
    ELSE LET id == TakeGamepadId
         IN /\ lowId' = LowAfter(id) /\ UNCHANGED takenIds
            /\ opened' = opened + 1
            /\ joysticks' = Append(joysticks,
                  [path |-> p, pad |-> id, serial |-> opened, hat |-> Centred, queue |-> <<>>,
                   live |-> TRUE, moved |-> {}, stale |-> FALSE,
                   mapping |-> IF mapped THEN Parsed(Line) ELSE <<>>])
            /\ windowPads' = With(windowPads, id, opened)
            /\ view' = IF Shown THEN With(view, id, Fresh) ELSE view
            /\ UNCHANGED padPanic

\* on_device_removed: the first joystick of that path goes, and its id.
Forgotten(id) == LessPad(windowPads, id)
DeviceRemoved(p) ==
    LET its == {i \in DOMAIN joysticks : joysticks[i].path = p}
        first == CHOOSE i \in its : \A k \in its : i <= k
        id == joysticks[first].pad
    IN IF its = {} THEN UNCHANGED <<joysticks, idVars, windowPads, view, reused>>
       ELSE /\ joysticks' = RemoveAt(joysticks, first)
            /\ lowId' = PutBack(id) /\ takenIds' = takenIds \ {id}
            /\ windowPads' = Forgotten(id)
            /\ view' = IF Shown THEN LessPad(view, id) ELSE view
            /\ reused' = TRUE

---------------------------------------------------------------------------
(* The thread: the window is shown, then each of its polls runs this *)

\* Only the window of the fallback path loads the mapping lines.
LoadMappings ==
    /\ phase = "idle" /\ ~mapped /\ mapped' = TRUE
    /\ UNCHANGED <<deviceVars, monitor, phase, work, joysticks, opened, idVars, windowPads, focused,
                   view, reused, doubled, padPanic>>
\* initialize: first the monitor listens, then the devices are listed.
Initialize ==
    /\ phase = "idle" /\ phase' = "scan"
    /\ UNCHANGED <<deviceVars, monitor, work, joysticks, opened, idVars, windowPads, focused, mapped,
                   view, reused, doubled, padPanic>>
ScanDevices ==
    /\ phase = "scan" /\ phase' = "found" /\ work' = plugged
    /\ UNCHANGED <<deviceVars, monitor, joysticks, opened, idVars, windowPads, focused, mapped, view,
                   reused, doubled, padPanic>>
AddFound(p) ==
    /\ phase = "found" /\ p \in work /\ work' = work \ {p}
    /\ DeviceAdded(p)
    /\ UNCHANGED <<deviceVars, monitor, phase, focused, mapped, reused, doubled>>
\* add_window reports the pads there are.
AddWindow ==
    /\ phase = "found" /\ work = {} /\ phase' = "ready"
    /\ view' = [id \in DOMAIN windowPads |-> Fresh]
    /\ UNCHANGED <<deviceVars, monitor, work, joysticks, opened, idVars, windowPads, focused, mapped,
                   reused, doubled, padPanic>>
OnWindowFocused(b) ==
    /\ phase = "ready" /\ focused # b /\ focused' = b
    /\ UNCHANGED <<deviceVars, monitor, phase, work, joysticks, opened, idVars, windowPads, mapped,
                   view, reused, doubled, padPanic>>
\* update: nothing at all without the focus.
UpdatePads ==
    /\ phase = "ready" /\ focused /\ phase' = "hotplug"
    /\ UNCHANGED <<deviceVars, monitor, work, joysticks, opened, idVars, windowPads, focused, mapped,
                   view, reused, doubled, padPanic>>
HandleHotplug ==
    /\ phase = "hotplug" /\ monitor # <<>> /\ monitor' = Tail(monitor)
    /\ IF Head(monitor).what = "add"
       THEN DeviceAdded(Head(monitor).pad) /\ UNCHANGED reused
       ELSE DeviceRemoved(Head(monitor).pad) /\ UNCHANGED <<opened, padPanic>>
    /\ UNCHANGED <<deviceVars, phase, work, focused, mapped, doubled>>
\* What an event, and the frames of j, make of the game's view of its pad.
AfterEvent(v, mapping, e) ==
    LET heard[k \in 0 .. Len(mapping)] ==
            IF k = 0 THEN v
            ELSE IF Answers(mapping[k], e)
            THEN [heard[k - 1] EXCEPT ![mapping[k].to.target] = Answer(mapping[k], e)]
            ELSE heard[k - 1]
    IN  heard[Len(mapping)]
PadHeard(pads, j, e) ==
    IF j.pad \notin DOMAIN pads THEN pads
    ELSE [pads EXCEPT ![j.pad] = AfterEvent(@, j.mapping, e)]
AfterFrame(s, j, f) ==
    LET e == Decoded(j.path, s.hat, f)
    IN [hat |-> IF e.kind = "hat" THEN e.value ELSE s.hat, view |-> PadHeard(s.view, j, e)]
Polled(pads, j) ==
    LET frames == ReadNow(j.queue)
        after[n \in 0 .. Len(frames)] ==
            IF n = 0 THEN [hat |-> j.hat, view |-> pads] ELSE AfterFrame(after[n - 1], j, frames[n])
    IN  after[Len(frames)]
AllPolled ==
    LET seen[i \in 0 .. Len(joysticks)] ==
            IF i = 0 THEN view ELSE Polled(seen[i - 1], joysticks[i]).view
    IN  seen[Len(joysticks)]
\* With no event of udev left, one joystick after the other is read.
PollJoysticks ==
    /\ phase = "hotplug" /\ monitor = <<>> /\ phase' = "ready"
    /\ joysticks' = [i \in DOMAIN joysticks |->
          [joysticks[i] EXCEPT !.hat = Polled(view, joysticks[i]).hat, !.queue = LeftAfter(@)]]
    /\ view' = AllPolled
    /\ UNCHANGED <<deviceVars, monitor, work, opened, idVars, windowPads, focused, mapped,
                   reused, doubled, padPanic>>

PadsNext ==
    \/ padPanic /\ UNCHANGED padsVars      \* the program ended
    \/ ~padPanic /\
       \/ \E p \in Pads : Plug(p) \/ Unplug(p) \/ AddFound(p)
       \/ \E f \in Moves : Move(f.pad, f.el, f.value)
       \/ LoadMappings \/ Initialize \/ ScanDevices \/ AddWindow
       \/ \E b \in BOOLEAN : OnWindowFocused(b)
       \/ UpdatePads \/ HandleHotplug \/ PollJoysticks

PadsSpec == PadsInit /\ [][PadsNext]_padsVars

---------------------------------------------------------------------------
(* Correctness *)

\* Ids are told apart, and are the first ones, until one comes back.
IdsDistinct ==
    \A i, k \in DOMAIN joysticks :
        ~reused => joysticks[i].pad = i - 1 /\ (joysticks[i].pad = joysticks[k].pad => i = k)

\* The game knows the pads the window knows, and these are joysticks.
PadsKnown ==
    /\ Shown => DOMAIN view = DOMAIN windowPads
    /\ ~reused => \A id \in DOMAIN windowPads : \E i \in DOMAIN joysticks :
           joysticks[i].pad = id /\ joysticks[i].serial = windowPads[id]

\* When nothing is left to receive the joysticks are the devices, each once,
\* unless one was plugged in between the two halves of initialize.
JoysticksAreDevices ==
    phase = "hotplug" /\ monitor = <<>> /\ ~doubled =>
        /\ {joysticks[i].path : i \in DOMAIN joysticks} = plugged
        /\ \A i, k \in DOMAIN joysticks : joysticks[i].path = joysticks[k].path => i = k

\* What the position of a device means, with no history.
HatOf(pos) == HatAfter(HatAfter(Centred, "x", pos["x"]), "y", pos["y"])
Means(m, pos) ==
    LET v == Calibrated(pos["axis"])
    IN CASE m.from.kind = "button" -> Switched(m.to, pos["key"] = 1)
         [] m.from.kind = "hat" -> Switched(m.to, HatOf(pos)[m.from.mask])
         [] m.from.kind = "axis" -> IF m.to.target \in Axes THEN Transformed(m.from.range, m.to.range, v)
                                    ELSE Switched(m.to, IsAxisActive(m.from.range, v))
\* Whether it is for what moved of a device (each has one of a kind).
Applies(m, moved, pos) ==
    m.from.id = 0 /\
    CASE m.from.kind = "button" -> "key" \in moved
      [] m.from.kind = "hat" -> moved \cap {"x", "y"} # {}
      [] m.from.kind = "axis" -> "axis" \in moved /\
            (m.to.target \in Axes => LET v == Calibrated(pos["axis"]) r == m.from.range
                                     IN (r[1] <= v /\ v <= r[2]) \/ (r[2] <= v /\ v <= r[1]))
\* With all frames read, what moved since the pad was opened is seen as it
\* is, whenever the window had the focus, if no frame was lost; and no axis
\* leaves its range.
SeenAsIs ==
    /\ \A id \in DOMAIN view : view[id]["lefttrigger"] \in 0 .. Scale /\ view[id]["leftx"] \in -Scale .. Scale
    /\ \A i \in DOMAIN joysticks :
          LET j == joysticks[i]
          IN ~reused /\ ~doubled /\ j.live /\ ~j.stale /\ j.queue = <<>> =>
                \A k \in DOMAIN j.mapping :
                   Applies(j.mapping[k], j.moved, position[j.path]) =>
                      view[j.pad][j.mapping[k].to.target] = Means(j.mapping[k], position[j.path])

\* The pads of the game are the devices (gamepad/).
PadsSound == ~padPanic => IdsDistinct /\ PadsKnown /\ JoysticksAreDevices /\ SeenAsIs
=============================================================================
