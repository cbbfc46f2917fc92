------------------------------ MODULE MCClient ------------------------------
(***************************************************************************)
(* Instances of the components that carry input from the desktop to the    *)
(* game.  The components share no state, so they are checked one at a time:*)
(* component says whose turn it is, and the others keep their initial      *)
(* state.                                                                  *)
(***************************************************************************)
EXTENDS Looper, TextInput, WindowInput, Gamepads

CONSTANTS t1, m1, pad1, pad2, pad3

\* One letter of two bytes.
MCWidth == ("a" :> 1) @@ ("e2" :> 2) @@ (" " :> 1)

\* One device has a key below BTN_JOYSTICK.
MCKeys == pad1 :> {3, 4} @@ pad2 :> {3} @@ pad3 :> {0, 3}
MCMoves == [pad : {pad1}, el : {"key"}, value : {0, 1}] \cup [pad : {pad1}, el : {"x"}, value : {-1, 0}]
    \cup [pad : {pad2}, el : {"axis"}, value : {0, 5}]
MCAxisInfo == [min |-> 0, max |-> 7, flat |-> 2]
MCEntry(tmod, target, smod, inv, source, id, mask) ==
    [tmod |-> tmod, target |-> target, smod |-> smod, inv |-> inv, source |-> source, id |-> id, mask |-> mask]
MCLine == <<MCEntry("", "a", "", FALSE, "button", 0, "left"), MCEntry("", "dpleft", "", FALSE, "hat", 0, "left"),
            MCEntry("", "dpdown", "", FALSE, "hat", 0, "down"), MCEntry("", "platform", "", FALSE, "bad", 0, "left"),
            MCEntry("", "b", "-", FALSE, "axis", 0, "left"), MCEntry("", "lefttrigger", "+", TRUE, "axis", 0, "left"),
            MCEntry("+", "leftx", "+", FALSE, "axis", 0, "left"), MCEntry("-", "leftx", "-", FALSE, "axis", 0, "left")>>

VARIABLE component     \* the component this behaviour is about

allVars == <<component, looperVars, textVars, windowVars, padsVars>>

Components == {"looper", "text", "window", "pads"}

SuiteInit ==
    /\ component \in Components
    /\ LooperInit
    /\ TextInit
    /\ WindowInit
    /\ PadsInit

OnlyLooper == component = "looper" /\ UNCHANGED <<component, textVars,
             windowVars, padsVars>>
OnlyText == component = "text" /\ UNCHANGED <<component, looperVars,
             windowVars, padsVars>>
OnlyWindow == component = "window" /\ UNCHANGED <<component, looperVars,
             textVars, padsVars>>
OnlyPads == component = "pads" /\ UNCHANGED <<component, looperVars,
             textVars, windowVars>>

SuiteNext ==
    \/ OnlyLooper /\ LooperNext
    \/ OnlyText /\ TextNext
    \/ OnlyWindow /\ WindowNext
    \/ OnlyPads /\ PadsNext

SuiteSpec ==
    /\ SuiteInit /\ [][SuiteNext]_allVars
=============================================================================
