------------------------------- MODULE MCGame -------------------------------
(***************************************************************************)
(* Instances of the components that serve the game.  The components share  *)
(* no state, so they are checked one at a time: component says whose turn  *)
(* it is, and the others keep their initial state.                         *)
(***************************************************************************)
EXTENDS GameNet, GameStart, SignIn, MainActivity, JavaVm, FakeEgl, Overlay,
        ModMenu, Audio

CONSTANTS q1, c1, c2, s1, s2, g1

MCBodySize == c1 :> 0 @@ c2 :> 2

MCRun(smoke, relative, missing, quiet, overridden, holder, asks) ==
    [smoke |-> smoke, relative |-> relative, missing |-> missing, quiet |-> quiet, overridden |-> overridden,
     holder |-> holder, asks |-> asks]
\* One thing out of the ordinary at a time; the mods ask on a complete disk and without libc++.
MCRuns == {MCRun(s, r, {}, FALSE, FALSE, "none", {}) : s \in BOOLEAN, r \in BOOLEAN}
    \cup {MCRun(FALSE, FALSE, {l}, FALSE, FALSE, "none", {}) : l \in {"fmod", "pairip", "game"}}
    \cup {MCRun(FALSE, FALSE, {"sqlite"}, FALSE, o, "app", {}) : o \in BOOLEAN}
    \cup {MCRun(FALSE, FALSE, {}, TRUE, FALSE, "none", {}), MCRun(FALSE, FALSE, {"c++"}, FALSE, FALSE, "none", {"moda"}),
            MCRun(FALSE, FALSE, {}, FALSE, FALSE, "none", {"moda", "modb"})}

\* What the launcher registers for two classes, and what the game registers itself,
\* its own "run" in class 1 replacing the launcher's.
MCNative(c, m, who) == [class |-> c, method |-> m, by |-> who]
MCTables == {{MCNative(1, "run", "launcher"), MCNative(1, "<init>(J)V", "launcher"), MCNative(1, "<init>(I)V", "launcher")},
    {MCNative(2, "run", "launcher")}, {MCNative(2, "<init>()V", "launcher")}, {MCNative(1, "run", "game")}}

VARIABLE component     \* the component this behaviour is about

allVars == <<component, netVars, startVars, signVars, activityVars, vmVars,
             eglVars, overlayVars, menuVars, audioVars>>

Components == {"net", "start", "signin", "activity", "vm", "egl",
               "overlay", "menu", "audio"}

SuiteInit ==
    /\ component \in Components
    /\ NetInit
    /\ StartInit
    /\ SignInit
    /\ ActivityInit
    /\ VmInit
    /\ EglInit
    /\ OverlayInit
    /\ MenuInit
    /\ AudioInit

OnlyNet == component = "net" /\ UNCHANGED <<component, startVars, signVars,
             activityVars, vmVars, eglVars, overlayVars, menuVars,
             audioVars>>
OnlyStart == component = "start" /\ UNCHANGED <<component, netVars,
             signVars, activityVars, vmVars, eglVars, overlayVars,
             menuVars, audioVars>>
OnlySignin == component = "signin" /\ UNCHANGED <<component, netVars,
             startVars, activityVars, vmVars, eglVars, overlayVars,
             menuVars, audioVars>>
OnlyActivity == component = "activity" /\ UNCHANGED <<component, netVars,
             startVars, signVars, vmVars, eglVars, overlayVars, menuVars,
             audioVars>>
OnlyVm == component = "vm" /\ UNCHANGED <<component, netVars, startVars,
             signVars, activityVars, eglVars, overlayVars, menuVars,
             audioVars>>
OnlyEgl == component = "egl" /\ UNCHANGED <<component, netVars, startVars,
             signVars, activityVars, vmVars, overlayVars, menuVars,
             audioVars>>
OnlyOverlay == component = "overlay" /\ UNCHANGED <<component, netVars,
             startVars, signVars, activityVars, vmVars, eglVars, menuVars,
             audioVars>>
OnlyMenu == component = "menu" /\ UNCHANGED <<component, netVars,
             startVars, signVars, activityVars, vmVars, eglVars,
             overlayVars, audioVars>>
OnlyAudio == component = "audio" /\ UNCHANGED <<component, netVars,
             startVars, signVars, activityVars, vmVars, eglVars,
             overlayVars, menuVars>>

SuiteNext ==
    \/ OnlyNet /\ NetNext
    \/ OnlyStart /\ StartNext
    \/ OnlySignin /\ SignNext
    \/ OnlyActivity /\ ActivityNext
    \/ OnlyVm /\ VmNext
    \/ OnlyEgl /\ EglNext
    \/ OnlyOverlay /\ OverlayNext
    \/ OnlyMenu /\ MenuNext
    \/ OnlyAudio /\ AudioNext

SuiteSpec ==
    /\ SuiteInit /\ [][SuiteNext]_allVars
=============================================================================
