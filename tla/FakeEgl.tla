------------------------------- MODULE FakeEgl -------------------------------
(***************************************************************************)
(* The EGL library the game is given: which address it gets for a GL       *)
(* function (the driver's, a stub, a counting wrapper, or on a desktop GL  *)
(* the wrappers that give each program its own vertex array), what those   *)
(* wrappers do to the driver's bindings, and eglMakeCurrent on several     *)
(* threads over one window whose surface is a process-wide variable.       *)
(* A desktop GL is macOS, where the window is GLFW's and there is no EGL.   *)
(***************************************************************************)
EXTENDS Naturals

CONSTANTS
    Creator,       \* the thread that makes the window
    RenderThreads, \* threads that make the context current
    Programs,      \* GL programs, numbers above 0
    GlBuffers,     \* GL buffers, numbers above 0
    MaxVaos        \* bound: vertex arrays, and so links

ASSUME EglAssumption == MaxVaos \in Nat

VARIABLES
    installed,     \* none, resolver, overrides, relocated, ready
    host,          \* functions the driver's eglGetProcAddress knows
    resolver,      \* HOST_PROC_ADDR_FN: null or the driver's
    desktop,       \* mc_glcorepatch_must_use_desktop_gl
    display,       \* SAVED_EGL_DISPLAY is set
    overrides,     \* HOST_PROC_OVERRIDES
    counted,       \* REAL_GL_CLEAR and its like
    originals,     \* what the wrappers of the core patch call
    handed,        \* the addresses the game's GL imports were bound to
    driver,        \* the driver's bindings: vertex array, array and element buffer
    vaoOf,         \* VAO_MAP; 0 is absent
    tracked,       \* GL_TRACKED_BUFFERS
    gameBinds,     \* ghost: what the game bound last, and buffers it deleted
    fresh,         \* ghost: no program was linked since glUseProgram
    contextOn,     \* threads on which the driver has the context current
    realSurface,   \* threads with TLS_REAL_SURFACE
    drawSurface    \* CURRENT_DRAW_SURFACE is set

glVars == <<driver, vaoOf, tracked, gameBinds, fresh>>
bindVars == <<contextOn, realSurface, drawSurface>>
procVars == <<installed, host, resolver, desktop, display, overrides, counted, originals, handed>>
eglVars == <<procVars, glVars, bindVars>>

-----------------------------------------------------------------------------
\* The families of functions that are treated alike, by one member each.
Instanced == {"glVertexAttribDivisor", "glDrawArraysInstanced"}
Extension == [n \in Instanced |-> IF n = "glDrawArraysInstanced" THEN "drawOES" ELSE "divisorOES"]
Wrapped == {"glLinkProgram", "glUseProgram", "glBindBuffer"}
GlNames == Instanced \cup Wrapped \cup {"glClear"}
Optional == Instanced \cup {Extension[n] : n \in Instanced} \cup {"glClear"}

Resolve(n) == IF resolver = "driver" /\ n \in host THEN "driver" ELSE "null"
GetProcAddress(n) == IF overrides[n] # "none" THEN overrides[n] ELSE Resolve(n)

NoBindings == [vao |-> 0, vaos |-> 0, array |-> 0, element |-> [v \in 0 .. MaxVaos |-> 0]]

EglInit ==
    /\ installed = "none" /\ host = {} /\ resolver = "null" /\ desktop = FALSE /\ display = FALSE
    /\ overrides = [n \in GlNames |-> "none"]
    /\ counted = "null" /\ originals = [n \in Wrapped |-> "null"]
    /\ handed = [n \in GlNames |-> "null"]
    /\ driver = NoBindings /\ vaoOf = [p \in Programs |-> 0]
    /\ tracked = [array |-> 0, element |-> 0]
    /\ gameBinds = [array |-> 0, element |-> 0, deleted |-> {}]
    /\ fresh = FALSE
    /\ contextOn = {} /\ realSurface = {} /\ drawSurface = FALSE

\* Linux: the resolver is the real eglGetProcAddress, and REAL_EGL_MAKE_CURRENT
\* is loaded with it, or both are null without libEGL.so.  macOS: the resolver is
\* GLFW's, REAL_EGL_MAKE_CURRENT is null, and the window made before has its
\* context current on the thread that made it.
RealEgl == resolver = "driver" /\ ~desktop
SetProcAddrFunction(loadable, core, known) ==
    /\ installed = "none"
    /\ installed' = "resolver"
    /\ resolver' = IF loadable \/ core THEN "driver" ELSE "null"
    /\ desktop' = core
    /\ host' = Wrapped \cup known
    /\ contextOn' = IF core THEN {Creator} ELSE contextOn
    /\ UNCHANGED <<display, overrides, counted, originals, handed, glVars, realSurface, drawSurface>>

\* Names the game calls without looking at the address get a stub if need be.
InstancedFunction(n) ==
    IF Resolve(n) # "null" \/ Resolve(Extension[n]) # "null" THEN "driver" ELSE "stub"

\* The wrappers are put in after their originals were looked up.
SetupGlOverrides ==
    /\ installed = "resolver"
    /\ installed' = "overrides"
    /\ counted' = Resolve("glClear")
    /\ originals' = [n \in Wrapped |-> IF desktop THEN GetProcAddress(n) ELSE "null"]
    /\ overrides' = [n \in GlNames |->
          IF n \in Instanced THEN InstancedFunction(n)
          ELSE IF n = "glClear" /\ Resolve(n) # "null" THEN "counting"
          ELSE IF n \in Wrapped /\ desktop THEN "patch" ELSE overrides[n]]
    /\ UNCHANGED <<host, resolver, desktop, display, handed, glVars, bindVars>>

RelocateGlesv2Symbols ==
    /\ installed = "overrides"
    /\ installed' = "relocated"
    /\ handed' = [n \in GlNames |-> GetProcAddress(n)]
    /\ UNCHANGED <<host, resolver, desktop, display, overrides, counted, originals, glVars, bindVars>>

\* The display of the window, if one could be opened, is saved; macOS has one of
\* its own making and asks to release the context of the window's thread, which
\* needs the real EGL.
Released(t) == IF RealEgl /\ display' THEN contextOn \ {t} ELSE contextOn
SaveCurrentWindowHandle(opened) ==
    /\ installed = "relocated" /\ (desktop => opened)
    /\ installed' = "ready"
    /\ display' = opened
    /\ contextOn' = IF desktop THEN Released(Creator) ELSE contextOn
    /\ UNCHANGED <<host, resolver, desktop, overrides, counted, originals, handed, glVars, realSurface, drawSurface>>

-----------------------------------------------------------------------------
(* The driver: the element buffer belongs to the vertex array. *)

BindVertexArray(d, v) == [d EXCEPT !.vao = v]
GenVertexArray(d) == [d EXCEPT !.vaos = @ + 1]
DriverBinds(d, target, b) ==
    IF target = "array" THEN [d EXCEPT !.array = b] ELSE [d EXCEPT !.element[d.vao] = b]
BindBoth(d, t) == DriverBinds(DriverBinds(d, "array", t.array), "element", t.element)

Rendering == installed = "ready" /\ contextOn # {}
Patched(n) == handed[n] = "patch"

GlLinkProgram(p) ==
    /\ Rendering /\ driver.vaos < MaxVaos /\ Patched("glLinkProgram")
    /\ driver' = BindVertexArray(GenVertexArray(driver), driver.vaos + 1)
    /\ vaoOf' = [vaoOf EXCEPT ![p] = driver.vaos + 1]
    /\ fresh' = FALSE
    /\ UNCHANGED <<tracked, gameBinds, procVars, bindVars>>

\* Mutant: the buffers are bound again before the vertex array is.
BuffersFirst(d, v) == BindVertexArray(BindBoth(d, tracked), v)
AfterUse(d, v) == BindBoth(BindVertexArray(d, v), tracked)

\* Program 0 only unbinds; one that was never linked would panic.
GlUseProgram(p) ==
    /\ Rendering /\ Patched("glUseProgram") /\ vaoOf[p] # 0
    /\ driver' = AfterUse(driver, vaoOf[p])
    /\ fresh' = TRUE
    /\ UNCHANGED <<vaoOf, tracked, gameBinds, procVars, bindVars>>

GlBindBuffer(target, b) ==
    /\ Rendering /\ Patched("glBindBuffer")
    /\ driver' = DriverBinds(driver, target, b)
    /\ tracked' = [tracked EXCEPT ![target] = b]
    /\ gameBinds' = [gameBinds EXCEPT ![target] = b]
    /\ UNCHANGED <<vaoOf, fresh, procVars, bindVars>>

\* Not overridden: the driver unbinds the buffer, the tracking does not.
GlDeleteBuffer(b) ==
    /\ Rendering /\ desktop /\ b \notin gameBinds.deleted
    /\ driver' = [driver EXCEPT !.array = IF @ = b THEN 0 ELSE @,
                                !.element[driver.vao] = IF @ = b THEN 0 ELSE @]
    /\ gameBinds' = [array |-> IF gameBinds.array = b THEN 0 ELSE gameBinds.array,
                  element |-> IF gameBinds.element = b THEN 0 ELSE gameBinds.element,
                  deleted |-> gameBinds.deleted \cup {b}]
    /\ UNCHANGED <<vaoOf, tracked, fresh, procVars, bindVars>>

-----------------------------------------------------------------------------
\* An EGL context is current on one thread; elsewhere the driver refuses, which
\* eglutMakeCurrent only prints.  GLFW's may be on several.
EglutMakeCurrent(t) ==
    contextOn' = IF ~display THEN contextOn
                 ELSE IF desktop THEN contextOn \cup {t}
                 ELSE IF contextOn \subseteq {t} THEN {t} ELSE contextOn

\* The window of macOS has no EGL surface to remember.
MakeCurrent(t) ==
    /\ installed = "ready"
    /\ EglutMakeCurrent(t)
    /\ drawSurface' = TRUE
    /\ realSurface' = IF display /\ ~desktop THEN realSurface \cup {t} ELSE realSurface
    /\ UNCHANGED <<procVars, glVars>>

\* Without a surface of its own the thread unbinds the one the process has,
\* and when there is none asks the real eglMakeCurrent.
Unbinds == drawSurface \/ (RealEgl /\ display)
ReleaseCurrent(t) ==
    /\ installed = "ready"
    /\ contextOn' = IF Unbinds THEN contextOn \ {t} ELSE contextOn
    /\ drawSurface' = FALSE
    /\ realSurface' = realSurface \ {t}
    /\ UNCHANGED <<procVars, glVars>>

\* Bound: drivers that know nothing optional, all of it, or one thing alone.
KnownSets == {{}, Optional} \cup {{n} : n \in Optional}
EglNext ==
    \/ \E loadable, core \in BOOLEAN, known \in KnownSets : SetProcAddrFunction(loadable, core, known)
    \/ SetupGlOverrides \/ RelocateGlesv2Symbols \/ \E opened \in BOOLEAN : SaveCurrentWindowHandle(opened)
    \/ \E p \in Programs : GlLinkProgram(p) \/ GlUseProgram(p)
    \/ \E target \in {"array", "element"}, b \in GlBuffers \cup {0} : GlBindBuffer(target, b)
    \/ \E b \in GlBuffers : GlDeleteBuffer(b)
    \/ \E t \in RenderThreads : MakeCurrent(t) \/ ReleaseCurrent(t)

EglSpec == EglInit /\ [][EglNext]_eglVars

-----------------------------------------------------------------------------
(***************************************************************************)
(* No address the game is given is null where it does not look, and none   *)
(* leads back to itself (rust_bridge.rs, the core patch).  After           *)
(* glUseProgram, until the next link, the driver has the buffers bound     *)
(* that the game bound last, except that a deleted one may come back.  A   *)
(* thread whose real surface is forgotten does not keep the context, not   *)
(* even when another thread gave up the process's surface meanwhile        *)
(* (fake_egl_make_current).  Not so, in the code, without a real           *)
(* eglMakeCurrent, that is on macOS or without libEGL.so: make on one      *)
(* thread, unbind on another and then on the first leaves it the context.  *)
(***************************************************************************)
SameBinding(bound, target) ==
    bound = gameBinds[target] \/ (bound \in gameBinds.deleted /\ gameBinds[target] = 0)
FakeEglSound ==
    /\ installed \in {"overrides", "relocated", "ready"} =>
          /\ \A n \in Instanced : GetProcAddress(n) # "null"
          /\ overrides["glClear"] = "counting" => counted = "driver"
          /\ \A n \in Wrapped : overrides[n] = "patch" => originals[n] = "driver"
    /\ fresh => SameBinding(driver.array, "array") /\ SameBinding(driver.element[driver.vao], "element")
    /\ RealEgl => contextOn \subseteq realSurface
=============================================================================
