----------------------------- MODULE GameProofs -----------------------------
(***************************************************************************)
(* Theorems about what the launcher hands the game: the EGL library it     *)
(* draws with, the identity its activity keeps, the keys and redirects of  *)
(* a sign-in, the sound it hears, its requests and web sockets, the        *)
(* overlay and the menu drawn over it, and the Java VM it calls, for any   *)
(* programs, buffers, threads, accounts, files, calls, connections, keys,  *)
(* windows, classes and natives.                                           *)
(***************************************************************************)
EXTENDS FakeEgl, MainActivity, SignIn, Audio, GameNet, GameStart,
        Overlay, ModMenu, JavaVm,
        SequenceTheorems, FiniteSetTheorems, WellFoundedInduction, TLAPS

-----------------------------------------------------------------------------
(* EGL.  The inductive invariant.                                            *)

Buffers == GlBuffers \cup {0}
Vaos == 0 .. MaxVaos
Targets == {"array", "element"}

Bindings == [vao : Vaos, vaos : Vaos, array : Buffers, element : [Vaos -> Buffers]]

GlTypes ==
    /\ driver \in Bindings
    /\ vaoOf \in [Programs -> Vaos]
    /\ tracked \in [Targets -> Buffers]
    /\ gameBinds \in [array : Buffers, element : Buffers, deleted : SUBSET GlBuffers]

\* Nothing is overridden before setup_gl_overrides, and the wrapped functions are
\* the driver's by then: a desktop core profile has the driver's eglGetProcAddress.
BeforeOverrides ==
    installed \in {"none", "resolver"} => \A n \in GlNames : overrides[n] = "none"

DriverKnowsWrapped ==
    installed # "none" => Wrapped \subseteq host /\ (desktop => resolver = "driver")

OverridesLead ==
    installed \in {"overrides", "relocated", "ready"} =>
        /\ \A n \in Instanced : overrides[n] \in {"driver", "stub"}
        /\ overrides["glClear"] = "counting" => counted = "driver"
        /\ \A n \in Wrapped : overrides[n] = "patch" => originals[n] = "driver"

ProcInv ==
    /\ installed \in {"none", "resolver", "overrides", "relocated", "ready"}
    /\ resolver \in {"null", "driver"} /\ DOMAIN overrides = GlNames
    /\ BeforeOverrides /\ DriverKnowsWrapped /\ OverridesLead

\* What the core patch tracks is what the game bound, or a deleted buffer.
TrackedBindings == \A target \in Targets : SameBinding(tracked[target], target)

FreshBindings ==
    fresh => SameBinding(driver.array, "array") /\ SameBinding(driver.element[driver.vao], "element")

GlInv == GlTypes /\ TrackedBindings /\ FreshBindings

\* With a real EGL no thread has the context before the window's display is saved.
BindInv ==
    /\ installed = "none" => contextOn = {}
    /\ RealEgl => contextOn \subseteq realSurface
    /\ RealEgl /\ contextOn # {} => installed = "ready" /\ display

EglInv == ProcInv /\ GlInv /\ BindInv

-----------------------------------------------------------------------------
(* EGL.  The addresses.                                                      *)

LEMMA EglInitHolds == EglInit => EglInv
<1> SUFFICES ASSUME EglInit PROVE EglInv
  OBVIOUS
<1>1. ProcInv
  BY DEF EglInit, ProcInv, BeforeOverrides, DriverKnowsWrapped, OverridesLead
<1>2. /\ driver = [vao |-> 0, vaos |-> 0, array |-> 0, element |-> [v \in Vaos |-> 0]]
      /\ 0 \in Vaos /\ 0 \in Buffers
  BY EglAssumption DEF EglInit, NoBindings, Vaos, Buffers
<1>3. /\ driver \in Bindings /\ driver.vaos = 0 /\ driver.array = 0 /\ driver.element[driver.vao] = 0
  BY <1>2 DEF Bindings
<1>4. /\ \A p \in Programs : vaoOf[p] = 0
      /\ vaoOf \in [Programs -> Vaos]
  BY <1>2 DEF EglInit
<1>5. /\ tracked = [array |-> 0, element |-> 0] /\ gameBinds = [array |-> 0, element |-> 0, deleted |-> {}]
      /\ fresh = FALSE
  BY DEF EglInit
<1>6. tracked \in [Targets -> Buffers] /\ \A target \in Targets : tracked[target] = gameBinds[target]
  BY <1>2, <1>5 DEF Targets
<1>7. gameBinds \in [array : Buffers, element : Buffers, deleted : SUBSET GlBuffers]
  BY <1>2, <1>5
<1>8. GlInv
  BY <1>3, <1>4, <1>5, <1>6, <1>7 DEF GlInv, GlTypes, TrackedBindings, FreshBindings, SameBinding
<1> QED
  BY <1>1, <1>8 DEF EglInv, BindInv, RealEgl, EglInit

LEMMA AddressesKept ==
    ASSUME EglInv, EglNext
    PROVE  ProcInv'
<1>1. ASSUME NEW loadable \in BOOLEAN, NEW core \in BOOLEAN, NEW added \in KnownSets,
             SetProcAddrFunction(loadable, core, added)
      PROVE  ProcInv'
  BY <1>1 DEF SetProcAddrFunction, EglInv, ProcInv, BeforeOverrides, DriverKnowsWrapped, OverridesLead
<1>2. CASE SetupGlOverrides
  <2>1. /\ installed = "resolver" /\ installed' = "overrides" /\ UNCHANGED <<host, resolver, desktop>>
        /\ Wrapped \subseteq host /\ (desktop => resolver = "driver") /\ resolver \in {"null", "driver"}
        /\ \A n \in GlNames : overrides[n] = "none"
    BY <1>2 DEF SetupGlOverrides, EglInv, ProcInv, BeforeOverrides, DriverKnowsWrapped
  <2>2. /\ DOMAIN overrides' = GlNames
        /\ \A n \in Instanced : overrides'[n] \in {"driver", "stub"}
    BY <1>2 DEF SetupGlOverrides, GlNames, InstancedFunction
  <2>3. overrides'["glClear"] = "counting" => counted' = "driver"
    BY <1>2, <2>1 DEF SetupGlOverrides, GlNames, Instanced, Wrapped, Resolve
  <2>4. ASSUME NEW n \in Wrapped, overrides'[n] = "patch" PROVE originals'[n] = "driver"
    <3>1. n \in GlNames /\ n \notin Instanced /\ n # "glClear"
      BY DEF GlNames, Wrapped, Instanced
    <3>2. desktop
      BY <1>2, <2>1, <2>4, <3>1 DEF SetupGlOverrides
    <3>3. GetProcAddress(n) = "driver"
      BY <2>1, <3>1, <3>2 DEF GetProcAddress, Resolve
    <3> QED
      BY <1>2, <3>2, <3>3 DEF SetupGlOverrides
  <2> QED
    BY <2>1, <2>2, <2>3, <2>4 DEF ProcInv, BeforeOverrides, DriverKnowsWrapped, OverridesLead
<1>3. ASSUME NEW opened \in BOOLEAN, RelocateGlesv2Symbols \/ SaveCurrentWindowHandle(opened)
      PROVE  ProcInv'
  BY <1>3 DEF RelocateGlesv2Symbols, SaveCurrentWindowHandle, EglInv, ProcInv, BeforeOverrides, DriverKnowsWrapped, OverridesLead
<1>4. CASE UNCHANGED procVars
  BY <1>4 DEF procVars, EglInv, ProcInv, BeforeOverrides, DriverKnowsWrapped, OverridesLead
<1> QED
  BY <1>1, <1>2, <1>3, <1>4
  DEF EglNext, GlLinkProgram, GlUseProgram, GlBindBuffer, GlDeleteBuffer, MakeCurrent, ReleaseCurrent

-----------------------------------------------------------------------------
(* EGL.  The vertex arrays and buffers.                                      *)

LEMMA BoundElement ==
    ASSUME NEW d \in Bindings, NEW b \in Buffers
    PROVE  LET e == [d EXCEPT !.element[d.vao] = b]
           IN  /\ e \in Bindings /\ e.vao = d.vao /\ e.vaos = d.vaos /\ e.array = d.array
               /\ e.element[e.vao] = b
BY DEF Bindings

LEMMA DriverBindsTarget ==
    ASSUME NEW d \in Bindings, NEW target \in Targets, NEW b \in Buffers
    PROVE  LET e == DriverBinds(d, target, b)
           IN  /\ e \in Bindings /\ e.vao = d.vao /\ e.vaos = d.vaos
               /\ e.array = (IF target = "array" THEN b ELSE d.array)
               /\ e.element[e.vao] = (IF target = "element" THEN b ELSE d.element[d.vao])
<1>1. CASE target = "array"
  BY <1>1 DEF DriverBinds, Bindings
<1>2. CASE target = "element"
  BY <1>2, BoundElement DEF DriverBinds
<1> QED
  BY <1>1, <1>2 DEF Targets

\* After glUseProgram the driver has the tracked buffers bound.
LEMMA UseBindsTracked ==
    ASSUME GlTypes, NEW v \in Vaos
    PROVE  LET e == AfterUse(driver, v)
           IN  /\ e \in Bindings /\ e.vaos = driver.vaos
               /\ e.array = tracked["array"] /\ e.element[e.vao] = tracked["element"]
<1>1. PICK d \in Bindings : d = BindVertexArray(driver, v) /\ d.vaos = driver.vaos
  <2>1. BindVertexArray(driver, v) \in Bindings /\ BindVertexArray(driver, v).vaos = driver.vaos
    BY DEF GlTypes, Bindings, BindVertexArray
  <2> QED
    BY <2>1
<1>2. tracked["array"] \in Buffers /\ tracked["element"] \in Buffers
      /\ "array" \in Targets /\ "element" \in Targets
  BY DEF GlTypes, Targets
<1>3. PICK e \in Bindings : /\ e = DriverBinds(d, "array", tracked["array"])
                            /\ e.vaos = d.vaos /\ e.array = tracked["array"]
  BY <1>1, <1>2, DriverBindsTarget
<1>4. PICK f \in Bindings : /\ f = DriverBinds(e, "element", tracked["element"])
                            /\ f.vaos = e.vaos /\ f.array = e.array
                            /\ f.element[f.vao] = tracked["element"]
  BY <1>2, <1>3, DriverBindsTarget
<1>5. AfterUse(driver, v) = f
  BY <1>1, <1>3, <1>4 DEF AfterUse, BindBoth
<1> QED
  BY <1>1, <1>3, <1>4, <1>5

LEMMA LinkKeeps ==
    ASSUME GlInv, NEW p \in Programs, GlLinkProgram(p)
    PROVE  GlInv'
<1> DEFINE new == driver.vaos + 1
<1>1. driver.vaos \in Nat /\ new \in Vaos
  BY EglAssumption DEF GlInv, GlTypes, Bindings, GlLinkProgram, Vaos
<1>2. driver' \in Bindings /\ driver'.vaos = new
  BY <1>1 DEF GlLinkProgram, GlInv, GlTypes, Bindings, BindVertexArray, GenVertexArray
<1>3. vaoOf' \in [Programs -> Vaos]
  BY <1>1 DEF GlLinkProgram, GlInv, GlTypes
<1>4. UNCHANGED <<tracked, gameBinds>> /\ fresh' = FALSE
  BY DEF GlLinkProgram
<1>5. GlTypes' /\ TrackedBindings' /\ FreshBindings'
  BY <1>2, <1>3, <1>4 DEF GlInv, GlTypes, TrackedBindings, FreshBindings, SameBinding
<1> QED
  BY <1>5 DEF GlInv

LEMMA UseKeeps ==
    ASSUME GlInv, NEW p \in Programs, GlUseProgram(p)
    PROVE  GlInv'
<1>1. vaoOf[p] \in Vaos /\ driver' = AfterUse(driver, vaoOf[p]) /\ UNCHANGED <<vaoOf, tracked, gameBinds>>
  BY DEF GlUseProgram, GlInv, GlTypes
<1>2. /\ driver' \in Bindings /\ driver'.vaos = driver.vaos
      /\ driver'.array = tracked["array"] /\ driver'.element[driver'.vao] = tracked["element"]
  BY <1>1, UseBindsTracked DEF GlInv
<1>3. GlTypes' /\ TrackedBindings'
  BY <1>1, <1>2 DEF GlInv, GlTypes, TrackedBindings, SameBinding
<1>4. FreshBindings'
  BY <1>1, <1>2 DEF GlInv, TrackedBindings, FreshBindings, SameBinding, Targets
<1> QED
  BY <1>3, <1>4 DEF GlInv

LEMMA BindKeeps ==
    ASSUME GlInv, NEW target \in Targets, NEW b \in Buffers, GlBindBuffer(target, b)
    PROVE  GlInv'
<1>1. /\ driver' = DriverBinds(driver, target, b) /\ UNCHANGED <<vaoOf, fresh>>
      /\ tracked' = [tracked EXCEPT ![target] = b] /\ gameBinds' = [gameBinds EXCEPT ![target] = b]
  BY DEF GlBindBuffer
<1>2. /\ driver' \in Bindings /\ driver'.vaos = driver.vaos
      /\ driver'.array = (IF target = "array" THEN b ELSE driver.array)
      /\ driver'.element[driver'.vao] = (IF target = "element" THEN b ELSE driver.element[driver.vao])
  BY <1>1, DriverBindsTarget DEF GlInv, GlTypes
<1>3. /\ tracked' \in [Targets -> Buffers]
      /\ \A u \in Targets : tracked'[u] = IF u = target THEN b ELSE tracked[u]
  BY <1>1 DEF GlInv, GlTypes
<1>4. /\ gameBinds' \in [array : Buffers, element : Buffers, deleted : SUBSET GlBuffers]
      /\ gameBinds'.deleted = gameBinds.deleted
      /\ \A u \in Targets : gameBinds'[u] = IF u = target THEN b ELSE gameBinds[u]
  <2>1. CASE target = "array"
    BY <1>1, <2>1 DEF GlInv, GlTypes, Targets
  <2>2. CASE target = "element"
    BY <1>1, <2>2 DEF GlInv, GlTypes, Targets
  <2> QED
    BY <2>1, <2>2 DEF Targets
<1>5. GlTypes'
  BY <1>1, <1>2, <1>3, <1>4 DEF GlInv, GlTypes
<1>6. TrackedBindings'
  BY <1>3, <1>4 DEF GlInv, TrackedBindings, SameBinding
<1>7. FreshBindings'
  BY <1>1, <1>2, <1>4 DEF GlInv, FreshBindings, SameBinding, Targets
<1> QED
  BY <1>5, <1>6, <1>7 DEF GlInv

\* A buffer the game deletes may stay tracked, and come back.
LEMMA DeleteKeeps ==
    ASSUME GlInv, NEW b \in GlBuffers, GlDeleteBuffer(b)
    PROVE  GlInv'
<1>0. b \notin gameBinds.deleted /\ b \in Buffers /\ 0 \in Buffers /\ UNCHANGED <<vaoOf, tracked, fresh>>
  BY DEF GlDeleteBuffer, Buffers
<1>1. /\ driver' \in Bindings /\ driver'.vaos = driver.vaos
      /\ driver'.array = (IF driver.array = b THEN 0 ELSE driver.array)
      /\ driver'.element[driver'.vao] = (IF driver.element[driver.vao] = b THEN 0 ELSE driver.element[driver.vao])
  BY <1>0 DEF GlDeleteBuffer, GlInv, GlTypes, Bindings
<1>2. /\ gameBinds' \in [array : Buffers, element : Buffers, deleted : SUBSET GlBuffers]
      /\ gameBinds'.deleted = gameBinds.deleted \cup {b}
      /\ \A u \in Targets : gameBinds'[u] = IF gameBinds[u] = b THEN 0 ELSE gameBinds[u]
  BY <1>0 DEF GlDeleteBuffer, GlInv, GlTypes, Targets
<1>3. GlTypes'
  BY <1>0, <1>1, <1>2 DEF GlInv, GlTypes
<1>4. TrackedBindings'
  BY <1>0, <1>2 DEF GlInv, TrackedBindings, SameBinding
<1>5. FreshBindings'
  BY <1>0, <1>1, <1>2 DEF GlInv, FreshBindings, SameBinding, Targets
<1> QED
  BY <1>3, <1>4, <1>5 DEF GlInv

-----------------------------------------------------------------------------
(* EGL.  The theorem.                                                        *)

LEMMA BindingsOfThreadsKept ==
    ASSUME EglInv, EglNext
    PROVE  BindInv'
<1>1. ASSUME NEW t \in RenderThreads, MakeCurrent(t) PROVE BindInv'
  BY <1>1 DEF MakeCurrent, EglutMakeCurrent, EglInv, BindInv, RealEgl, procVars
<1>2. ASSUME NEW t \in RenderThreads, ReleaseCurrent(t) PROVE BindInv'
  BY <1>2 DEF ReleaseCurrent, Unbinds, EglInv, BindInv, RealEgl, procVars
<1>3. ASSUME NEW loadable \in BOOLEAN, NEW core \in BOOLEAN, NEW added \in KnownSets,
             SetProcAddrFunction(loadable, core, added)
      PROVE  BindInv'
  BY <1>3 DEF SetProcAddrFunction, EglInv, BindInv, RealEgl
<1>4. CASE SetupGlOverrides \/ RelocateGlesv2Symbols
  BY <1>4 DEF SetupGlOverrides, RelocateGlesv2Symbols, EglInv, BindInv, RealEgl, bindVars
<1>5. ASSUME NEW opened \in BOOLEAN, SaveCurrentWindowHandle(opened) PROVE BindInv'
  <2>1. CASE desktop
    BY <1>5, <2>1 DEF SaveCurrentWindowHandle, BindInv, RealEgl
  <2>2. CASE ~desktop
    <3>1. UNCHANGED <<resolver, desktop, contextOn, realSurface>> /\ installed' = "ready" /\ display' = opened
      BY <1>5, <2>2 DEF SaveCurrentWindowHandle
    <3> QED
      BY <1>5, <3>1 DEF SaveCurrentWindowHandle, EglInv, BindInv, RealEgl
  <2> QED
    BY <2>1, <2>2
<1>6. CASE UNCHANGED <<procVars, bindVars>>
  BY <1>6 DEF EglInv, BindInv, RealEgl, procVars, bindVars
<1> QED
  BY <1>1, <1>2, <1>3, <1>4, <1>5, <1>6
  DEF EglNext, GlLinkProgram, GlUseProgram, GlBindBuffer, GlDeleteBuffer

LEMMA GlKept ==
    ASSUME EglInv, EglNext
    PROVE  GlInv'
<1>1. CASE UNCHANGED glVars
  BY <1>1 DEF EglInv, GlInv, GlTypes, TrackedBindings, FreshBindings, SameBinding, glVars
<1>2. ASSUME NEW p \in Programs, GlLinkProgram(p) \/ GlUseProgram(p) PROVE GlInv'
  BY <1>2, LinkKeeps, UseKeeps DEF EglInv
<1>3. ASSUME NEW target \in Targets, NEW b \in Buffers, GlBindBuffer(target, b) PROVE GlInv'
  BY <1>3, BindKeeps DEF EglInv
<1>4. ASSUME NEW b \in GlBuffers, GlDeleteBuffer(b) PROVE GlInv'
  BY <1>4, DeleteKeeps DEF EglInv
<1> QED
  BY <1>1, <1>2, <1>3, <1>4
  DEF EglNext, SetProcAddrFunction, SetupGlOverrides, RelocateGlesv2Symbols, SaveCurrentWindowHandle,
      MakeCurrent, ReleaseCurrent, Targets, Buffers

\* Every address the game is given leads somewhere, after glUseProgram the driver
\* has the buffers bound that the game bound last, and with a real eglMakeCurrent a
\* thread that gave its surface up gave up the context: for any programs, buffers
\* and threads, whatever the driver knows.
THEOREM EglStaysSound == EglSpec => []FakeEglSound
<1>1. EglInv /\ [EglNext]_eglVars => EglInv'
  <2>1. EglInv /\ UNCHANGED eglVars => EglInv'
    BY DEF EglInv, ProcInv, BeforeOverrides, DriverKnowsWrapped, OverridesLead, GlInv, GlTypes,
           TrackedBindings, FreshBindings, SameBinding, BindInv, RealEgl,
           eglVars, procVars, glVars, bindVars
  <2>2. EglInv /\ EglNext => EglInv'
    BY AddressesKept, GlKept, BindingsOfThreadsKept DEF EglInv
  <2> QED
    BY <2>1, <2>2
<1>2. EglInv => FakeEglSound
  <2> SUFFICES ASSUME EglInv PROVE FakeEglSound
    OBVIOUS
  <2>1. installed \in {"overrides", "relocated", "ready"} => \A n \in Instanced : GetProcAddress(n) # "null"
    BY DEF EglInv, ProcInv, OverridesLead, GetProcAddress
  <2> QED
    BY <2>1 DEF FakeEglSound, EglInv, ProcInv, OverridesLead, GlInv, FreshBindings, BindInv
<1> QED
  BY <1>1, <1>2, EglInitHolds, PTL DEF EglSpec

-----------------------------------------------------------------------------
(* The identity.  The inductive invariant.                                   *)

LoginNames == {"access_token", "client_id", "profile_id", "profile_name"}
Identities == [Fields -> Accounts \cup {0}]
CallSteps == Seq(LoginNames \cup {"save", "write"})

\* The login in a map of fields is of one account, where it is of any.
OneAccount(i) ==
    \A f, g \in LoginNames :
        f \in DOMAIN i /\ g \in DOMAIN i => i[f] = 0 \/ i[g] = 0 \/ i[f] = i[g]

IdentityTypes ==
    /\ known = NotLoaded \/ known \in Identities
    /\ steps \in [IdentityThreads -> CallSteps]
    /\ image \in [IdentityThreads -> Identities \cup {NotLoaded}]

\* A call ends with a save, and one that is writing has nothing else to do.
CallsSave ==
    \A t \in IdentityThreads : steps[t] # << >> =>
        steps[t] = <<"write">> \/ steps[t][Len(steps[t])] = "save"

\* Who writes the file has the lock, so what it writes is what memory holds.
WriterHolds ==
    \A t \in IdentityThreads : steps[t] = <<"write">> => writing = t /\ image[t] = known

LoadedFirst == known = NotLoaded => \A t \in IdentityThreads : steps[t] = << >>

AccountsApart == OneAccount(known) /\ OneAccount(identityFile)

FileFollows ==
    known # NotLoaded /\ ~unsure /\ (\A t \in IdentityThreads : steps[t] = << >>) => identityFile = known

IdentityInv ==
    /\ identityFile \in Identities \cup {NotLoaded, HalfWritten} /\ unsure \in BOOLEAN
    /\ IdentityTypes /\ CallsSave /\ WriterHolds /\ LoadedFirst /\ AccountsApart /\ FileFollows

\* One update of the text is all that makes a hide be ignored.
KeyboardInv ==
    /\ keyboard \in [enabled : BOOLEAN, ignore : BOOLEAN]
    /\ keyboard.ignore => wanted = "updated"
    /\ keyboard.enabled => wanted # "hidden"

ActivityInv == IdentityInv /\ KeyboardInv

-----------------------------------------------------------------------------
(* The identity.  The steps.                                                 *)

LEMMA LoginFieldNames ==
    /\ Range(LoginFields) = LoginNames /\ LoginNames \subseteq Fields
    /\ LoginFields \in Seq(LoginNames)
<1>1. LoginFields \in Seq(LoginNames) /\ DOMAIN LoginFields = 1 .. 4
  BY DEF LoginFields, LoginNames
<1>2. Range(LoginFields) = LoginNames
  <2>1. Range(LoginFields) = {LoginFields[i] : i \in 1 .. 4}
    BY <1>1 DEF Range
  <2>2. /\ LoginFields[1] = "access_token" /\ LoginFields[2] = "client_id"
        /\ LoginFields[3] = "profile_id" /\ LoginFields[4] = "profile_name"
    BY DEF LoginFields
  <2>3. \A i \in 1 .. 4 : i = 1 \/ i = 2 \/ i = 3 \/ i = 4
    OBVIOUS
  <2> HIDE DEF LoginFields
  <2> QED
    BY <2>1, <2>2, <2>3 DEF LoginNames
<1> QED
  BY <1>1, <1>2 DEF Fields

\* A login of one account stays one when all its fields are set to one value, or
\* some are cleared, or fields beside it are set.
LEMMA WithFieldsKeeps ==
    ASSUME IdentityTypes, known # NotLoaded, OneAccount(known),
           NEW fields \in SUBSET Fields, NEW value \in Accounts \cup {0},
           fields = LoginNames \/ fields \cap LoginNames = {} \/ value = 0
    PROVE  /\ WithFields(fields, value) \in Identities /\ OneAccount(WithFields(fields, value))
           /\ WithFields(fields, value) # NotLoaded
<1>1. /\ known \in Identities /\ LoginNames \subseteq Fields
  BY LoginFieldNames DEF IdentityTypes
<1>2. PICK w \in Identities : /\ w = WithFields(fields, value)
                              /\ \A f \in Fields : w[f] = IF f \in fields THEN value ELSE known[f]
  <2>1. WithFields(fields, value) \in Identities
    BY <1>1 DEF WithFields, Identities
  <2> QED
    BY <2>1 DEF WithFields
<1>3. OneAccount(w)
  BY <1>1, <1>2 DEF OneAccount, Identities
<1>4. w # NotLoaded
  <2>1. "access_token" \in DOMAIN w
    BY <1>1 DEF Identities, LoginNames
  <2> QED
    BY <2>1 DEF NotLoaded
<1> QED
  BY <1>2, <1>3, <1>4

LEMMA NoStepsYet == << >> \in CallSteps /\ <<"save">> \in CallSteps /\ <<"write">> \in CallSteps
BY DEF CallSteps

LEMMA UnloadedIsOne == OneAccount(NotLoaded) /\ OneAccount(HalfWritten) /\ OneAccount(NoIdentity)
<1>1. OneAccount(NotLoaded)
  BY DEF OneAccount, NotLoaded
<1>2. OneAccount(HalfWritten)
  BY DEF OneAccount, HalfWritten, LoginNames
<1>3. OneAccount(NoIdentity)
  BY DEF OneAccount, NoIdentity
<1> QED
  BY <1>1, <1>2, <1>3

LEMMA ActivityInitHolds == ActivityInit => ActivityInv
<1> SUFFICES ASSUME ActivityInit PROVE ActivityInv
  OBVIOUS
<1>1. IdentityInv
  BY NoStepsYet, UnloadedIsOne
  DEF ActivityInit, IdentityInv, IdentityTypes, CallsSave, WriterHolds, LoadedFirst, AccountsApart, FileFollows
<1>2. KeyboardInv
  BY DEF ActivityInit, KeyboardInv
<1> QED
  BY <1>1, <1>2 DEF ActivityInv

LEMMA LoadKeeps ==
    ASSUME IdentityInv, LoadIdentityStore
    PROVE  IdentityInv'
<1>1. NoIdentity \in Identities
  BY DEF NoIdentity, Identities
<1>2. /\ known' \in Identities /\ OneAccount(known)' /\ unsure' \in BOOLEAN
      /\ ~unsure' => known' = identityFile
  <2>1. CASE identityFile \in {NotLoaded, HalfWritten}
    <3>1. known' = NoIdentity /\ unsure' = TRUE
      BY <2>1 DEF LoadIdentityStore
    <3> QED
      BY <1>1, <3>1, UnloadedIsOne DEF OneAccount
  <2>2. CASE identityFile \notin {NotLoaded, HalfWritten}
    <3>1. known' = identityFile /\ identityFile \in Identities
      BY <2>2 DEF LoadIdentityStore, IdentityInv
    <3>2. unsure' = FALSE
      <4>1. unsure' = (identityFile \in {NotLoaded, HalfWritten})
        BY DEF LoadIdentityStore
      <4>2. (identityFile \in {NotLoaded, HalfWritten}) = FALSE
        BY <2>2
      <4> QED
        BY <4>1, <4>2, Zenon
    <3> QED
      BY <3>1, <3>2 DEF OneAccount, IdentityInv, AccountsApart
  <2> QED
    BY <2>1, <2>2
<1>3. /\ UNCHANGED <<identityFile, writing, image, steps>>
      /\ \A t \in IdentityThreads : steps[t] = << >>
  BY DEF LoadIdentityStore, IdentityInv, LoadedFirst
<1> QED
  BY <1>2, <1>3 DEF IdentityInv, IdentityTypes, CallsSave, WriterHolds, LoadedFirst, AccountsApart, FileFollows,
                    OneAccount

\* A step of t that leaves it something to do, while nobody writes.
LEMMA CallGoesOn ==
    ASSUME IdentityInv, NEW t \in IdentityThreads, known # NotLoaded, writing = "nobody",
           NEW s \in CallSteps, s # << >>, s[Len(s)] = "save", s # <<"write">>,
           steps' = [steps EXCEPT ![t] = s], known' \in Identities, known' # NotLoaded, OneAccount(known)',
           UNCHANGED <<identityFile, writing, image, unsure>>
    PROVE  IdentityInv'
<1>1. /\ \A u \in IdentityThreads : steps[u] # <<"write">>
  BY ActivityAssumption DEF IdentityInv, WriterHolds
<1>2. /\ steps' \in [IdentityThreads -> CallSteps] /\ steps'[t] = s
      /\ \A u \in IdentityThreads : u # t => steps'[u] = steps[u]
  BY DEF IdentityInv, IdentityTypes
<1>3. CallsSave' /\ WriterHolds' /\ LoadedFirst' /\ FileFollows'
  <2>1. CallsSave'
    <3> SUFFICES ASSUME NEW u \in IdentityThreads, steps'[u] # << >>
                 PROVE  steps'[u] = <<"write">> \/ steps'[u][Len(steps'[u])] = "save"
      BY DEF CallsSave
    <3>1. CASE u = t
      BY <1>2, <3>1
    <3>2. CASE u # t
      BY <1>2, <3>2 DEF IdentityInv, CallsSave
    <3> QED
      BY <3>1, <3>2
  <2>2. WriterHolds'
    BY <1>1, <1>2 DEF WriterHolds
  <2>3. LoadedFirst' /\ FileFollows'
    BY <1>2 DEF LoadedFirst, FileFollows
  <2> QED
    BY <2>1, <2>2, <2>3
<1>4. AccountsApart'
  BY DEF IdentityInv, AccountsApart, OneAccount
<1> QED
  BY <1>2, <1>3, <1>4 DEF IdentityInv, IdentityTypes

LEMMA SetKeeps ==
    ASSUME IdentityInv, NEW t \in IdentityThreads, NEW fields \in SUBSET Fields, NEW value \in Accounts,
           fields = LoginNames \/ fields \cap LoginNames = {}, SetFields(t, fields, value)
    PROVE  IdentityInv'
<1>1. /\ known # NotLoaded /\ writing = "nobody" /\ known' = WithFields(fields, value)
      /\ steps' = [steps EXCEPT ![t] = <<"save">>] /\ UNCHANGED <<identityFile, writing, image, unsure>>
  BY DEF SetFields, Idle
<1>2. known' \in Identities /\ known' # NotLoaded /\ OneAccount(known)'
  BY <1>1, WithFieldsKeeps DEF IdentityInv, AccountsApart
<1>3. PICK s \in CallSteps : s = <<"save">>
  BY NoStepsYet
<1>4. s # << >> /\ s[Len(s)] = "save" /\ s # <<"write">>
  BY <1>3
<1> QED
  BY <1>1, <1>2, <1>3, <1>4, CallGoesOn

LEMMA ClearKeeps ==
    ASSUME IdentityInv, NEW t \in IdentityThreads, ClearLoginInformation(t)
    PROVE  IdentityInv'
<1>1. /\ known # NotLoaded /\ writing = "nobody"
      /\ steps' = [steps EXCEPT ![t] = LoginFields \o <<"save">>]
      /\ UNCHANGED <<known, identityFile, writing, image, unsure>>
  BY DEF ClearLoginInformation, Idle
<1>2. PICK s : s = LoginFields \o <<"save">>
  OBVIOUS
<1>3. s \in CallSteps /\ Len(s) = 5 /\ s[Len(s)] = "save"
  <2>1. PICK a \in CallSteps : a = LoginFields /\ Len(a) = 4
    <3>1. LoginFields \in CallSteps
      BY DEF CallSteps, LoginFields, LoginNames
    <3>2. Len(LoginFields) = 4
      BY DEF LoginFields
    <3> QED
      BY <3>1, <3>2
  <2>2. PICK b \in CallSteps : b = <<"save">> /\ Len(b) = 1 /\ b[1] = "save"
    BY NoStepsYet
  <2>3. /\ a \o b \in CallSteps /\ Len(a \o b) = Len(a) + Len(b)
        /\ (a \o b)[5] = b[5 - Len(a)]
    <3> DEFINE S == LoginNames \cup {"save", "write"}
    <3>1. a \in Seq(S) /\ b \in Seq(S)
      BY DEF CallSteps
    <3> HIDE DEF S
    <3>2. a \o b \in Seq(S) /\ Len(a \o b) = Len(a) + Len(b)
      BY <3>1, ConcatProperties
    <3>3. 5 \in 1 .. (Len(a) + Len(b)) /\ 5 > Len(a)
      BY <2>1, <2>2
    <3>4. (a \o b)[5] = b[5 - Len(a)]
      BY <3>1, <3>3, ConcatProperties
    <3> QED
      BY <3>2, <3>4 DEF CallSteps, S
  <2> QED
    BY <1>2, <2>1, <2>2, <2>3
<1>4. s # << >> /\ s # <<"write">>
  BY <1>3
<1>5. known' \in Identities /\ OneAccount(known)'
  BY <1>1 DEF IdentityInv, IdentityTypes, AccountsApart, OneAccount
<1> QED
  BY <1>1, <1>2, <1>3, <1>4, <1>5, CallGoesOn

LEMMA ClearNextKeeps ==
    ASSUME IdentityInv, NEW t \in IdentityThreads, ClearNext(t)
    PROVE  IdentityInv'
<1>1. /\ Len(steps[t]) > 1 /\ writing = "nobody" /\ known' = WithFields({Head(steps[t])}, 0)
      /\ steps' = [steps EXCEPT ![t] = Tail(steps[t])]
      /\ UNCHANGED <<identityFile, writing, image, unsure>>
  BY DEF ClearNext
<1>2. PICK c \in CallSteps : c = steps[t]
  BY DEF IdentityInv, IdentityTypes
<1>3. /\ Len(c) > 1 /\ c # << >> /\ c # <<"write">> /\ c[Len(c)] = "save" /\ known # NotLoaded
  <2>1. Len(c) > 1 /\ c # << >> /\ c # <<"write">>
    <3>1. Len(c) > 1
      BY <1>1, <1>2
    <3>2. PICK w \in CallSteps : w = <<"write">> /\ Len(w) = 1
      BY NoStepsYet
    <3>3. PICK e \in CallSteps : e = << >> /\ Len(e) = 0
      BY NoStepsYet
    <3>4. Len(w) = 1 /\ Len(e) = 0
      BY <3>2, <3>3
    <3>5. c # w /\ c # e
      <4>1. ASSUME c = w PROVE FALSE
        <5>1. Len(c) = 1
          BY <3>4, <4>1, Zenon
        <5> QED
          BY <3>1, <5>1
      <4>2. ASSUME c = e PROVE FALSE
        <5>1. Len(c) = 0
          BY <3>4, <4>2, Zenon
        <5> QED
          BY <3>1, <5>1
      <4> QED
        BY <4>1, <4>2, Zenon
    <3> QED
      BY <3>1, <3>2, <3>3, <3>5
  <2> QED
    BY <1>2, <2>1 DEF IdentityInv, CallsSave, LoadedFirst
<1>4. PICK s \in CallSteps : s = Tail(c)
  <2>1. Tail(c) \in CallSteps
    BY <1>3, HeadTailProperties DEF CallSteps
  <2> QED
    BY <2>1
<1>5. /\ Len(s) = Len(c) - 1 /\ Len(c) \in Nat /\ \A i \in 1 .. (Len(c) - 1) : s[i] = c[i + 1]
  BY <1>3, <1>4 DEF CallSteps
<1>6. Len(s) >= 1 /\ s[Len(s)] = "save"
  BY <1>3, <1>5
<1>7. s # << >> /\ s # <<"write">>
  <2>1. ASSUME s = <<"write">> PROVE FALSE
    BY <1>6, <2>1
  <2>2. ASSUME s = << >> PROVE FALSE
    BY <1>6, <2>2
  <2> QED
    BY <2>1, <2>2
<1>8. known' \in Identities /\ known' # NotLoaded /\ OneAccount(known)'
  <2>1. known \in Identities
    BY <1>3 DEF IdentityInv, IdentityTypes
  <2>2. WithFields({Head(c)}, 0) = WithFields({Head(c)} \cap Fields, 0)
    BY DEF WithFields
  <2>3. {Head(c)} \cap Fields \in SUBSET Fields
    OBVIOUS
  <2> QED
    BY <1>1, <1>2, <1>3, <2>2, <2>3, WithFieldsKeeps DEF IdentityInv, AccountsApart
<1> QED
  BY <1>1, <1>2, <1>3, <1>4, <1>6, <1>7, <1>8, CallGoesOn

LEMMA SaveBeginsKeeps ==
    ASSUME IdentityInv, NEW t \in IdentityThreads, NEW opened \in BOOLEAN, SaveBegins(t, opened)
    PROVE  IdentityInv'
<1>1. /\ steps[t] = <<"save">> /\ writing = "nobody" /\ known' = known /\ t # "nobody"
      /\ steps[t] # << >>
  BY ActivityAssumption DEF SaveBegins
<1>2. known \in Identities /\ known # NotLoaded
  BY <1>1 DEF IdentityInv, IdentityTypes, LoadedFirst
<1>3. \A u \in IdentityThreads : steps[u] # <<"write">>
  BY <1>1, ActivityAssumption DEF IdentityInv, WriterHolds
<1>4. CASE opened
  <2>1. /\ identityFile' = HalfWritten /\ image' = [image EXCEPT ![t] = known] /\ writing' = t
        /\ steps' = [steps EXCEPT ![t] = <<"write">>] /\ unsure' = unsure
    BY <1>4 DEF SaveBegins, HoldsWhileSaving
  <2>2. /\ steps' \in [IdentityThreads -> CallSteps] /\ steps'[t] = <<"write">> /\ steps'[t] # << >>
        /\ \A u \in IdentityThreads : u # t => steps'[u] = steps[u]
        /\ image' \in [IdentityThreads -> Identities \cup {NotLoaded}] /\ image'[t] = known
    BY <1>2, <2>1, NoStepsYet DEF IdentityInv, IdentityTypes
  <2>3. CallsSave' /\ WriterHolds'
    BY <1>1, <1>3, <2>1, <2>2 DEF IdentityInv, CallsSave, WriterHolds
  <2>4. LoadedFirst' /\ FileFollows'
    BY <1>1, <1>2, <2>2 DEF LoadedFirst, FileFollows
  <2>5. AccountsApart'
    BY <1>1, <2>1, UnloadedIsOne DEF IdentityInv, AccountsApart, OneAccount
  <2> QED
    BY <1>1, <1>2, <2>1, <2>2, <2>3, <2>4, <2>5 DEF IdentityInv, IdentityTypes
<1>5. CASE ~opened
  <2>1. /\ steps' = [steps EXCEPT ![t] = << >>] /\ unsure' = TRUE
        /\ UNCHANGED <<identityFile, image, writing>>
    BY <1>5 DEF SaveBegins
  <2>2. /\ steps' \in [IdentityThreads -> CallSteps] /\ steps'[t] = << >>
        /\ \A u \in IdentityThreads : u # t => steps'[u] = steps[u]
    BY <2>1, NoStepsYet DEF IdentityInv, IdentityTypes
  <2>3. CallsSave' /\ WriterHolds' /\ LoadedFirst' /\ FileFollows'
    BY <1>1, <1>2, <1>3, <2>1, <2>2 DEF IdentityInv, CallsSave, WriterHolds, LoadedFirst, FileFollows
  <2>5. AccountsApart'
    BY <1>1, <2>1 DEF IdentityInv, AccountsApart, OneAccount
  <2> QED
    BY <1>1, <1>2, <2>1, <2>2, <2>3, <2>5 DEF IdentityInv, IdentityTypes
<1> QED
  BY <1>4, <1>5

LEMMA SaveKeeps ==
    ASSUME IdentityInv, NEW t \in IdentityThreads, NEW ok \in BOOLEAN, SaveIdentityStore(t, ok)
    PROVE  IdentityInv'
<1>1. /\ steps[t] = <<"write">> /\ steps[t] # << >> /\ known' = known /\ writing' = "nobody"
      /\ identityFile' = (IF ok THEN image[t] ELSE identityFile) /\ unsure' = ~ok
      /\ image' = [image EXCEPT ![t] = NotLoaded] /\ steps' = [steps EXCEPT ![t] = << >>]
  BY DEF SaveIdentityStore
<1>2. /\ known \in Identities /\ known # NotLoaded /\ writing = t /\ image[t] = known
      /\ \A u \in IdentityThreads : steps[u] = <<"write">> => u = t
  BY <1>1 DEF IdentityInv, IdentityTypes, LoadedFirst, WriterHolds
<1>3. /\ steps' \in [IdentityThreads -> CallSteps] /\ steps'[t] = << >>
      /\ \A u \in IdentityThreads : u # t => steps'[u] = steps[u]
      /\ image' \in [IdentityThreads -> Identities \cup {NotLoaded}]
  BY <1>1, NoStepsYet DEF IdentityInv, IdentityTypes
<1>4. CallsSave' /\ LoadedFirst'
  BY <1>1, <1>2, <1>3 DEF IdentityInv, CallsSave, LoadedFirst
<1>5. WriterHolds'
  <2>1. << >> # <<"write">>
    OBVIOUS
  <2> QED
    BY <1>2, <1>3, <2>1 DEF WriterHolds
<1>6. /\ FileFollows' /\ unsure' \in BOOLEAN
      /\ identityFile' \in Identities \cup {NotLoaded, HalfWritten}
  BY <1>1, <1>2 DEF IdentityInv, FileFollows
<1>7. AccountsApart'
  BY <1>1, <1>2 DEF IdentityInv, AccountsApart, OneAccount
<1> QED
  BY <1>1, <1>2, <1>3, <1>4, <1>5, <1>6, <1>7 DEF IdentityInv, IdentityTypes

LEMMA KilledKeeps ==
    ASSUME IdentityInv, ActivityKilled
    PROVE  IdentityInv'
<1>1. /\ known' = NotLoaded /\ \A t \in IdentityThreads : steps'[t] = << >>
      /\ steps' = [t \in IdentityThreads |-> << >>] /\ image' = [t \in IdentityThreads |-> NotLoaded]
      /\ unsure' = FALSE /\ identityFile' = identityFile
  BY DEF ActivityKilled
<1>2. IdentityTypes'
  BY <1>1, NoStepsYet DEF IdentityTypes
<1>3. CallsSave' /\ WriterHolds' /\ LoadedFirst' /\ FileFollows'
  BY <1>1 DEF CallsSave, WriterHolds, LoadedFirst, FileFollows
<1>4. AccountsApart'
  BY <1>1, UnloadedIsOne DEF IdentityInv, AccountsApart, OneAccount
<1> QED
  BY <1>1, <1>2, <1>3, <1>4 DEF IdentityInv

LEMMA KeyboardKept ==
    ASSUME KeyboardInv, ActivityNext
    PROVE  KeyboardInv'
<1>1. ASSUME NEW readable \in BOOLEAN, ShowKeyboard(readable) PROVE KeyboardInv'
  BY <1>1 DEF ShowKeyboard, KeyboardInv
<1>2. CASE UpdateTextboxText \/ GetCaretPosition
  BY <1>2 DEF UpdateTextboxText, GetCaretPosition, KeyboardInv
<1>3. CASE HideKeyboard
  BY <1>3 DEF HideKeyboard, KeyboardInv
<1>4. CASE ActivityKilled
  BY <1>4 DEF ActivityKilled, KeyboardInv
<1>5. CASE KeyboardUnchanged
  BY <1>5 DEF KeyboardUnchanged, KeyboardInv
<1> QED
  BY <1>1, <1>2, <1>3, <1>4, <1>5
  DEF ActivityNext, LoadIdentityStore, SetLoginInformation, SetRefreshToken, SetSession, SetFields,
      ClearLoginInformation, ClearNext, SaveBegins, SaveIdentityStore

LEMMA IdentityKept ==
    ASSUME IdentityInv, ActivityNext
    PROVE  IdentityInv'
<1>1. CASE UNCHANGED identityVars
  BY <1>1 DEF identityVars, IdentityInv, IdentityTypes, CallsSave, WriterHolds, LoadedFirst, AccountsApart,
              FileFollows, OneAccount
<1>2. ASSUME NEW t \in IdentityThreads, NEW a \in Accounts,
             SetLoginInformation(t, a) \/ SetRefreshToken(t, a) \/ SetSession(t, a)
      PROVE  IdentityInv'
  <2>1. /\ LoginNames \in SUBSET Fields /\ {"refresh_token"} \in SUBSET Fields /\ {"session"} \in SUBSET Fields
        /\ {"refresh_token"} \cap LoginNames = {} /\ {"session"} \cap LoginNames = {}
    BY LoginFieldNames DEF Fields, LoginNames
  <2>2. \/ SetFields(t, LoginNames, a) \/ SetFields(t, {"refresh_token"}, a) \/ SetFields(t, {"session"}, a)
    BY <1>2, LoginFieldNames DEF SetLoginInformation, SetRefreshToken, SetSession
  <2> QED
    BY <2>1, <2>2, SetKeeps
<1>3. ASSUME NEW t \in IdentityThreads, ClearLoginInformation(t) \/ ClearNext(t) PROVE IdentityInv'
  BY <1>3, ClearKeeps, ClearNextKeeps
<1>4. ASSUME NEW t \in IdentityThreads, NEW ok \in BOOLEAN, SaveBegins(t, ok) \/ SaveIdentityStore(t, ok)
      PROVE  IdentityInv'
  BY <1>4, SaveBeginsKeeps, SaveKeeps
<1> QED
  BY <1>1, <1>2, <1>3, <1>4, LoadKeeps, KilledKeeps
  DEF ActivityNext, ShowKeyboard, UpdateTextboxText, GetCaretPosition, HideKeyboard

\* Whatever threads set and clear the identity, however their calls interleave and
\* whenever the launcher is killed: a login is of one account in memory and on
\* disk, the file follows memory once the calls have returned, and one update of
\* the text excuses one hideKeyboard.
THEOREM ActivityStaysSound == ActivitySpec => []ActivitySound
<1>1. ActivityInv /\ [ActivityNext]_activityVars => ActivityInv'
  <2>1. ActivityInv /\ UNCHANGED activityVars => ActivityInv'
    BY DEF ActivityInv, IdentityInv, IdentityTypes, CallsSave, WriterHolds, LoadedFirst, AccountsApart,
           FileFollows, OneAccount, KeyboardInv, activityVars, identityVars
  <2>2. ActivityInv /\ ActivityNext => ActivityInv'
    BY IdentityKept, KeyboardKept DEF ActivityInv
  <2> QED
    BY <2>1, <2>2
<1>2. ActivityInv => ActivitySound
  <2> SUFFICES ASSUME ActivityInv PROVE ActivitySound
    OBVIOUS
  <2>1. ASSUME NEW f \in Range(LoginFields), NEW g \in Range(LoginFields)
        PROVE  /\ IdentityShown(f) \in {0, IdentityShown(g)} \/ IdentityShown(g) = 0
               /\ f \in DOMAIN identityFile /\ g \in DOMAIN identityFile =>
                     identityFile[f] \in {0, identityFile[g]} \/ identityFile[g] = 0
    <3>1. f \in LoginNames /\ g \in LoginNames /\ LoginNames \subseteq Fields
      BY LoginFieldNames
    <3>2. CASE known = NotLoaded
      BY <3>1, <3>2 DEF IdentityShown, ActivityInv, IdentityInv, AccountsApart, OneAccount
    <3>3. CASE known # NotLoaded
      <4>1. f \in DOMAIN known /\ g \in DOMAIN known
        BY <3>1, <3>3 DEF ActivityInv, IdentityInv, IdentityTypes, Identities
      <4> QED
        BY <3>1, <3>3, <4>1 DEF IdentityShown, ActivityInv, IdentityInv, AccountsApart, OneAccount
    <3> QED
      BY <3>2, <3>3
  <2> QED
    BY <2>1 DEF ActivitySound, ActivityInv, IdentityInv, FileFollows, KeyboardInv
<1> QED
  BY <1>1, <1>2, ActivityInitHolds, PTL DEF ActivitySpec

-----------------------------------------------------------------------------
(* Signing in.  The inductive invariant.                                     *)

KeyFiles == [id : KeyIds, key : Nat] \cup {NoKey, Torn}
KeyNames == KeyIds \cup {NoId}
XalFiles == [kind : {"none", "ticket", "pointer"}, id : KeyNames]

SignInTypes ==
    /\ keyFile \in KeyFiles /\ unfinished \in KeyFiles
    /\ xal \in [StoreFiles -> XalFiles] /\ bad \in [StoreFiles -> XalFiles]
    /\ ecdsa \in [held : BOOLEAN, id : KeyNames, key : Nat]
    /\ generated \in Nat

PointerLeads(f) == xal[f].kind = "pointer" => Stored(keyFile) /\ keyFile.id = xal[f].id
RepairKept(f) ==
    before.xal[f].kind = "ticket" \/ before.xal[f] = Pointer(before.key.id) => xal[f] = before.xal[f]

\* While XAL reads, the store is what the repair left of it.
StoreRepaired ==
    session = "reading" => \A f \in StoreFiles : PointerLeads(f) /\ RepairKept(f)

OnlyPointersGo == \A f \in StoreFiles : bad[f].kind \in {"none", "pointer"}

KeysInv == SignInTypes /\ StoreRepaired /\ OnlyPointersGo /\ refused = FALSE

\* The capture file is of the last flow: an older one is removed when that begins.
FlowInv ==
    /\ captured \in {0, flow.started} /\ flow \in [started : Nat, waiting : BOOLEAN]
    /\ \A n \in DOMAIN heard : heard[n] \in {0, n}

SignInInv == KeysInv /\ FlowInv

-----------------------------------------------------------------------------
(* Signing in.  The steps.                                                   *)

LEMMA StoredKeysHaveNames ==
    ASSUME NEW stored \in KeyFiles, Stored(stored)
    PROVE  stored \in [id : KeyIds, key : Nat] /\ stored.id \in KeyIds /\ stored.key \in Nat
BY DEF KeyFiles, Stored

LEMMA NamesOfNoKey ==
    ASSUME NEW stored \in KeyFiles, ~Stored(stored)
    PROVE  stored.id \notin KeyNames
BY SignInAssumption DEF KeyFiles, Stored, NoKey, Torn, KeyNames, NoId

LEMMA SignInitHolds == SignInit => SignInInv
<1> SUFFICES ASSUME SignInit PROVE SignInInv
  OBVIOUS
<1>1. NoFile \in XalFiles /\ NoKey \in KeyFiles
  BY DEF NoFile, XalFiles, KeyNames, KeyFiles
<1>2. NoEcdsa \in [held : BOOLEAN, id : KeyNames, key : Nat]
  BY DEF NoEcdsa, KeyNames
<1>3. SignInTypes
  BY <1>1, <1>2 DEF SignInit, SignInTypes
<1>4. OnlyPointersGo
  BY DEF SignInit, OnlyPointersGo, NoFile
<1>5. FlowInv
  BY DEF SignInit, FlowInv
<1> QED
  BY <1>3, <1>4, <1>5 DEF SignInit, SignInInv, KeysInv, StoreRepaired

\* The repair: what it takes away are pointers that do not name the stored key.
LEMMA RepairKeeps ==
    ASSUME KeysInv, NEW done \in SUBSET StoreFiles, SanitizeXalStore(done)
    PROVE  KeysInv'
<1>1. /\ session' = (IF done = StoreFiles THEN "reading" ELSE "off")
      /\ before' = (IF done = StoreFiles THEN [xal |-> xal, key |-> keyFile] ELSE NoBefore)
      /\ xal' = [f \in StoreFiles |-> IF f \in done /\ ~Kept(xal[f], keyFile) THEN NoFile ELSE xal[f]]
      /\ bad' = [f \in StoreFiles |-> IF f \in done /\ ~Kept(xal[f], keyFile) THEN xal[f] ELSE bad[f]]
      /\ UNCHANGED <<keyFile, ecdsa, unfinished, generated, refused>>
  BY DEF SanitizeXalStore
<1>2. NoFile \in XalFiles /\ NoFile.kind = "none"
  BY DEF NoFile, XalFiles, KeyNames
<1>3. SignInTypes'
  BY <1>1, <1>2 DEF KeysInv, SignInTypes
<1>4. OnlyPointersGo'
  BY <1>1 DEF KeysInv, OnlyPointersGo, Kept
<1>5. ASSUME done = StoreFiles, NEW f \in StoreFiles
      PROVE  PointerLeads(f)' /\ RepairKept(f)'
  <2>1. xal'[f] = IF Kept(xal[f], keyFile) THEN xal[f] ELSE NoFile
    BY <1>1, <1>5
  <2>2. PointerLeads(f)'
    BY <1>1, <1>2, <2>1 DEF PointerLeads, Kept
  <2>3. before'.xal[f] = xal[f] /\ before'.key = keyFile
    BY <1>1, <1>5
  <2>4. ASSUME xal[f].kind = "ticket" \/ xal[f] = Pointer(keyFile.id)
        PROVE  Kept(xal[f], keyFile)
    <3>1. CASE xal[f].kind = "ticket"
      BY <3>1 DEF Kept
    <3>2. CASE xal[f] = Pointer(keyFile.id)
      <4>1. xal[f].id = keyFile.id /\ xal[f].id \in KeyNames
        BY <3>2 DEF Pointer, KeysInv, SignInTypes, XalFiles
      <4>2. Stored(keyFile)
        BY <4>1, NamesOfNoKey DEF KeysInv, SignInTypes
      <4> QED
        BY <4>1, <4>2 DEF Kept
    <3> QED
      BY <2>4, <3>1, <3>2
  <2> QED
    BY <2>1, <2>2, <2>3, <2>4 DEF RepairKept
<1>6. StoreRepaired'
  BY <1>1, <1>5 DEF StoreRepaired
<1> QED
  BY <1>1, <1>3, <1>4, <1>6 DEF KeysInv

LEMMA RestoreKeeps ==
    ASSUME KeysInv, NEW f \in StoreFiles, RestoreKeyAndId(f)
    PROVE  KeysInv'
<1>1. session = "reading" /\ xal[f].kind = "pointer"
  BY DEF RestoreKeyAndId
<1>2. Stored(keyFile) /\ keyFile \in KeyFiles
  BY <1>1 DEF KeysInv, StoreRepaired, PointerLeads, SignInTypes
<1>3. /\ ecdsa' = [held |-> TRUE, id |-> keyFile.id, key |-> keyFile.key]
      /\ UNCHANGED <<session, keyFile, xal, bad, before, unfinished, generated, refused>>
  BY <1>2 DEF RestoreKeyAndId
<1>4. ecdsa' \in [held : BOOLEAN, id : KeyNames, key : Nat]
  BY <1>2, <1>3, StoredKeysHaveNames DEF KeyNames
<1> QED
  BY <1>3, <1>4 DEF KeysInv, SignInTypes, StoreRepaired, PointerLeads, RepairKept, OnlyPointersGo

\* While the game plays, XAL reads nothing of the store.
LEMMA PlayingKeeps ==
    ASSUME KeysInv, SignInTypes', session' # "reading", UNCHANGED <<bad, refused>>
    PROVE  KeysInv'
BY DEF KeysInv, StoreRepaired, OnlyPointersGo

LEMMA GenerateKeeps ==
    ASSUME KeysInv, NEW id \in KeyNames, GenerateKey(id)
    PROVE  KeysInv'
<1>1. /\ session' # "reading" /\ UNCHANGED <<bad, refused, keyFile, unfinished, xal>>
      /\ ecdsa' = [held |-> TRUE, id |-> id, key |-> generated + 1] /\ generated' = generated + 1
  BY DEF GenerateKey, Playing
<1>2. generated + 1 \in Nat
  BY DEF KeysInv, SignInTypes
<1>3. ecdsa' \in [held : BOOLEAN, id : KeyNames, key : Nat]
  BY <1>1, <1>2
<1>4. SignInTypes'
  BY <1>1, <1>2, <1>3 DEF KeysInv, SignInTypes
<1> QED
  BY <1>1, <1>4, PlayingKeeps

LEMMA StoreKeeps ==
    ASSUME KeysInv, NEW id \in KeyNames, StoreKeyPairAndId(id)
    PROVE  KeysInv'
<1>1. /\ session' # "reading" /\ UNCHANGED <<bad, refused, xal, ecdsa, generated>>
      /\ unfinished' = [id |-> StoredId(ecdsa.id, id), key |-> ecdsa.key] /\ keyFile' = Torn
  BY DEF StoreKeyPairAndId, Playing
<1>2. StoredId(ecdsa.id, id) \in KeyIds /\ ecdsa.key \in Nat
  BY DEF StoreKeyPairAndId, StoredId, KeysInv, SignInTypes, KeyNames
<1>3. unfinished' \in KeyFiles /\ keyFile' \in KeyFiles
  BY <1>1, <1>2 DEF KeyFiles
<1>4. SignInTypes'
  BY <1>1, <1>3 DEF KeysInv, SignInTypes
<1> QED
  BY <1>1, <1>4, PlayingKeeps

LEMMA PersistKeeps ==
    ASSUME KeysInv, NEW ok \in BOOLEAN, NEW f \in StoreFiles, EcdsaStorePersist(ok, f)
    PROVE  KeysInv'
<1>1. session' # "reading" /\ UNCHANGED <<bad, refused>>
  BY DEF EcdsaStorePersist, Playing
<1>2. Pointer(ecdsa.id) \in XalFiles /\ NoKey \in KeyFiles
  BY DEF KeysInv, SignInTypes, Pointer, XalFiles, KeyFiles
<1>3. SignInTypes'
  BY <1>2 DEF EcdsaStorePersist, KeysInv, SignInTypes
<1> QED
  BY <1>1, <1>3, PlayingKeeps

LEMMA StoreStepKeeps ==
    ASSUME KeysInv,
           \/ EnumerationEnds
           \/ \E f \in StoreFiles, kind \in {"none", "ticket"} : XalWrites(f, [NoFile EXCEPT !.kind = kind])
           \/ LauncherEnds
    PROVE  KeysInv'
<1>1. CASE EnumerationEnds
  BY <1>1, PlayingKeeps DEF EnumerationEnds, KeysInv, SignInTypes
<1>2. ASSUME NEW f \in StoreFiles, NEW kind \in {"none", "ticket"}, XalWrites(f, [NoFile EXCEPT !.kind = kind])
      PROVE  KeysInv'
  <2>1. PICK c \in XalFiles : c = [NoFile EXCEPT !.kind = kind]
    <3>1. [NoFile EXCEPT !.kind = kind] \in XalFiles
      BY DEF NoFile, XalFiles, KeyNames
    <3> QED
      BY <3>1
  <2>2. XalWrites(f, c)
    BY <1>2, <2>1
  <2>3. SignInTypes' /\ session' # "reading" /\ UNCHANGED <<bad, refused>>
    BY <2>2 DEF XalWrites, Playing, KeysInv, SignInTypes
  <2> QED
    BY <2>3, PlayingKeeps
<1>3. CASE LauncherEnds
  <2>1. NoEcdsa \in [held : BOOLEAN, id : KeyNames, key : Nat] /\ NoKey \in KeyFiles
    BY DEF NoEcdsa, KeyNames, KeyFiles
  <2> QED
    BY <1>3, <2>1 DEF LauncherEnds, KeysInv, SignInTypes, StoreRepaired, OnlyPointersGo
<1> QED
  BY <1>1, <1>2, <1>3

LEMMA FlowEndsKeeps ==
    ASSUME FlowInv, NEW address, address \in {0, flow.started}, FlowEnds(address)
    PROVE  /\ \A n \in DOMAIN heard' : heard'[n] \in {0, n}
           /\ flow' \in [started : Nat, waiting : BOOLEAN] /\ flow'.started = flow.started
BY DEF FlowInv, FlowEnds, CallUrlOperationSucceeded

LEMMA FlowKept ==
    ASSUME FlowInv, SignNext
    PROVE  FlowInv'
<1>1. ASSUME NEW terminal \in BOOLEAN, BrowserLaunchShowUrl(terminal) PROVE FlowInv'
  BY <1>1 DEF BrowserLaunchShowUrl, FlowInv
<1>2. CASE BrowserRedirects
  BY <1>2 DEF BrowserRedirects, FlowInv
<1>3. CASE UrlCaptured
  <2>1. FlowEnds(captured) /\ captured \in {0, flow.started} /\ captured' = 0
    BY <1>3 DEF UrlCaptured, FlowInv
  <2> QED
    BY <2>1, FlowEndsKeeps DEF FlowInv
<1>4. ASSUME NEW empty \in BOOLEAN, LinePasted(empty) PROVE FlowInv'
  <2>1. CASE UNCHANGED <<flow, heard>>
    BY <1>4, <2>1 DEF LinePasted, FlowInv
  <2>2. ASSUME NEW address \in {0, flow.started}, FlowEnds(address) PROVE FlowInv'
    BY <1>4, <2>2, FlowEndsKeeps DEF LinePasted, FlowInv
  <2> QED
    BY <1>4, <2>1, <2>2 DEF LinePasted
<1>5. CASE SignInTimesOut
  <2>1. FlowEnds(0) /\ captured' = captured
    BY <1>5 DEF SignInTimesOut
  <2> QED
    BY <2>1, FlowEndsKeeps DEF FlowInv
<1>6. CASE LauncherEnds
  BY <1>6 DEF LauncherEnds, FlowInv
<1>7. CASE UNCHANGED flowVars
  BY <1>7 DEF flowVars, FlowInv
<1> QED
  BY <1>1, <1>2, <1>3, <1>4, <1>5, <1>6, <1>7
  DEF SignNext, SanitizeXalStore, RestoreKeyAndId, EnumerationEnds, GenerateKey, StoreKeyPairAndId,
      EcdsaStorePersist, XalWrites

LEMMA KeysKept ==
    ASSUME KeysInv, SignNext
    PROVE  KeysInv'
<1>1. CASE UNCHANGED keyVars
  BY <1>1 DEF keyVars, KeysInv, SignInTypes, StoreRepaired, PointerLeads, RepairKept, OnlyPointersGo
<1>2. ASSUME NEW done \in SUBSET StoreFiles, SanitizeXalStore(done) PROVE KeysInv'
  BY <1>2, RepairKeeps
<1>3. ASSUME NEW f \in StoreFiles, RestoreKeyAndId(f) PROVE KeysInv'
  BY <1>3, RestoreKeeps
<1>4. ASSUME NEW id \in KeyIds \cup {NoId}, GenerateKey(id) \/ StoreKeyPairAndId(id) PROVE KeysInv'
  BY <1>4, GenerateKeeps, StoreKeeps DEF KeyNames
<1>5. ASSUME NEW ok \in BOOLEAN, NEW f \in StoreFiles, EcdsaStorePersist(ok, f) PROVE KeysInv'
  BY <1>5, PersistKeeps
<1>6. CASE LauncherEnds \/ EnumerationEnds
  BY <1>6, StoreStepKeeps
<1>7. ASSUME NEW f \in StoreFiles, NEW kind \in {"none", "ticket"}, XalWrites(f, [NoFile EXCEPT !.kind = kind])
      PROVE  KeysInv'
  BY <1>7, StoreStepKeeps
<1> QED
  BY <1>1, <1>2, <1>3, <1>4, <1>5, <1>6, <1>7
  DEF SignNext, BrowserLaunchShowUrl, BrowserRedirects, UrlCaptured, SignInTimesOut, LinePasted

\* However often the launcher is killed, and though a write of the key may fail
\* unnoticed: a pointer XAL finds leads to the key it names, the repair takes
\* nothing else away, and what XAL is told of a flow was caught after it began.
THEOREM SignInStaysSound == SignInSpec => []SignInSound
<1>1. SignInInv /\ [SignNext]_signVars => SignInInv'
  <2>1. SignInInv /\ UNCHANGED signVars => SignInInv'
    BY DEF SignInInv, FlowInv, signVars, KeysInv, SignInTypes, StoreRepaired, PointerLeads, RepairKept,
           OnlyPointersGo
  <2>2. SignInInv /\ SignNext => SignInInv'
    BY KeysKept, FlowKept DEF SignInInv
  <2> QED
    BY <2>1, <2>2
<1>2. SignInInv => SignInSound
  BY DEF SignInInv, KeysInv, StoreRepaired, PointerLeads, RepairKept, OnlyPointersGo, FlowInv, SignInSound
<1> QED
  BY <1>1, <1>2, SignInitHolds, PTL DEF SignInSpec

-----------------------------------------------------------------------------
(* Sound.  The inductive invariant.                                          *)

\* The samples are the last ones produced.
Numbered(s, n) == \A k \in 1 .. Len(s) : s[k] = n - Len(s) + k - 1

RingInv ==
    /\ ring \in Seq(Int) /\ produced \in Nat /\ mono \in BOOLEAN
    /\ Len(ring) <= RingSize
    /\ Numbered(ring, 2 * produced)
    /\ mono \/ Len(ring) % 2 = 0

Players == [at : {"loop", "fill", "push", "ended"}, chunk : Nat]
Streams == [state : {"none", "open", "closed"}, frames : Nat, started : BOOLEAN, running : BOOLEAN,
            handle : Nat]

\* Only the thread in the handle still runs, on an open stream.
PlayerInv ==
    /\ aaudio \in Streams /\ room \in Nat /\ players \in Seq(Players)
    /\ caller \in {"idle", "stop", "close"} /\ (caller # "idle" => aaudio.state = "open")
    /\ \A t \in DOMAIN players :
          /\ players[t].at # "ended" => t = aaudio.handle /\ aaudio.state = "open"
          /\ players[t].at = "push" => room >= players[t].chunk

AudioInv == RingInv /\ PlayerInv

-----------------------------------------------------------------------------
(* Sound.  The ring.                                                         *)

\* What is left of the samples when the first m are dropped.
LEMMA SamplesDropped ==
    ASSUME NEW s \in Seq(Int), NEW n \in Nat, NEW m \in Nat, Numbered(s, n)
    PROVE  LET r == SubSeq(s, m + 1, Len(s))
           IN  /\ r \in Seq(Int) /\ Numbered(r, n)
               /\ Len(r) = IF m <= Len(s) THEN Len(s) - m ELSE 0
<1>1. Len(s) \in Nat /\ \A i \in 1 .. Len(s) : s[i] \in Int
  BY ElementOfSeq
<1>2. PICK r : r = SubSeq(s, m + 1, Len(s))
  OBVIOUS
<1>3. /\ r \in Seq(Int)
      /\ Len(r) = IF m <= Len(s) THEN Len(s) - m ELSE 0
      /\ \A i \in 1 .. Len(r) : r[i] = s[m + i]
  <2>1. \A i \in m + 1 .. Len(s) : s[i] \in Int
    BY <1>1
  <2>2. /\ r \in Seq(Int)
        /\ Len(r) = IF m + 1 <= Len(s) THEN Len(s) - (m + 1) + 1 ELSE 0
        /\ \A i \in 1 .. Len(s) - (m + 1) + 1 : r[i] = s[m + 1 + i - 1]
    BY <1>1, <1>2, <2>1, SubSeqProperties
  <2> QED
    BY <1>1, <2>2
<1>4. Numbered(r, n)
  <2> SUFFICES ASSUME NEW k \in 1 .. Len(r) PROVE r[k] = n - Len(r) + k - 1
    BY DEF Numbered
  <2>1. m <= Len(s) /\ Len(r) = Len(s) - m /\ m + k \in 1 .. Len(s)
    BY <1>1, <1>3
  <2>2. s[m + k] = n - Len(s) + (m + k) - 1
    BY <2>1 DEF Numbered
  <2> QED
    BY <1>1, <1>3, <2>1, <2>2
<1> QED
  BY <1>2, <1>3, <1>4

LEMMA PushKeeps ==
    ASSUME RingInv, NEW frames \in Nat, Pushes(frames), mono' = mono
    PROVE  RingInv'
<1> DEFINE new == Samples(frames)
           p == 2 * produced
           q == 2 * (produced + frames)
<1>1. /\ new \in Seq(Int) /\ Len(new) = 2 * frames /\ 2 * frames \in Nat
      /\ \A k \in 1 .. 2 * frames : new[k] = p + k - 1
  BY DEF Samples, RingInv
<1>2. /\ Len(ring) \in Nat /\ produced \in Nat /\ q = p + 2 * frames /\ p \in Nat /\ q \in Nat
      /\ ring \in Seq(Int) /\ produced' = produced + frames /\ Numbered(ring, p)
  BY DEF RingInv, Pushes
<1> HIDE DEF new, p, q
<1>3. PICK all : all = ring \o new
  OBVIOUS
<1>4. /\ all \in Seq(Int) /\ Len(all) = Len(ring) + 2 * frames
      /\ \A k \in 1 .. Len(ring) : all[k] = ring[k]
      /\ \A k \in 1 .. Len(all) : k > Len(ring) => all[k] = new[k - Len(ring)]
  <2>1. all \in Seq(Int)
    BY <1>1, <1>2, <1>3, ConcatProperties
  <2>2. Len(all) = Len(ring) + Len(new)
    BY <1>1, <1>2, <1>3, ConcatProperties
  <2>3. \A k \in 1 .. Len(ring) + Len(new) :
            all[k] = IF k <= Len(ring) THEN ring[k] ELSE new[k - Len(ring)]
    BY <1>1, <1>2, <1>3, ConcatProperties
  <2>4. ASSUME NEW k \in 1 .. Len(ring) PROVE all[k] = ring[k]
    <3>1. k \in 1 .. Len(ring) + Len(new) /\ k <= Len(ring)
      BY <1>1, <1>2
    <3> QED
      BY <2>3, <3>1
  <2>5. \A k \in 1 .. Len(all) : k > Len(ring) => all[k] = new[k - Len(ring)]
    BY <1>1, <1>2, <2>2, <2>3
  <2> QED
    BY <1>1, <2>1, <2>2, <2>4, <2>5
<1>5. Numbered(all, q)
  <2> SUFFICES ASSUME NEW k \in 1 .. Len(all) PROVE all[k] = q - Len(all) + k - 1
    BY DEF Numbered
  <2>1. CASE k <= Len(ring)
    <3>1. all[k] = ring[k] /\ ring[k] = p - Len(ring) + k - 1
      BY <1>2, <1>4, <2>1 DEF Numbered
    <3> QED
      BY <1>2, <1>4, <3>1
  <2>2. CASE k > Len(ring)
    <3>0. all[k] = new[k - Len(ring)]
      BY <1>4, <2>2
    <3>01. Len(all) = Len(ring) + 2 * frames /\ Len(ring) \in Nat
      BY <1>2, <1>4
    <3>02. k - Len(ring) \in 1 .. 2 * frames
      BY <1>1, <3>01, <2>2
    <3>1. k - Len(ring) \in 1 .. 2 * frames /\ all[k] = new[k - Len(ring)]
      BY <3>0, <3>02
    <3>2. all[k] = p + (k - Len(ring)) - 1
      BY <1>1, <3>1
    <3> QED
      BY <1>2, <1>4, <3>1, <3>2
  <2> QED
    BY <1>2, <1>4, <2>1, <2>2
<1>6. ring' = IF Len(all) > RingSize THEN SubSeq(all, Len(all) - RingSize + 1, Len(all)) ELSE all
  BY <1>3 DEF Pushes, PushSamples, new
<1>7. q = 2 * produced' /\ produced' \in Nat
  BY <1>2 DEF q
<1>8. mono \/ Len(all) % 2 = 0
  BY <1>1, <1>2, <1>4 DEF RingInv
<1>9. CASE Len(all) > RingSize
  <2>0. RingSize \in Nat
    BY AudioAssumption
  <2>01. Len(all) \in Nat
    BY <1>2, <1>4
  <2>02. Len(all) - RingSize \in Nat
    BY <2>0, <2>01, <1>9
  <2>1. PICK m \in Nat : m = Len(all) - RingSize
    BY <2>02
  <2>2. /\ ring' \in Seq(Int) /\ Numbered(ring', q)
        /\ Len(ring') = IF m <= Len(all) THEN Len(all) - m ELSE 0
    BY <1>2, <1>4, <1>5, <1>6, <1>9, <2>1, SamplesDropped
  <2>3. Len(ring') = RingSize
    BY <2>0, <2>01, <1>9, <2>1, <2>2
  <2>4. RingSize % 2 = 0
    BY AudioAssumption
  <2>5. mono' \in BOOLEAN
    BY DEF RingInv
  <2>6. Len(ring') <= RingSize /\ Len(ring') % 2 = 0
    BY <2>0, <2>3, <2>4
  <2> QED
    BY <1>7, <2>2, <2>5, <2>6 DEF RingInv
<1>10. CASE ~(Len(all) > RingSize)
  <2>0. RingSize \in Nat
    BY AudioAssumption
  <2>01. Len(all) \in Nat
    BY <1>2, <1>4
  <2>02. Len(all) <= RingSize
    BY <2>0, <2>01, <1>10
  <2>1. ring' = all /\ Len(all) <= RingSize
    BY <2>02, <1>6, <1>10
  <2> QED
    BY <1>4, <1>5, <1>7, <1>8, <2>1 DEF RingInv
<1> QED
  BY <1>9, <1>10

LEMMA PopKeeps ==
    ASSUME RingInv, NEW n \in {1, 2}, n = 2 \/ mono, ring # <<>>, ring' = PopSamples(n),
           UNCHANGED <<produced, mono>>
    PROVE  RingInv'
<1>1. /\ ring \in Seq(Int) /\ produced \in Nat /\ 2 * produced \in Nat /\ Numbered(ring, 2 * produced)
      /\ Len(ring) \in Nat /\ Len(ring) <= RingSize /\ RingSize \in Nat /\ n \in Nat
  BY AudioAssumption DEF RingInv
<1>2. /\ ring' \in Seq(Int) /\ Numbered(ring', 2 * produced)
      /\ Len(ring') = IF n <= Len(ring) THEN Len(ring) - n ELSE 0
  <2>1. PICK p \in Nat : p = 2 * produced
    BY <1>1
  <2> QED
    BY <1>1, <2>1, SamplesDropped DEF PopSamples
<1>3. Len(ring') \in Nat /\ Len(ring') <= RingSize
  BY <1>1, <1>2
<1>4. mono \/ Len(ring') % 2 = 0
  <2> SUFFICES ASSUME ~mono PROVE Len(ring') % 2 = 0
    OBVIOUS
  <2>1. Len(ring) % 2 = 0 /\ n = 2
    BY DEF RingInv
  <2>2. PICK k \in Nat : k = Len(ring)
    BY <1>1
  <2>3. Len(ring') = IF 2 <= k THEN k - 2 ELSE 0
    BY <1>2, <2>1, <2>2
  <2>4. k % 2 = 0
    BY <2>1, <2>2
  <2>5. (IF 2 <= k THEN k - 2 ELSE 0) % 2 = 0
    BY <2>4
  <2> QED
    BY <2>3, <2>5
<1>5. mono' \in BOOLEAN /\ 2 * produced' = 2 * produced /\ produced' \in Nat
  BY <1>1 DEF RingInv
<1> QED
  BY <1>2, <1>3, <1>4, <1>5 DEF RingInv

LEMMA EmptyRing ==
    ASSUME RingInv, ring' = <<>>, UNCHANGED <<produced, mono>>
    PROVE  RingInv'
<1>1. <<>> \in Seq(Int) /\ Len(<<>>) = 0
  OBVIOUS
<1>2. Numbered(<<>>, 2 * produced)
  BY DEF Numbered
<1> QED
  BY <1>1, <1>2, AudioAssumption DEF RingInv

LEMMA RingKept ==
    ASSUME AudioInv, AudioNext
    PROVE  RingInv'
<1>0. RingInv
  BY DEF AudioInv
<1>1. ASSUME NEW frames \in BufferSizes, DeviceWrite(frames) PROVE RingInv'
  BY <1>0, <1>1, PushKeeps, AudioAssumption DEF DeviceWrite, outVars
<1>2. ASSUME NEW t \in DOMAIN players, PushI16(t) PROVE RingInv'
  <2>1. players[t] \in Players
    BY ElementOfSeq, LenProperties DEF AudioInv, PlayerInv
  <2>2. players[t].chunk \in Nat
    BY <2>1 DEF Players
  <2> QED
    BY <1>0, <1>2, <2>2, PushKeeps DEF PushI16, outVars
<1>3. CASE DeviceInit \/ DeviceClose
  BY <1>0, <1>3, EmptyRing DEF DeviceInit, DeviceClose, StartAudioThread
<1>4. ASSUME NEW o \in DOMAIN outputs, FillOutput(o) PROVE RingInv'
  <2>1. PICK n \in {2} \cup (IF mono THEN {1} ELSE {}) : ring' = PopSamples(n)
    BY <1>4 DEF FillOutput
  <2>2. ring # <<>> /\ UNCHANGED <<produced, mono>> /\ n \in {1, 2} /\ (n = 2 \/ mono)
    BY <1>4 DEF FillOutput, outVars
  <2> QED
    BY <1>0, <2>1, <2>2, PopKeeps
<1>5. ASSUME NEW o \in DOMAIN outputs, NEW works \in BOOLEAN, NEW own \in BOOLEAN, OpensDevice(o, works, own)
      PROVE  RingInv'
  <2>1. UNCHANGED <<ring, produced>> /\ mono' = (mono \/ (works /\ own))
    BY <1>5 DEF OpensDevice, ringVars
  <2>2. mono' \in BOOLEAN /\ (mono => mono')
    BY <2>1, Zenon
  <2> QED
    BY <1>0, <2>1, <2>2 DEF RingInv, Numbered
<1>6. CASE UNCHANGED <<ring, produced, mono>>
  BY <1>0, <1>6 DEF RingInv, Numbered
<1> QED
  BY <1>1, <1>2, <1>3, <1>4, <1>5, <1>6
  DEF AudioNext, OpenStream, SetBufferSizeInFrames, RequestStart, RequestStopReturns, CloseReturns, Leaves,
      LoopTest, DataCallback, PollsFlag, StartAudioThread, ringVars, outVars

-----------------------------------------------------------------------------
(* Sound.  The playback threads.                                             *)

LEMMA MoveKeeps ==
    ASSUME PlayerInv, NEW t \in DOMAIN players, players[t].at # "ended",
           NEW at2 \in {"loop", "fill", "push", "ended"}, Moves(t, at2), UNCHANGED <<aaudio, caller>>,
           room' \in Nat, room' >= room, at2 = "push" => room' >= players[t].chunk
    PROVE  PlayerInv'
<1>1. players[t] \in Players /\ \A u \in DOMAIN players : players[u] \in Players
  BY ElementOfSeq, LenProperties DEF PlayerInv
<1>2. PICK f \in Players : f = [players[t] EXCEPT !.at = at2] /\ f.at = at2 /\ f.chunk = players[t].chunk
  <2>1. [players[t] EXCEPT !.at = at2] \in Players
    BY <1>1 DEF Players
  <2> QED
    BY <1>1, <2>1 DEF Players
<1>3. /\ players' = [players EXCEPT ![t] = f]
  BY <1>2 DEF Moves
<1>4. /\ players' \in Seq(Players) /\ DOMAIN players' = DOMAIN players /\ players'[t] = f
      /\ \A u \in DOMAIN players : u # t => players'[u] = players[u]
  BY <1>2, <1>3, ExceptSeq, LenProperties DEF PlayerInv
<1>5. ASSUME NEW u \in DOMAIN players', u # t, players'[u].at = "push" PROVE room' >= players'[u].chunk
  BY <1>1, <1>4, <1>5 DEF PlayerInv, Players
<1>6. \A u \in DOMAIN players' :
          /\ players'[u].at # "ended" => u = aaudio.handle /\ aaudio.state = "open"
          /\ players'[u].at = "push" => room' >= players'[u].chunk
  BY <1>2, <1>4, <1>5 DEF PlayerInv
<1> QED
  BY <1>4, <1>6 DEF PlayerInv

LEMMA PlayersKept ==
    ASSUME ResizesLive = FALSE, StartsTwice = FALSE, PlayerInv, AudioNext
    PROVE  PlayerInv'
<1>0. /\ aaudio \in Streams /\ players \in Seq(Players) /\ DOMAIN players = 1 .. Len(players)
      /\ Len(players) \in Nat /\ room \in Nat
  BY LenProperties DEF PlayerInv
<1>1. ASSUME NEW frames \in BufferSizes, NEW capacity \in BufferSizes, OpenStream(capacity, frames)
      PROVE  PlayerInv'
  <2>1. /\ aaudio' \in Streams /\ aaudio'.handle = aaudio.handle /\ aaudio'.state = "open" /\ room' \in Nat
        /\ UNCHANGED <<players, caller>> /\ aaudio.state = "none"
    BY <1>0, <1>1, AudioAssumption DEF OpenStream, Streams
  <2> QED
    BY <2>1 DEF PlayerInv
<1>2. ASSUME NEW frames \in BufferSizes, SetBufferSizeInFrames(frames) PROVE PlayerInv'
  <2>1. /\ aaudio' \in Streams /\ aaudio'.handle = aaudio.handle /\ aaudio'.state = aaudio.state
        /\ room' \in Nat /\ UNCHANGED <<players, caller>> /\ aaudio.handle = 0
    BY <1>0, <1>2, AudioAssumption DEF SetBufferSizeInFrames, Streams
  <2>2. \A t \in DOMAIN players : players[t].at = "ended"
    BY <1>0, <2>1 DEF PlayerInv
  <2> QED
    BY <2>1, <2>2 DEF PlayerInv
<1>3. CASE RequestStart
  <2>1. PICK f \in Players : f = [at |-> "loop", chunk |-> aaudio.frames] /\ f.at = "loop"
    <3>1. [at |-> "loop", chunk |-> aaudio.frames] \in Players
      BY <1>0 DEF Streams, Players
    <3> QED
      BY <3>1
  <2>2. players' = Append(players, f) /\ aaudio.handle = 0 /\ aaudio.state = "open" /\ UNCHANGED <<room, caller>>
    BY <1>3, <2>1 DEF RequestStart, StreamFree
  <2>01. PICK h \in Nat : h = Len(players) + 1
    BY <1>0
  <2>02. aaudio' = [aaudio EXCEPT !.started = TRUE, !.running = TRUE, !.handle = h]
    BY <1>3, <2>01 DEF RequestStart
  <2>03. aaudio' \in Streams
    BY <1>0, <2>02 DEF Streams
  <2>3. aaudio' \in Streams /\ aaudio'.handle = Len(players) + 1 /\ aaudio'.state = "open"
    BY <1>0, <2>01, <2>02, <2>03, <2>2 DEF Streams
  <2>4. /\ players' \in Seq(Players) /\ DOMAIN players' = 1 .. (Len(players) + 1)
        /\ players'[Len(players) + 1] = f
        /\ \A u \in 1 .. Len(players) : players'[u] = players[u]
    BY <1>0, <2>2, AppendProperties, LenProperties
  <2>5. \A u \in 1 .. Len(players) : players[u].at = "ended"
    BY <1>0, <2>2 DEF PlayerInv
  <2>6. \A u \in DOMAIN players' : /\ players'[u].at # "ended" => u = Len(players) + 1
                                   /\ players'[u].at # "push"
    BY <1>0, <2>1, <2>4, <2>5
  <2> QED
    BY <2>2, <2>3, <2>4, <2>6 DEF PlayerInv
<1>4. ASSUME NEW how \in {"stop", "close"}, Leaves(how) PROVE PlayerInv'
  <2>1. /\ aaudio' \in Streams /\ aaudio'.handle = aaudio.handle /\ aaudio'.state = aaudio.state
        /\ UNCHANGED <<players, room>> /\ aaudio.state = "open" /\ caller' = how
    BY <1>0, <1>4 DEF Leaves, StreamFree, Streams
  <2> QED
    BY <2>1 DEF PlayerInv
<1>5. CASE RequestStopReturns \/ CloseReturns
  <2>1. /\ aaudio' \in Streams /\ caller' = "idle" /\ players' = players /\ room' \in Nat
        /\ Ended(aaudio.handle)
    <3>1. CASE RequestStopReturns
      BY <1>0, <3>1 DEF RequestStopReturns, Streams
    <3>2. CASE CloseReturns
      BY <1>0, <3>2 DEF CloseReturns, Streams
    <3> QED
      BY <1>5, <3>1, <3>2
  <2>2. \A t \in DOMAIN players : players[t].at = "ended"
    BY <2>1 DEF PlayerInv, Ended
  <2> QED
    BY <2>1, <2>2 DEF PlayerInv
<1>6. ASSUME NEW t \in DOMAIN players, LoopTest(t) \/ DataCallback(t) \/ PushI16(t) PROVE PlayerInv'
  <2>1. players[t].chunk \in Nat
    <3>1. players[t] \in Players
      BY <1>0, ElementOfSeq
    <3> QED
      BY <3>1 DEF Players
  <2>2. CASE LoopTest(t)
    <3>1. \E at2 \in {"fill", "ended"} : Moves(t, at2)
      BY <2>2 DEF LoopTest
    <3> QED
      BY <1>0, <2>2, <3>1, MoveKeeps DEF LoopTest
  <2>3. CASE DataCallback(t)
    <3>1. Moves(t, "push") /\ room' \in Nat /\ room' >= room /\ room' >= players[t].chunk
      BY <1>0, <2>1, <2>3 DEF DataCallback
    <3> QED
      BY <2>3, <3>1, MoveKeeps DEF DataCallback
  <2>4. CASE PushI16(t)
    BY <1>0, <2>4, MoveKeeps DEF PushI16
  <2> QED
    BY <1>6, <2>2, <2>3, <2>4
<1>7. CASE UNCHANGED <<aaudio, room, players, caller>>
  BY <1>7 DEF PlayerInv
<1> QED
  BY <1>1, <1>2, <1>3, <1>4, <1>5, <1>6, <1>7
  DEF AudioNext, DeviceInit, DeviceClose, DeviceWrite, OpensDevice, PollsFlag, FillOutput

LEMMA AudioInitHolds == AudioInit => AudioInv
<1> SUFFICES ASSUME AudioInit PROVE AudioInv
  OBVIOUS
<1>1. <<>> \in Seq(Int) /\ <<>> \in Seq(Players) /\ Len(<<>>) = 0 /\ DOMAIN <<>> = {}
  OBVIOUS
<1>2. Numbered(<<>>, 2 * 0)
  BY DEF Numbered
<1>3. RingInv
  <2>1. ring = <<>> /\ produced = 0 /\ mono = FALSE
    BY DEF AudioInit
  <2>2. RingSize \in Nat /\ 0 \in Nat /\ 0 % 2 = 0
    BY AudioAssumption
  <2>3. /\ ring \in Seq(Int) /\ produced \in Nat /\ Numbered(ring, 2 * produced) /\ Len(ring) <= RingSize
        /\ Len(ring) % 2 = 0
    BY <1>1, <1>2, <2>1, <2>2
  <2>4. mono \in BOOLEAN
    BY <2>1
  <2> QED
    BY <2>3, <2>4 DEF RingInv
<1>4. PlayerInv
  BY <1>1 DEF AudioInit, PlayerInv, Streams
<1> QED
  BY <1>3, <1>4 DEF AudioInv

\* While the game neither resizes the buffer of a playing stream nor starts it
\* twice: the ring holds the last samples produced without a gap and keeps its
\* channels, no playback thread uses a buffer that was freed or is too small, and
\* none is left once requestStop or close has returned; for any ring, buffers and
\* threads.
THEOREM AudioStaysSound ==
    ASSUME ResizesLive = FALSE, StartsTwice = FALSE
    PROVE  AudioSpec => []AudioSound
<1>1. AudioInv /\ [AudioNext]_audioVars => AudioInv'
  <2>1. AudioInv /\ UNCHANGED audioVars => AudioInv'
    BY DEF AudioInv, RingInv, Numbered, PlayerInv, audioVars
  <2>2. AudioInv /\ AudioNext => AudioInv'
    BY RingKept, PlayersKept DEF AudioInv
  <2> QED
    BY <2>1, <2>2
<1>2. AudioInv => AudioSound
  <2> SUFFICES ASSUME AudioInv PROVE AudioSound
    OBVIOUS
  <2>1. Len(ring) \in Nat /\ ring \in Seq(Int) /\ produced \in Nat /\ Len(ring) <= RingSize
    BY DEF AudioInv, RingInv
  <2>2. ASSUME NEW k \in 2 .. Len(ring) PROVE ring[k] = ring[k - 1] + 1
    <3>1. k \in 1 .. Len(ring) /\ k - 1 \in 1 .. Len(ring)
      BY <2>1
    <3>2. /\ ring[k] = 2 * produced - Len(ring) + k - 1
          /\ ring[k - 1] = 2 * produced - Len(ring) + (k - 1) - 1
      BY <3>1 DEF AudioInv, RingInv, Numbered
    <3> QED
      BY <2>1, <3>2
  <2>3. ASSUME ring # <<>>, ~mono PROVE Head(ring) % 2 = 0
    <3>1. 1 \in 1 .. Len(ring) /\ Head(ring) = ring[1]
      BY <2>1, <2>3
    <3>2. ring[1] = 2 * produced - Len(ring) + 1 - 1
      BY <3>1 DEF AudioInv, RingInv, Numbered
    <3>3. Len(ring) % 2 = 0
      BY <2>3 DEF AudioInv, RingInv
    <3> QED
      BY <2>1, <3>1, <3>2, <3>3
  <2>4. ASSUME NEW t \in DOMAIN players
        PROVE  /\ players[t].at = "push" => room >= players[t].chunk
               /\ players[t].at = "fill" => aaudio.state = "open"
               /\ caller = "idle" /\ aaudio.handle = 0 => players[t].at = "ended"
    <3>1. t # 0
      BY LenProperties DEF AudioInv, PlayerInv
    <3> QED
      BY <3>1 DEF AudioInv, PlayerInv
  <2> QED
    BY <2>1, <2>2, <2>3, <2>4 DEF AudioSound
<1> QED
  BY <1>1, <1>2, AudioInitHolds, PTL DEF AudioSpec

-----------------------------------------------------------------------------
(* Requests and sockets.  The inductive invariant.                           *)

HttpCalls == [body : Calls \cup {None}, lost : BOOLEAN, completed : Nat, failed : Nat]
RequestStates == [url : Calls \cup {None}, handle : Calls \cup {None}, length : Nat, body : Nat]
Workers == [state : Nat, object : Requests, source : Calls, handle : Calls,
            at : {"start", "sent", "written", "done", "silent"}, sent : RequestStates]

HttpTypes ==
    /\ table \in [Requests -> Nat] /\ states \in Seq(RequestStates) /\ workers \in Seq(Workers)
    /\ call \in [Calls -> HttpCalls]
    /\ \A a \in Requests : table[a] \in 0 .. Len(states)

\* No two states are of one call, and no two workers of one state.
CallsApart ==
    /\ \A r, s \in 1 .. Len(states) : states[r].url = states[s].url /\ states[r].url # None => r = s
    /\ \A v, w \in 1 .. Len(workers) : workers[v].state = workers[w].state => v = w

\* A worker's state stays that of its call, whatever becomes of the object.
WorkersSure ==
    \A w \in 1 .. Len(workers) :
        LET s == workers[w].state
        IN  /\ s \in 1 .. Len(states) /\ states[s].url = workers[w].source
            /\ states[s].body <= BodySize[workers[w].source] /\ workers[w].handle = workers[w].source
            /\ workers[w].at # "start" =>
                  workers[w].sent.url = workers[w].source
                  /\ workers[w].sent.body <= BodySize[workers[w].source]

IsTold(e, body, lost, completed, failed) ==
    e.body = body /\ e.lost = lost /\ e.completed = completed /\ e.failed = failed
\* What a call was told when its worker is there.
ToldAt(e, c, at) ==
    /\ at \in {"start", "sent"} => IsTold(e, None, FALSE, 0, 0)
    /\ at = "written" => IsTold(e, c, FALSE, 0, 0) \/ IsTold(e, None, TRUE, 0, 0)
    /\ at = "done" => IsTold(e, c, FALSE, 1, 0) \/ IsTold(e, None, TRUE, 1, 0) \/ IsTold(e, None, FALSE, 0, 1)
    /\ at = "silent" => IsTold(e, None, FALSE, 0, 0) \/ IsTold(e, c, FALSE, 0, 0) \/ IsTold(e, None, TRUE, 0, 0)
\* What a call was told is what its worker has done.
CallsTold ==
    /\ \A c \in Calls : (\A w \in 1 .. Len(workers) : workers[w].source # c) => IsTold(call[c], None, FALSE, 0, 0)
    /\ \A w \in 1 .. Len(workers) : ToldAt(call[workers[w].source], workers[w].source, workers[w].at)

HttpInv == HttpTypes /\ CallsApart /\ WorkersSure /\ CallsTold

Connections == 1 .. MaxConnects
SocketTypes ==
    /\ sock \in [Sockets -> [made : BOOLEAN, connected : BOOLEAN, stream : 0 .. MaxConnects, connects : Nat,
                             left : BOOLEAN, reopened : BOOLEAN, late : Nat]]
    /\ conn \in [Connections -> [sock : Sockets \cup {None},
                                 at : {"none", "connecting", "callback", "check", "lock", "reading", "exit", "done"},
                                 owner : {<< >>} \cup {<<k>> : k \in Connections}]]
    /\ op \in [Threads -> [kind : {None, "send", "disconnect"}, sock : Sockets \cup {None},
                           at : {"begin", "stream"}, stream : 0 .. MaxConnects]]

\* A stream is locked by its own reader, inside read().
StreamsOwned ==
    \A k \in Connections :
        /\ conn[k].owner = IF conn[k].at = "reading" THEN <<k>> ELSE << >>
        /\ conn[k].at = "none" <=> conn[k].sock = None

\* A reader calls from its callback, and what waits for a stream names one.
CallsPlaced ==
    /\ \A k \in Connections : op[k] # NoOp => conn[k].at = "callback"
    /\ \A t \in Threads : /\ op[t].kind = None => op[t] = NoOp
                          /\ op[t].kind # None => op[t].sock \in Sockets
                          /\ op[t].at = "stream" => op[t].stream \in Connections

Disconnects(t) == op[t].kind = "disconnect" /\ op[t].at = "stream"
\* Who holds the table is the one thread that disconnects.
TableHeld ==
    \/ tableLock = << >> /\ \A t \in Threads : ~Disconnects(t)
    \/ \E t \in Threads : tableLock = <<t>> /\ \A u \in Threads : Disconnects(u) <=> u = t

Of(s) == {k \in Connections : conn[k].sock = s}
Leaving(s) == \E t \in Threads : Disconnects(t) /\ op[t].sock = s
\* What holds of a socket x that is s or becomes it while its reader is there:
\* a disconnect has shut it, but for the read the reader may be in, unless
\* its handshake ended later.
ShutFor(s, x, at) ==
    /\ x.connected => at # "done"
    /\ Leaving(s) => ~x.connected /\ ~x.reopened
    /\ x.left /\ ~x.reopened => ~x.connected
    /\ x.late # 0 /\ ~x.reopened => x.late = 1 /\ x.left /\ at \in {"callback", "check", "exit", "done"}
\* A socket connected once has one reader.
OneReader(s) ==
    /\ \A j, k \in Of(s) : j = k
    /\ sock[s].connects = 0 => Of(s) = {}
    /\ sock[s].stream # 0 \/ sock[s].connected \/ Leaving(s) \/ sock[s].reopened \/ sock[s].late # 0 =>
          \E k \in Of(s) : conn[k].at # "connecting"
    /\ \A k \in Of(s) : ShutFor(s, sock[s], conn[k].at)

SocketInv ==
    /\ SocketTypes /\ StreamsOwned /\ CallsPlaced /\ TableHeld
    /\ \A s \in Sockets : sock[s].connects <= 1 => OneReader(s)

NetInv == part \in {"none", "http", "sockets"} /\ HttpInv /\ SocketInv

-----------------------------------------------------------------------------
(* Requests and sockets.  The requests.                                      *)

LEMMA HttpSequences ==
    ASSUME HttpInv
    PROVE  /\ Len(states) \in Nat /\ DOMAIN states = 1 .. Len(states)
           /\ \A s \in 1 .. Len(states) : states[s] \in RequestStates
           /\ Len(workers) \in Nat /\ DOMAIN workers = 1 .. Len(workers)
           /\ \A w \in 1 .. Len(workers) : workers[w] \in Workers
<1>1. states \in Seq(RequestStates) /\ workers \in Seq(Workers)
  BY DEF HttpInv, HttpTypes
<1> HIDE DEF RequestStates, Workers
<1> QED
  BY <1>1, ElementOfSeq, LenProperties

LEMMA RequestInitKeeps ==
    ASSUME HttpInv, NEW a \in Requests, RequestInit(a)
    PROVE  HttpInv'
<1>1. /\ Len(states) \in Nat /\ states \in Seq(RequestStates)
      /\ \A s \in 1 .. Len(states) : states[s] \in RequestStates
  BY HttpSequences DEF HttpInv, HttpTypes
<1>2. PICK r \in RequestStates : r = NewState /\ r.url = None
  <2>1. NewState \in RequestStates /\ NewState.url = None
    BY DEF NewState, RequestStates
  <2> QED
    BY <2>1
<1>3. states' = Append(states, r) /\ UNCHANGED <<call, workers>>
  BY <1>2 DEF RequestInit
<1>4. /\ states' \in Seq(RequestStates) /\ Len(states') = Len(states) + 1
      /\ states'[Len(states) + 1] = r
      /\ \A s \in 1 .. Len(states) : states'[s] = states[s]
  <2> HIDE DEF RequestStates
  <2> QED
    BY <1>1, <1>3, AppendProperties
<1>5. table' = [table EXCEPT ![a] = Len(states) + 1]
  BY DEF RequestInit
<1>6. HttpTypes'
  <2>1. \A b \in Requests : table[b] \in 0 .. Len(states)
    BY DEF HttpInv, HttpTypes
  <2>2. table' \in [Requests -> Nat] /\ \A b \in Requests : table'[b] \in 0 .. Len(states')
    BY <1>1, <1>4, <1>5, <2>1 DEF HttpInv, HttpTypes
  <2> QED
    BY <1>3, <1>4, <2>2 DEF HttpInv, HttpTypes
<1>7. CallsApart'
  <2>1. ASSUME NEW i \in 1 .. Len(states'), NEW j \in 1 .. Len(states'),
               states'[i].url = states'[j].url, states'[i].url # None
        PROVE  i = j
    <3>1. i # Len(states) + 1 /\ j # Len(states) + 1
      BY <1>2, <1>4, <2>1
    <3>2. i \in 1 .. Len(states) /\ j \in 1 .. Len(states)
      BY <1>1, <1>4, <3>1
    <3> QED
      BY <1>4, <2>1, <3>2 DEF HttpInv, CallsApart
  <2> QED
    BY <1>3, <2>1 DEF HttpInv, CallsApart
<1>8. WorkersSure'
  <2> SUFFICES ASSUME NEW w \in 1 .. Len(workers)
               PROVE  LET s == workers[w].state
                      IN  s \in 1 .. Len(states) /\ s \in 1 .. Len(states') /\ states'[s] = states[s]
    BY <1>3 DEF HttpInv, WorkersSure
  <2>1. workers[w].state \in 1 .. Len(states)
    BY DEF HttpInv, WorkersSure
  <2> QED
    BY <1>1, <1>4, <2>1
<1>9. CallsTold'
  BY <1>3 DEF HttpInv, CallsTold
<1> QED
  BY <1>6, <1>7, <1>8, <1>9 DEF HttpInv

\* A setter changes a state that no worker has.
LEMMA SetterKeeps ==
    ASSUME HttpInv, NEW s \in 1 .. Len(states), ~Started(s), NEW r \in RequestStates,
           states' = [states EXCEPT ![s] = r], UNCHANGED <<table, call, workers>>,
           r.url = states[s].url \/ \A i \in 1 .. Len(states) : states[i].url # r.url
    PROVE  HttpInv'
<1>1. /\ Len(states) \in Nat /\ states \in Seq(RequestStates) /\ DOMAIN workers = 1 .. Len(workers)
  BY HttpSequences DEF HttpInv, HttpTypes
<1>2. /\ states' \in Seq(RequestStates) /\ Len(states') = Len(states) /\ states'[s] = r
      /\ \A i \in 1 .. Len(states) : i # s => states'[i] = states[i]
  <2> HIDE DEF RequestStates
  <2> QED
    BY <1>1, ExceptSeq, LenProperties
<1>3. HttpTypes'
  BY <1>2 DEF HttpInv, HttpTypes
<1>4. CallsApart'
  <2>1. ASSUME NEW i \in 1 .. Len(states), NEW j \in 1 .. Len(states),
               states'[i].url = states'[j].url, states'[i].url # None
        PROVE  i = j
    <3>1. CASE i = s /\ j # s
      BY <1>2, <2>1, <3>1 DEF HttpInv, CallsApart
    <3>2. CASE i # s /\ j = s
      BY <1>2, <2>1, <3>2 DEF HttpInv, CallsApart
    <3>3. CASE i # s /\ j # s
      BY <1>2, <2>1, <3>3 DEF HttpInv, CallsApart
    <3> QED
      BY <3>1, <3>2, <3>3
  <2> QED
    BY <1>2, <2>1 DEF HttpInv, CallsApart
<1>5. WorkersSure'
  <2>1. \A w \in 1 .. Len(workers) : workers[w].state \in 1 .. Len(states) /\ workers[w].state # s
    BY <1>1 DEF HttpInv, WorkersSure, Started
  <2> QED
    BY <1>2, <2>1 DEF HttpInv, WorkersSure
<1> QED
  BY <1>3, <1>4, <1>5 DEF HttpInv, CallsTold

LEMMA SettersKeep ==
    ASSUME HttpInv, NEW a \in Requests, \/ SetHttpMethodAndBody(a)
                                        \/ \E c \in Calls : SetHttpUrl(a, c)
    PROVE  HttpInv'
<1>1. table[a] \in 1 .. Len(states) /\ table[a] \in DOMAIN states /\ states[table[a]] \in RequestStates
  <2>1. table[a] # NoRequest
    BY DEF SetHttpMethodAndBody, SetHttpUrl
  <2>2. table[a] \in 0 .. Len(states) /\ Len(states) \in Nat
    BY HttpSequences DEF HttpInv, HttpTypes
  <2>3. table[a] \in 1 .. Len(states)
    BY <2>1, <2>2 DEF NoRequest
  <2> QED
    BY <2>3, HttpSequences
<1>2. PICK s : s = table[a]
  OBVIOUS
<1>3. ASSUME NEW c \in Calls, SetHttpUrl(a, c) PROVE HttpInv'
  <2>1. PICK r \in RequestStates : r = [states[s] EXCEPT !.url = c] /\ r.url = c
    <3>1. [states[s] EXCEPT !.url = c] \in RequestStates /\ [states[s] EXCEPT !.url = c].url = c
      BY <1>1, <1>2 DEF RequestStates
    <3> QED
      BY <3>1
  <2>2. states' = [states EXCEPT ![s] = r] /\ UNCHANGED <<table, call, workers>> /\ ~Started(s)
    BY <1>2, <1>3, <2>1 DEF SetHttpUrl
  <2>3. \A i \in 1 .. Len(states) : states[i].url # r.url
    BY <1>3, <2>1, HttpSequences DEF SetHttpUrl
  <2> QED
    BY <1>1, <1>2, <2>1, <2>2, <2>3, SetterKeeps
<1>4. CASE SetHttpMethodAndBody(a)
  <2>1. states[s].url \in Calls
    <3>1. states[s] \in RequestStates /\ states[s].url # None
      BY <1>1, <1>2, <1>4 DEF SetHttpMethodAndBody
    <3> QED
      BY <3>1 DEF RequestStates
  <2>2. BodySize[states[s].url] \in Nat
    BY <2>1, NetAssumption
  <2>3. PICK r : r = [states[s] EXCEPT !.handle = states[s].url, !.length = BodySize[states[s].url]]
    OBVIOUS
  <2>4. r \in RequestStates /\ r.url = states[s].url
    BY <1>1, <1>2, <2>1, <2>2, <2>3 DEF RequestStates
  <2>5. states' = [states EXCEPT ![s] = r] /\ UNCHANGED <<table, call, workers>> /\ ~Started(s)
    BY <1>2, <1>4, <2>3 DEF SetHttpMethodAndBody
  <2> QED
    BY <1>1, <1>2, <2>4, <2>5, SetterKeeps
<1> QED
  BY <1>3, <1>4

LEMMA DoRequestKeeps ==
    ASSUME HttpInv, NEW a \in Requests, NEW c \in Calls, DoRequestAsync(a, c)
    PROVE  HttpInv'
<1>1. PICK s : s = table[a]
  OBVIOUS
<1>2. /\ s \in 1 .. Len(states) /\ states[s] \in RequestStates /\ ~Started(s) /\ states[s].url = c
      /\ Len(states) \in Nat /\ states \in Seq(RequestStates)
  <2>1. table[a] # NoRequest /\ ~Started(s) /\ states[s].url = c
    BY <1>1 DEF DoRequestAsync
  <2>2. table[a] \in 0 .. Len(states) /\ Len(states) \in Nat /\ states \in Seq(RequestStates)
    BY HttpSequences DEF HttpInv, HttpTypes
  <2>3. s \in 1 .. Len(states)
    BY <1>1, <2>1, <2>2 DEF NoRequest
  <2> QED
    BY <2>1, <2>2, <2>3, HttpSequences
<1>3. PICK got : /\ got \in IF states[s].length > 0 THEN BodyRead(c) ELSE {0}
                 /\ states' = [states EXCEPT ![s].handle = c, ![s].body = got]
                 /\ workers' = Append(workers, [state |-> s, object |-> a, source |-> c,
                                                handle |-> c, at |-> "start", sent |-> NewState])
                 /\ UNCHANGED <<table, call>>
  BY <1>1 DEF DoRequestAsync
<1>4. got \in Nat /\ got <= BodySize[c]
  <2>1. BodySize[c] \in Nat
    BY NetAssumption
  <2>2. BodyRead(c) \subseteq 0 .. BodySize[c]
    BY <2>1 DEF BodyRead
  <2>3. got \in 0 .. BodySize[c]
    BY <1>3, <2>1, <2>2
  <2> QED
    BY <2>1, <2>3
<1>5. PICK r \in RequestStates : r = [states[s] EXCEPT !.handle = c, !.body = got] /\ r.url = c /\ r.body = got
  <2>1. PICK r : r = [states[s] EXCEPT !.handle = c, !.body = got]
    OBVIOUS
  <2>2. r \in RequestStates /\ r.url = c /\ r.body = got
    BY <1>2, <1>4, <2>1 DEF RequestStates
  <2> QED
    BY <2>1, <2>2
<1>6. PICK z \in Workers : /\ z = [state |-> s, object |-> a, source |-> c,
                                    handle |-> c, at |-> "start", sent |-> NewState]
                           /\ z.state = s /\ z.source = c /\ z.handle = c /\ z.at = "start"
  <2>1. PICK z : z = [state |-> s, object |-> a, source |-> c,
                      handle |-> c, at |-> "start", sent |-> NewState]
    OBVIOUS
  <2>2. NewState \in RequestStates /\ s \in Nat
    BY <1>2 DEF NewState, RequestStates
  <2>3. z \in Workers /\ z.state = s /\ z.source = c /\ z.handle = c /\ z.at = "start"
    BY <2>1, <2>2 DEF Workers
  <2> QED
    BY <2>1, <2>3
<1>7. /\ states' \in Seq(RequestStates) /\ Len(states') = Len(states) /\ states'[s] = r
      /\ \A i \in 1 .. Len(states) : i # s => states'[i] = states[i]
  <2>1. states' = [states EXCEPT ![s] = r]
    BY <1>3, <1>5
  <2> HIDE DEF RequestStates
  <2> QED
    BY <1>2, <2>1, ExceptSeq, LenProperties
<1>8. PICK n \in Nat : n = Len(workers)
  BY HttpSequences
<1>9. /\ workers' \in Seq(Workers) /\ Len(workers') = n + 1 /\ workers'[n + 1] = z
      /\ \A w \in 1 .. n : workers'[w] = workers[w] /\ workers[w] \in Workers
  <2>1. workers' = Append(workers, z) /\ workers \in Seq(Workers)
    BY <1>3, <1>6 DEF HttpInv, HttpTypes
  <2> HIDE DEF Workers
  <2> QED
    BY <1>6, <1>8, <2>1, HttpSequences, AppendProperties
<1>10. \A w \in 1 .. n : workers[w].state # s /\ workers[w].state \in 1 .. Len(states)
  BY <1>2, <1>8, HttpSequences DEF HttpInv, WorkersSure, Started
<1>11. HttpTypes'
  BY <1>3, <1>7, <1>9 DEF HttpInv, HttpTypes
<1>12. CallsApart'
  <2>1. ASSUME NEW i \in 1 .. Len(states), NEW j \in 1 .. Len(states),
               states'[i].url = states'[j].url, states'[i].url # None
        PROVE  i = j
    <3>1. states'[i].url = states[i].url /\ states'[j].url = states[j].url
      BY <1>2, <1>5, <1>7
    <3> QED
      BY <2>1, <3>1 DEF HttpInv, CallsApart
  <2>2. ASSUME NEW v \in 1 .. n + 1, NEW w \in 1 .. n + 1, workers'[v].state = workers'[w].state PROVE v = w
    <3>1. CASE v = n + 1 /\ w # n + 1
      BY <1>6, <1>8, <1>9, <1>10, <2>2, <3>1
    <3>2. CASE v # n + 1 /\ w = n + 1
      BY <1>6, <1>8, <1>9, <1>10, <2>2, <3>2
    <3>3. CASE v # n + 1 /\ w # n + 1
      <4>1. v \in 1 .. n /\ w \in 1 .. n
        BY <1>8, <3>3
      <4> QED
        BY <1>8, <1>9, <2>2, <4>1 DEF HttpInv, CallsApart
    <3> QED
      BY <3>1, <3>2, <3>3
  <2> QED
    BY <1>7, <1>9, <2>1, <2>2 DEF CallsApart
<1>13. WorkersSure'
  <2> DEFINE Sure(w) == LET t == workers'[w].state
                        IN  /\ t \in 1 .. Len(states') /\ states'[t].url = workers'[w].source
                            /\ states'[t].body <= BodySize[workers'[w].source]
                            /\ workers'[w].handle = workers'[w].source
                            /\ workers'[w].at # "start" =>
                                  workers'[w].sent.url = workers'[w].source
                                  /\ workers'[w].sent.body <= BodySize[workers'[w].source]
  <2>1. ASSUME NEW w \in 1 .. n PROVE Sure(w)
    <3>1. workers'[w] = workers[w] /\ states'[workers[w].state] = states[workers[w].state]
      BY <1>7, <1>9, <1>10
    <3> QED
      BY <1>7, <1>8, <3>1 DEF HttpInv, WorkersSure
  <2>2. Sure(n + 1)
    BY <1>2, <1>4, <1>5, <1>6, <1>7, <1>9
  <2>3. \A w \in 1 .. n + 1 : Sure(w)
    BY <1>8, <2>1, <2>2
  <2> QED
    BY <1>9, <2>3 DEF WorkersSure
<1>14. CallsTold'
  <2>1. \A w \in 1 .. n : workers[w].source # c
    <3> SUFFICES ASSUME NEW w \in 1 .. n, workers[w].source = c PROVE FALSE
      OBVIOUS
    <3>1. states[workers[w].state].url = c /\ c # None
      BY <1>8, NetAssumption DEF HttpInv, WorkersSure, None
    <3> QED
      BY <1>2, <1>10, <3>1 DEF HttpInv, CallsApart
  <2>2. IsTold(call[c], None, FALSE, 0, 0)
    BY <1>8, <2>1 DEF HttpInv, CallsTold
  <2>3. ASSUME NEW d \in Calls, \A w \in 1 .. n + 1 : workers'[w].source # d PROVE IsTold(call[d], None, FALSE, 0, 0)
    <3>1. \A w \in 1 .. n : workers[w].source # d
      BY <1>8, <1>9, <2>3
    <3> QED
      BY <1>8, <3>1 DEF HttpInv, CallsTold
  <2>4. call' = call
    BY <1>3
  <2> DEFINE HeardOf(w) == ToldAt(call[workers'[w].source], workers'[w].source, workers'[w].at)
  <2>5. ASSUME NEW w \in 1 .. n PROVE HeardOf(w)
    BY <1>8, <1>9 DEF HttpInv, CallsTold
  <2>6. HeardOf(n + 1)
    BY <1>6, <1>9, <2>2 DEF ToldAt
  <2>7. \A w \in 1 .. n + 1 : HeardOf(w)
    BY <1>8, <2>5, <2>6
  <2> QED
    BY <1>9, <2>3, <2>4, <2>7 DEF CallsTold
<1> QED
  BY <1>11, <1>12, <1>13, <1>14 DEF HttpInv

\* A worker goes on with its own call.
LEMMA WorkerKeeps ==
    ASSUME HttpInv, NEW w \in 1 .. Len(workers), NEW z \in Workers, workers' = [workers EXCEPT ![w] = z],
           UNCHANGED <<table, states>>,
           z.state = workers[w].state, z.source = workers[w].source, z.handle = workers[w].handle,
           z.at # "start" => z.sent.url = z.source /\ z.sent.body <= BodySize[z.source],
           NEW e \in HttpCalls,
           call' = [call EXCEPT ![z.source] = e],
           ToldAt(e, z.source, z.at)
    PROVE  HttpInv'
<1>1. /\ Len(workers) \in Nat /\ workers \in Seq(Workers) /\ z.source \in Calls
      /\ \A v \in 1 .. Len(workers) : workers[v] \in Workers
  BY HttpSequences DEF HttpInv, HttpTypes, Workers
<1>2. /\ workers' \in Seq(Workers) /\ Len(workers') = Len(workers) /\ workers'[w] = z
      /\ \A v \in 1 .. Len(workers) : v # w => workers'[v] = workers[v]
  <2> HIDE DEF Workers
  <2> QED
    BY <1>1, ExceptSeq, LenProperties
<1>3. /\ call' \in [Calls -> HttpCalls]
      /\ call'[z.source] = e /\ \A d \in Calls : d # z.source => call'[d] = call[d]
  BY <1>1 DEF HttpInv, HttpTypes
<1>4. HttpTypes'
  BY <1>2, <1>3 DEF HttpInv, HttpTypes
<1>5. CallsApart'
  <2>1. \A v \in 1 .. Len(workers) : workers'[v].state = workers[v].state
    BY <1>2
  <2> QED
    BY <1>2, <2>1 DEF HttpInv, CallsApart
<1>6. WorkersSure'
  <2>1. ASSUME NEW v \in 1 .. Len(workers)
        PROVE  LET s == workers'[v].state
               IN  /\ s \in 1 .. Len(states) /\ states[s].url = workers'[v].source
                   /\ states[s].body <= BodySize[workers'[v].source] /\ workers'[v].handle = workers'[v].source
                   /\ workers'[v].at # "start" =>
                         workers'[v].sent.url = workers'[v].source
                         /\ workers'[v].sent.body <= BodySize[workers'[v].source]
    <3>1. CASE v = w
      BY <1>2, <3>1 DEF HttpInv, WorkersSure
    <3>2. CASE v # w
      BY <1>2, <3>2 DEF HttpInv, WorkersSure
    <3> QED
      BY <3>1, <3>2
  <2> QED
    BY <1>2, <2>1 DEF WorkersSure
<1>7. \A v \in 1 .. Len(workers) : v # w => workers[v].source # z.source
  <2> SUFFICES ASSUME NEW v \in 1 .. Len(workers), v # w, workers[v].source = z.source PROVE FALSE
    OBVIOUS
  <2>1. /\ states[workers[v].state].url = z.source /\ states[workers[w].state].url = z.source
        /\ workers[v].state \in 1 .. Len(states) /\ workers[w].state \in 1 .. Len(states) /\ z.source # None
    BY <1>1, NetAssumption DEF HttpInv, WorkersSure, None
  <2>2. workers[v].state = workers[w].state
    BY <2>1 DEF HttpInv, CallsApart
  <2> QED
    BY <2>2 DEF HttpInv, CallsApart
<1>8. CallsTold'
  <2>1. ASSUME NEW d \in Calls, \A v \in 1 .. Len(workers) : workers'[v].source # d
        PROVE  IsTold(call'[d], None, FALSE, 0, 0)
    <3>1. d # z.source /\ \A v \in 1 .. Len(workers) : workers[v].source # d
      BY <1>2, <2>1
    <3>2. IsTold(call[d], None, FALSE, 0, 0)
      BY <3>1 DEF HttpInv, CallsTold
    <3> QED
      BY <1>3, <3>1, <3>2
  <2> DEFINE HeardOf(v) == ToldAt(call'[workers'[v].source], workers'[v].source, workers'[v].at)
  <2>2. ASSUME NEW v \in 1 .. Len(workers), v # w PROVE HeardOf(v)
    <3>1. workers'[v] = workers[v] /\ workers[v].source # z.source /\ workers[v].source \in Calls
      BY <1>1, <1>2, <1>7, <2>2 DEF Workers
    <3>2. call'[workers[v].source] = call[workers[v].source]
      BY <1>3, <3>1
    <3> QED
      BY <3>1, <3>2 DEF HttpInv, CallsTold
  <2>3. HeardOf(w)
    BY <1>2, <1>3
  <2>4. \A v \in 1 .. Len(workers) : HeardOf(v)
    BY <2>2, <2>3
  <2> QED
    BY <1>2, <2>1, <2>4 DEF CallsTold
<1> QED
  BY <1>4, <1>5, <1>6, <1>8 DEF HttpInv

LEMMA WorkerStepsKeep ==
    ASSUME HttpInv, NEW w \in 1 .. Len(workers),
           WorkerSends(w) \/ WorkerAnswered(w) \/ OnRequestCompleted(w) \/ OnRequestFailed(w) \/ WorkerGivesUp(w)
    PROVE  HttpInv'
<1>1. PICK x \in Workers : x = workers[w]
  BY HttpSequences
<1>2. /\ x.state \in 1 .. Len(states) /\ states[x.state].url = x.source /\ x.handle = x.source
      /\ states[x.state].body <= BodySize[x.source] /\ states[x.state] \in RequestStates
      /\ x.at # "start" => x.sent.url = x.source /\ x.sent.body <= BodySize[x.source]
  <2>1. workers[w].state \in 1 .. Len(states)
    BY DEF HttpInv, WorkersSure
  <2>2. states[workers[w].state] \in RequestStates
    BY <2>1, HttpSequences
  <2> QED
    BY <1>1, <2>2 DEF HttpInv, WorkersSure
<1>3. PICK c \in Calls : c = x.source
  BY DEF Workers
<1>4. ToldAt(call[c], c, x.at) /\ call[c] \in HttpCalls
  BY <1>1, <1>3 DEF HttpInv, CallsTold, HttpTypes
<1>5. call \in [Calls -> HttpCalls] /\ None \notin Calls
  BY NetAssumption DEF HttpInv, HttpTypes, None
\* What is left to show of a step: where the worker is then, with which
\* message, and what the call was told.
<1>6. ASSUME NEW at \in {"sent", "written", "done", "silent"}, NEW sent \in RequestStates,
             sent.url = c, sent.body <= BodySize[c],
             workers' = [workers EXCEPT ![w].at = at, ![w].sent = sent], UNCHANGED <<table, states>>,
             NEW e \in HttpCalls, call' = [call EXCEPT ![c] = e], ToldAt(e, c, at)
      PROVE  HttpInv'
  <2>1. PICK z \in Workers : z = [x EXCEPT !.at = at, !.sent = sent] /\ z.at = at /\ z.sent = sent
                             /\ z.state = x.state /\ z.source = x.source /\ z.handle = x.handle
    <3>1. PICK z : z = [x EXCEPT !.at = at, !.sent = sent]
      OBVIOUS
    <3>2. /\ z \in Workers /\ z.at = at /\ z.sent = sent /\ z.state = x.state
          /\ z.source = x.source /\ z.handle = x.handle
      BY <1>6, <3>1 DEF Workers
    <3> QED
      BY <3>1, <3>2
  <2>2. workers' = [workers EXCEPT ![w] = z]
    BY <1>1, <1>6, <2>1
  <2>3. z.at # "start" => z.sent.url = z.source /\ z.sent.body <= BodySize[z.source]
    BY <1>3, <1>6, <2>1
  <2>4. /\ z.state = workers[w].state /\ z.source = workers[w].source /\ z.handle = workers[w].handle
        /\ call' = [call EXCEPT ![z.source] = e] /\ ToldAt(e, z.source, z.at)
    BY <1>1, <1>3, <1>6, <2>1
  <2> HIDE DEF HttpCalls, ToldAt
  <2> QED
    BY <1>6, <2>2, <2>3, <2>4, WorkerKeeps
<1>7. ASSUME NEW at \in {"written", "done", "silent"}, x.at # "start", UNCHANGED <<table, states>>,
             workers' = [workers EXCEPT ![w].at = at],
             NEW e \in HttpCalls, call' = [call EXCEPT ![c] = e], ToldAt(e, c, at)
      PROVE  HttpInv'
  <2>1. x.sent \in RequestStates /\ x.sent.url = c /\ x.sent.body <= BodySize[c]
    BY <1>2, <1>3, <1>7 DEF Workers
  <2>2. workers' = [workers EXCEPT ![w].at = at, ![w].sent = x.sent]
    <3>1. [x EXCEPT !.at = at] = [x EXCEPT !.at = at, !.sent = x.sent]
      BY DEF Workers
    <3> QED
      BY <1>1, <1>7, <3>1
  <2> HIDE DEF HttpCalls, ToldAt
  <2> QED
    BY <1>6, <1>7, <2>1, <2>2
<1>8. CASE WorkerSends(w)
  <2>1. /\ workers' = [workers EXCEPT ![w].at = "sent", ![w].sent = states[x.state]]
        /\ UNCHANGED <<table, states>> /\ call' = call /\ x.at = "start"
    BY <1>1, <1>8 DEF WorkerSends, StateOf
  <2>2. call' = [call EXCEPT ![c] = call[c]] /\ ToldAt(call[c], c, "sent")
    BY <1>4, <1>5, <2>1 DEF ToldAt
  <2> HIDE DEF HttpCalls, ToldAt
  <2> QED
    BY <1>2, <1>3, <1>4, <1>6, <2>1, <2>2
<1>9. CASE WorkerAnswered(w)
  <2>1. /\ workers' = [workers EXCEPT ![w].at = "written"] /\ UNCHANGED <<table, states>> /\ x.at = "sent"
        /\ \/ call' = [call EXCEPT ![c] = [call[c] EXCEPT !.body = c]]
           \/ call' = [call EXCEPT ![c] = [call[c] EXCEPT !.lost = TRUE]]
    BY <1>1, <1>2, <1>3, <1>9 DEF WorkerAnswered
  <2>2. IsTold(call[c], None, FALSE, 0, 0)
    BY <1>4, <2>1 DEF ToldAt
  <2>3. PICK e : e = [call[c] EXCEPT !.body = c]
    OBVIOUS
  <2>4. PICK f : f = [call[c] EXCEPT !.lost = TRUE]
    OBVIOUS
  <2>5. e \in HttpCalls /\ IsTold(e, c, FALSE, 0, 0)
    BY <1>4, <2>2, <2>3 DEF HttpCalls, IsTold
  <2>6. f \in HttpCalls /\ IsTold(f, None, TRUE, 0, 0)
    BY <1>4, <2>2, <2>4 DEF HttpCalls, IsTold
  <2>7. ToldAt(e, c, "written") /\ ToldAt(f, c, "written")
    BY <2>5, <2>6 DEF ToldAt
  <2> HIDE DEF HttpCalls, ToldAt
  <2> QED
    BY <1>7, <2>1, <2>3, <2>4, <2>5, <2>6, <2>7
<1>10. CASE OnRequestCompleted(w)
  <2>1. /\ workers' = [workers EXCEPT ![w].at = "done"] /\ UNCHANGED <<table, states>> /\ x.at = "written"
        /\ call' = [call EXCEPT ![c] = [call[c] EXCEPT !.completed = call[c].completed + 1]]
    BY <1>1, <1>3, <1>10 DEF OnRequestCompleted
  <2>2. IsTold(call[c], c, FALSE, 0, 0) \/ IsTold(call[c], None, TRUE, 0, 0)
    BY <1>4, <2>1 DEF ToldAt
  <2>3. PICK e : e = [call[c] EXCEPT !.completed = call[c].completed + 1]
    OBVIOUS
  <2>4. e \in HttpCalls /\ (IsTold(e, c, FALSE, 1, 0) \/ IsTold(e, None, TRUE, 1, 0))
    BY <1>4, <2>2, <2>3 DEF HttpCalls, IsTold
  <2>5. ToldAt(e, c, "done")
    BY <2>4 DEF ToldAt
  <2> HIDE DEF HttpCalls, ToldAt
  <2> QED
    BY <1>7, <2>1, <2>3, <2>4, <2>5
<1>11. CASE OnRequestFailed(w)
  <2>1. /\ workers' = [workers EXCEPT ![w].at = "done"] /\ UNCHANGED <<table, states>> /\ x.at = "sent"
        /\ call' = [call EXCEPT ![c] = [call[c] EXCEPT !.failed = call[c].failed + 1]]
    BY <1>1, <1>3, <1>11 DEF OnRequestFailed
  <2>2. IsTold(call[c], None, FALSE, 0, 0)
    BY <1>4, <2>1 DEF ToldAt
  <2>3. PICK e : e = [call[c] EXCEPT !.failed = call[c].failed + 1]
    OBVIOUS
  <2>4. e \in HttpCalls /\ IsTold(e, None, FALSE, 0, 1)
    BY <1>4, <2>2, <2>3 DEF HttpCalls, IsTold
  <2>5. ToldAt(e, c, "done")
    BY <2>4 DEF ToldAt
  <2> HIDE DEF HttpCalls, ToldAt
  <2> QED
    BY <1>7, <2>1, <2>3, <2>4, <2>5
<1>12. CASE WorkerGivesUp(w)
  <2>1. /\ workers' = [workers EXCEPT ![w].at = "silent"] /\ UNCHANGED <<table, states>> /\ call' = call
        /\ x.at \in {"sent", "written"}
    BY <1>1, <1>12 DEF WorkerGivesUp
  <2>2. call' = [call EXCEPT ![c] = call[c]] /\ ToldAt(call[c], c, "silent")
    BY <1>4, <1>5, <2>1 DEF ToldAt
  <2> HIDE DEF HttpCalls, ToldAt
  <2> QED
    BY <1>4, <1>7, <2>1, <2>2
<1> QED
  BY <1>8, <1>9, <1>10, <1>11, <1>12

LEMMA HttpKept ==
    ASSUME HttpInv, HttpNext
    PROVE  HttpInv'
<1>1. ASSUME NEW a \in Requests, RequestDestroy(a) PROVE HttpInv'
  <2>1. table' = [table EXCEPT ![a] = 0] /\ UNCHANGED <<states, call, workers>>
    BY <1>1 DEF RequestDestroy, NoRequest
  <2>2. /\ table' \in [Requests -> Nat] /\ Len(states) \in Nat
        /\ \A b \in Requests : table'[b] \in 0 .. Len(states)
    BY <2>1, HttpSequences DEF HttpInv, HttpTypes
  <2> QED
    BY <2>1, <2>2 DEF HttpInv, HttpTypes, CallsApart, WorkersSure, CallsTold
<1>2. ASSUME NEW w \in DOMAIN workers,
             WorkerSends(w) \/ WorkerAnswered(w) \/ OnRequestCompleted(w) \/ OnRequestFailed(w) \/ WorkerGivesUp(w)
      PROVE  HttpInv'
  BY <1>2, HttpSequences, WorkerStepsKeep
<1> QED
  BY <1>1, <1>2, RequestInitKeeps, SettersKeep, DoRequestKeeps DEF HttpNext

LEMMA HttpAnswers == HttpInv => CallsAnswered
<1> SUFFICES ASSUME HttpInv PROVE CallsAnswered
  OBVIOUS
<1>1. DOMAIN workers = 1 .. Len(workers)
  BY HttpSequences
<1>2. ASSUME NEW c \in Calls
      PROVE  /\ call[c].completed + call[c].failed <= 1
             /\ call[c].body \in {None, c}
             /\ call[c].completed = 1 => call[c].body = c \/ call[c].lost
             /\ (\E w \in DOMAIN workers : workers[w].source = c /\ workers[w].at = "done")
                   => call[c].completed + call[c].failed = 1
  <2>1. CASE \A w \in 1 .. Len(workers) : workers[w].source # c
    <3>1. IsTold(call[c], None, FALSE, 0, 0)
      BY <2>1 DEF HttpInv, CallsTold, IsTold
    <3> QED
      BY <1>1, <2>1, <3>1 DEF IsTold
  <2>2. ASSUME NEW w \in 1 .. Len(workers), workers[w].source = c
        PROVE  /\ call[c].completed + call[c].failed <= 1
               /\ call[c].body \in {None, c}
               /\ call[c].completed = 1 => call[c].body = c \/ call[c].lost
               /\ workers[w].at = "done" => call[c].completed + call[c].failed = 1
    <3>1. ToldAt(call[c], c, workers[w].at) /\ workers[w].at \in {"start", "sent", "written", "done", "silent"}
      BY <2>2, HttpSequences DEF HttpInv, CallsTold, Workers
    <3> QED
      BY <3>1 DEF ToldAt, IsTold
  <2> QED
    BY <1>1, <2>1, <2>2
<1>3. \A w \in DOMAIN workers : workers[w].at # "start" =>
          /\ workers[w].sent.url = workers[w].source
          /\ workers[w].sent.body <= BodySize[workers[w].source]
  BY <1>1 DEF HttpInv, WorkersSure
<1> QED
  BY <1>2, <1>3 DEF CallsAnswered

-----------------------------------------------------------------------------
(* Requests and sockets.  The readers.                                       *)

Socks == [made : BOOLEAN, connected : BOOLEAN, stream : 0 .. MaxConnects, connects : Nat,
          left : BOOLEAN, reopened : BOOLEAN, late : Nat]
Conns == [sock : Sockets \cup {None},
          at : {"none", "connecting", "callback", "check", "lock", "reading", "exit", "done"},
          owner : {<< >>} \cup {<<k>> : k \in Connections}]

LEMMA SocketFields ==
    ASSUME SocketInv
    PROVE  /\ sock \in [Sockets -> Socks] /\ conn \in [Connections -> Conns]
           /\ \A k \in Connections :
                 /\ conn[k].at = "none" <=> conn[k].sock = None
                 /\ conn[k].at # "none" => conn[k].sock \in Sockets /\ conn[k].sock # None
                 /\ conn[k].at \in {"none", "connecting", "callback", "check", "lock", "reading", "exit", "done"}
<1>1. sock \in [Sockets -> Socks] /\ conn \in [Connections -> Conns]
  BY DEF SocketInv, SocketTypes, Socks, Conns
<1>2. ASSUME NEW k \in Connections
      PROVE  /\ conn[k].at = "none" <=> conn[k].sock = None
             /\ conn[k].at # "none" => conn[k].sock \in Sockets /\ conn[k].sock # None
             /\ conn[k].at \in {"none", "connecting", "callback", "check", "lock", "reading", "exit", "done"}
  <2>1. conn[k] \in Conns
    BY <1>1
  <2>2. conn[k].sock \in Sockets \cup {None}
        /\ conn[k].at \in {"none", "connecting", "callback", "check", "lock", "reading", "exit", "done"}
    BY <2>1 DEF Conns
  <2> QED
    BY <2>2 DEF SocketInv, StreamsOwned
<1> QED
  BY <1>1, <1>2

\* What the socket of a connection says of it, when it is the only one.
LEMMA OnlyReader ==
    ASSUME SocketInv, NEW k \in Connections, NEW s \in Sockets, conn[k].sock = s, sock[s].connects <= 1
    PROVE  /\ \A j \in Of(s) : j = k
           /\ sock[s].connected \/ Leaving(s) \/ sock[s].reopened \/ sock[s].late # 0 => conn[k].at # "connecting"
           /\ ShutFor(s, sock[s], conn[k].at)
<1>1. OneReader(s) /\ k \in Of(s)
  BY DEF SocketInv, Of
<1> HIDE DEF Of, Leaving
<1>2. \A j \in Of(s) : j = k
  BY <1>1 DEF OneReader
<1>3. sock[s].connected \/ Leaving(s) \/ sock[s].reopened \/ sock[s].late # 0 =>
          \E j \in Of(s) : conn[j].at # "connecting"
  BY <1>1 DEF OneReader
<1> QED
  BY <1>1, <1>2, <1>3 DEF OneReader

LEMMA ReaderKeeps ==
    ASSUME SocketInv, NEW k \in Connections, NEW s \in Sockets, conn[k].sock = s,
           NEW c \in Conns, conn' = [conn EXCEPT ![k] = c], c.sock = s,
           c.at # "none", c.at # "connecting",
           c.owner = IF c.at = "reading" THEN <<k>> ELSE << >>,
           conn[k].at = "callback" => op[k] = NoOp,
           NEW q \in Socks, sock' = [sock EXCEPT ![s] = q], UNCHANGED <<op, tableLock>>,
           q.connects = sock[s].connects, q.left = sock[s].left,
           sock[s].connects <= 1 => ShutFor(s, q, c.at)
    PROVE  SocketInv'
<1>1. /\ conn' \in [Connections -> Conns] /\ conn'[k] = c
      /\ \A j \in Connections : j # k => conn'[j] = conn[j]
  BY SocketFields
<1>2. /\ sock' \in [Sockets -> Socks] /\ sock'[s] = q
      /\ \A r \in Sockets : r # s => sock'[r] = sock[r]
  BY SocketFields
<1>3. SocketTypes'
  BY <1>1, <1>2 DEF SocketInv, SocketTypes, Socks, Conns
<1>4. s # None
  BY NetAssumption DEF None
<1>5. StreamsOwned'
  <2> SUFFICES ASSUME NEW j \in Connections
               PROVE  /\ conn'[j].owner = IF conn'[j].at = "reading" THEN <<j>> ELSE << >>
                      /\ conn'[j].at = "none" <=> conn'[j].sock = None
    BY DEF StreamsOwned
  <2>1. CASE j = k
    BY <1>1, <1>4, <2>1
  <2>2. CASE j # k
    BY <1>1, <2>2 DEF SocketInv, StreamsOwned
  <2> QED
    BY <2>1, <2>2
<1>6. CallsPlaced'
  <2>1. ASSUME NEW j \in Connections, op[j] # NoOp PROVE conn'[j].at = "callback"
    <3>1. conn[j].at = "callback"
      BY <2>1 DEF SocketInv, CallsPlaced
    <3>2. j # k
      BY <2>1, <3>1
    <3> QED
      BY <1>1, <3>1, <3>2
  <2> QED
    BY <2>1 DEF SocketInv, CallsPlaced
<1>7. TableHeld'
  BY DEF SocketInv, TableHeld, Disconnects
<1>8. ASSUME NEW r \in Sockets PROVE Of(r)' = Of(r)
  BY <1>1 DEF Of
<1>9. ASSUME NEW r \in Sockets PROVE (\E t \in Threads : Disconnects(t) /\ op[t].sock = r)'
                                       <=> \E t \in Threads : Disconnects(t) /\ op[t].sock = r
  BY DEF Disconnects
<1>10. ASSUME NEW r \in Sockets, sock'[r].connects <= 1 PROVE OneReader(r)'
  <2>1. CASE r # s
    <3>1. sock'[r] = sock[r] /\ OneReader(r) /\ (Leaving(r)' <=> Leaving(r))
      BY <1>2, <1>9, <1>10, <2>1 DEF SocketInv, Leaving
    <3>2. \A j \in Of(r) : conn'[j] = conn[j]
      BY <1>1, <2>1 DEF Of
    <3> HIDE DEF Of, Leaving
    <3> QED
      BY <1>8, <3>1, <3>2 DEF OneReader, ShutFor
  <2>2. CASE r = s
    <3>1. sock[s].connects <= 1 /\ sock'[s] = q /\ OneReader(s)
      BY <1>2, <1>10, <2>2 DEF SocketInv
    <3>2. Of(s)' = Of(s) /\ k \in Of(s) /\ \A j \in Of(s) : j = k
      BY <1>8, <3>1, OnlyReader DEF Of
    <3>3. Leaving(s)' <=> Leaving(s)
      BY <1>9 DEF Leaving
    <3>4. sock[s].connects = 0 => FALSE
      BY <3>1, <3>2 DEF OneReader
    <3> HIDE DEF Of, Leaving
    <3> QED
      BY <1>1, <2>2, <3>1, <3>2, <3>3, <3>4 DEF OneReader, ShutFor
  <2> QED
    BY <2>1, <2>2
<1> QED
  BY <1>3, <1>5, <1>6, <1>7, <1>10 DEF SocketInv

ReaderSteps(k) ==
    \/ Opened(k) \/ Refused(k) \/ CallbackEnds(k) \/ Checks(k) \/ Locks(k)
    \/ Reads(k) \/ ReadEnds(k) \/ ReaderExits(k)

LEMMA ReaderStepsKeep ==
    ASSUME SocketInv, NEW k \in Connections, ReaderSteps(k)
    PROVE  SocketInv'
<1>1. PICK s \in Sockets : s = conn[k].sock /\ conn[k].at # "none"
  <2>1. conn[k].at # "none"
    BY DEF ReaderSteps, Opened, Refused, CallbackEnds, Checks, Locks, Reads, ReadEnds, ReaderExits
  <2> QED
    BY <2>1, SocketFields
<1>2. PICK x \in Conns : x = conn[k]
  BY SocketFields
<1>3. PICK y \in Socks : y = sock[s]
  BY SocketFields
<1>4. x.owner = (IF x.at = "reading" THEN <<k>> ELSE << >>) /\ x.sock = s
  BY <1>1, <1>2 DEF SocketInv, StreamsOwned
<1>5. conn \in [Connections -> Conns] /\ sock \in [Sockets -> Socks]
  BY SocketFields
<1>6. y.connects <= 1 =>
          /\ y.connected \/ Leaving(s) \/ y.reopened \/ y.late # 0 => x.at # "connecting"
          /\ ShutFor(s, y, x.at)
  BY <1>1, <1>2, <1>3, OnlyReader
<1>7. y.connected \in BOOLEAN /\ y.left \in BOOLEAN /\ y.reopened \in BOOLEAN /\ y.late \in Nat
  BY DEF Socks
<1> HIDE DEF Leaving
\* The reader goes to another place.
<1>8. ASSUME NEW at \in {"callback", "check", "lock", "exit", "done"}, Go(k, at), x.at # "reading"
      PROVE  /\ [x EXCEPT !.at = at] \in Conns /\ [x EXCEPT !.at = at].at = at
             /\ [x EXCEPT !.at = at].sock = s /\ [x EXCEPT !.at = at].owner = << >>
             /\ conn' = [conn EXCEPT ![k] = [x EXCEPT !.at = at]]
  <2>1. conn' = [conn EXCEPT ![k] = [x EXCEPT !.at = at]]
    BY <1>2, <1>8 DEF Go
  <2>2. x.owner = << >>
    BY <1>4, <1>8
  <2> QED
    BY <1>4, <2>1, <2>2 DEF Conns
<1>9. CASE Opened(k)
  <2>1. PICK c \in Conns : c = [x EXCEPT !.at = "callback"] /\ c.at = "callback" /\ c.sock = s
                           /\ c.owner = << >> /\ conn' = [conn EXCEPT ![k] = c]
    <3>1. Go(k, "callback") /\ x.at # "reading"
      BY <1>2, <1>9 DEF Opened
    <3> QED
      BY <1>8, <3>1
  <2>2. PICK q \in Socks : q = [y EXCEPT !.connected = TRUE, !.stream = k, !.reopened = y.left]
                           /\ q.connects = y.connects /\ q.left = y.left /\ q.late = y.late /\ q.reopened = y.left
    <3>1. PICK q : q = [y EXCEPT !.connected = TRUE, !.stream = k, !.reopened = y.left]
      OBVIOUS
    <3>2. k \in 0 .. MaxConnects
      BY NetAssumption DEF Connections
    <3>3. q \in Socks /\ q.connects = y.connects /\ q.left = y.left /\ q.late = y.late /\ q.reopened = y.left
      BY <1>7, <3>1, <3>2 DEF Socks
    <3> QED
      BY <3>1, <3>3
  <2>3. sock' = [sock EXCEPT ![s] = q] /\ UNCHANGED <<op, tableLock>> /\ x.at = "connecting"
    BY <1>1, <1>2, <1>3, <1>5, <1>9, <2>2 DEF Opened
  <2>4. y.connects <= 1 => ShutFor(s, q, c.at)
    BY <1>6, <2>1, <2>2, <2>3 DEF ShutFor
  <2>5. conn[k].at # "callback" /\ q.connects = sock[s].connects /\ q.left = sock[s].left
    BY <1>2, <1>3, <2>2, <2>3
  <2> QED
    <3>1. c.owner = IF c.at = "reading" THEN <<k>> ELSE << >>
      BY <2>1
    <3>2. c.sock = s /\ c.at # "none" /\ c.at # "connecting" /\ c.at # "done" /\ conn' = [conn EXCEPT ![k] = c]
      BY <2>1
    <3>3. sock' = [sock EXCEPT ![s] = q] /\ UNCHANGED <<op, tableLock>>
      BY <2>3
    <3> QED
      BY <1>1, <1>3, <2>4, <2>5, <3>1, <3>2, <3>3, ReaderKeeps
<1>10. CASE Refused(k) \/ CallbackEnds(k) \/ Checks(k)
  <2>1. PICK at \in {"check", "lock", "exit", "done"} :
             /\ Go(k, at) /\ UNCHANGED <<sock, op, tableLock>> /\ x.at \in {"connecting", "callback", "check"}
             /\ at = "lock" => y.connected
             /\ at = "done" => x.at = "connecting"
             /\ x.at = "callback" => op[k] = NoOp
    BY <1>1, <1>2, <1>3, <1>10 DEF Refused, CallbackEnds, Checks
  <2>2. PICK c \in Conns : c.at = at /\ c.sock = s /\ c.owner = << >> /\ conn' = [conn EXCEPT ![k] = c]
    <3>1. at \in {"callback", "check", "lock", "exit", "done"} /\ Go(k, at) /\ x.at # "reading"
      BY <2>1
    <3>2. PICK c : c = [x EXCEPT !.at = at]
      OBVIOUS
    <3> QED
      BY <1>8, <3>1, <3>2
  <2>3. sock' = [sock EXCEPT ![s] = y]
    BY <1>3, <1>5, <2>1
  <2>4. y.connects <= 1 => ShutFor(s, y, c.at)
    BY <1>6, <1>7, <2>1, <2>2 DEF ShutFor
  <2>5. conn[k].at = "callback" => op[k] = NoOp
    BY <1>2, <2>1
  <2>6. UNCHANGED <<op, tableLock>>
    BY <2>1
  <2>7. PICK q \in Socks : q = y
    OBVIOUS
  <2>8. sock' = [sock EXCEPT ![s] = q] /\ q.connects = sock[s].connects /\ q.left = sock[s].left
    BY <1>3, <2>3, <2>7
  <2>9. sock[s].connects <= 1 => ShutFor(s, q, c.at)
    BY <1>3, <2>4, <2>7
  <2> QED
    BY <1>1, <2>2, <2>5, <2>6, <2>8, <2>9, ReaderKeeps
<1>11. CASE Locks(k)
  <2>1. PICK c \in Conns : c.at = "reading" /\ c.sock = s /\ c.owner = <<k>> /\ conn' = [conn EXCEPT ![k] = c]
    <3>1. conn' = [conn EXCEPT ![k] = [x EXCEPT !.at = "reading", !.owner = <<k>>]]
      BY <1>2, <1>11 DEF Locks
    <3>2. <<k>> \in {<< >>} \cup {<<j>> : j \in Connections}
      OBVIOUS
    <3>3. PICK c : c = [x EXCEPT !.at = "reading", !.owner = <<k>>]
      OBVIOUS
    <3>4. c \in Conns /\ c.at = "reading" /\ c.sock = s /\ c.owner = <<k>>
      BY <1>4, <3>2, <3>3 DEF Conns
    <3> QED
      BY <3>1, <3>3, <3>4
  <2>2. UNCHANGED <<sock, op, tableLock>> /\ x.at = "lock"
    BY <1>2, <1>11 DEF Locks
  <2>3. sock' = [sock EXCEPT ![s] = y]
    BY <1>3, <1>5, <2>2
  <2>4. y.connects <= 1 => ShutFor(s, y, c.at)
    BY <1>6, <2>1, <2>2 DEF ShutFor
  <2>5. conn[k].at # "callback"
    BY <1>2, <2>2
  <2>6. UNCHANGED <<op, tableLock>>
    BY <2>2
  <2>7. PICK q \in Socks : q = y
    OBVIOUS
  <2>8. sock' = [sock EXCEPT ![s] = q] /\ q.connects = sock[s].connects /\ q.left = sock[s].left
    BY <1>3, <2>3, <2>7
  <2>9. sock[s].connects <= 1 => ShutFor(s, q, c.at)
    BY <1>3, <2>4, <2>7
  <2> QED
    BY <1>1, <2>1, <2>5, <2>6, <2>8, <2>9, ReaderKeeps
<1>12. CASE Reads(k)
  <2>1. PICK c \in Conns : c.at = "callback" /\ c.sock = s /\ c.owner = << >> /\ conn' = [conn EXCEPT ![k] = c]
    <3>1. conn' = [conn EXCEPT ![k] = [x EXCEPT !.owner = << >>, !.at = "callback"]]
      BY <1>2, <1>12 DEF Reads, OwnerAfterRead
    <3>2. PICK c : c = [x EXCEPT !.owner = << >>, !.at = "callback"]
      OBVIOUS
    <3>3. c \in Conns /\ c.at = "callback" /\ c.sock = s /\ c.owner = << >>
      BY <1>4, <3>2 DEF Conns
    <3> QED
      BY <3>1, <3>2, <3>3
  <2>2. PICK late : late = IF y.left /\ y.late < 2 THEN y.late + 1 ELSE y.late
    OBVIOUS
  <2>3. PICK q : q = [y EXCEPT !.late = late]
    OBVIOUS
  <2>4. q \in Socks /\ q.late = late /\ q.left = y.left /\ q.connected = y.connected /\ q.connects = y.connects
        /\ q.reopened = y.reopened
    <3>1. late \in Nat
      BY <1>7, <2>2
    <3> QED
      BY <2>3, <3>1 DEF Socks
  <2>5. sock' = [sock EXCEPT ![s] = q] /\ UNCHANGED <<op, tableLock>> /\ x.at = "reading"
    <3>1. sock' = [sock EXCEPT ![s].late = IF sock[s].left /\ @ < 2 THEN @ + 1 ELSE @]
      BY <1>1, <1>12 DEF Reads
    <3>2. sock' = [sock EXCEPT ![s] = [y EXCEPT !.late = late]]
      BY <1>3, <1>5, <2>2, <3>1
    <3> QED
      BY <1>2, <1>12, <2>3, <3>2 DEF Reads
  <2>6. y.connects <= 1 => ShutFor(s, q, c.at)
    BY <1>6, <1>7, <2>1, <2>2, <2>4, <2>5 DEF ShutFor
  <2>7. conn[k].at # "callback" /\ q.connects = sock[s].connects /\ q.left = sock[s].left
    BY <1>2, <1>3, <2>4, <2>5
  <2>8. UNCHANGED <<op, tableLock>>
    BY <2>5
  <2> QED
    BY <1>1, <1>3, <2>1, <2>4, <2>5, <2>6, <2>7, <2>8, ReaderKeeps
<1>13. CASE ReadEnds(k)
  <2>1. PICK c \in Conns : c.at = "exit" /\ c.sock = s /\ c.owner = << >> /\ conn' = [conn EXCEPT ![k] = c]
    <3>1. conn' = [conn EXCEPT ![k] = [x EXCEPT !.owner = << >>, !.at = "exit"]]
      BY <1>2, <1>13 DEF ReadEnds
    <3>2. PICK c : c = [x EXCEPT !.owner = << >>, !.at = "exit"]
      OBVIOUS
    <3>3. c \in Conns /\ c.at = "exit" /\ c.sock = s /\ c.owner = << >>
      BY <1>4, <3>2 DEF Conns
    <3> QED
      BY <3>1, <3>2, <3>3
  <2>2. UNCHANGED <<sock, op, tableLock>> /\ x.at = "reading"
    BY <1>2, <1>13 DEF ReadEnds
  <2>3. sock' = [sock EXCEPT ![s] = y]
    BY <1>3, <1>5, <2>2
  <2>4. y.connects <= 1 => ShutFor(s, y, c.at)
    BY <1>6, <2>1, <2>2 DEF ShutFor
  <2>5. conn[k].at # "callback"
    BY <1>2, <2>2
  <2>6. UNCHANGED <<op, tableLock>>
    BY <2>2
  <2>7. PICK q \in Socks : q = y
    OBVIOUS
  <2>8. sock' = [sock EXCEPT ![s] = q] /\ q.connects = sock[s].connects /\ q.left = sock[s].left
    BY <1>3, <2>3, <2>7
  <2>9. sock[s].connects <= 1 => ShutFor(s, q, c.at)
    BY <1>3, <2>4, <2>7
  <2> QED
    BY <1>1, <2>1, <2>5, <2>6, <2>8, <2>9, ReaderKeeps
<1>14. CASE ReaderExits(k)
  <2>1. PICK c \in Conns : c.at = "done" /\ c.sock = s /\ c.owner = << >> /\ conn' = [conn EXCEPT ![k] = c]
    <3>1. Go(k, "done") /\ x.at # "reading"
      BY <1>2, <1>14 DEF ReaderExits
    <3> QED
      BY <1>8, <3>1
  <2>2. PICK q : q = [y EXCEPT !.connected = FALSE]
    OBVIOUS
  <2>3. q \in Socks /\ q.connected = FALSE /\ q.connects = y.connects /\ q.left = y.left /\ q.late = y.late
        /\ q.reopened = y.reopened
    BY <2>2 DEF Socks
  <2>4. sock' = [sock EXCEPT ![s] = q] /\ UNCHANGED <<op, tableLock>> /\ x.at = "exit"
    BY <1>1, <1>2, <1>3, <1>5, <1>14, <2>2 DEF ReaderExits
  <2>5. y.connects <= 1 => ShutFor(s, q, c.at)
    BY <1>6, <2>1, <2>3 DEF ShutFor
  <2>6. conn[k].at # "callback" /\ q.connects = sock[s].connects /\ q.left = sock[s].left
    BY <1>2, <1>3, <2>3, <2>4
  <2>7. UNCHANGED <<op, tableLock>>
    BY <2>4
  <2> QED
    BY <1>1, <1>3, <2>1, <2>3, <2>4, <2>5, <2>6, <2>7, ReaderKeeps
<1> QED
  BY <1>9, <1>10, <1>11, <1>12, <1>13, <1>14 DEF ReaderSteps

-----------------------------------------------------------------------------
(* Requests and sockets.  The calls.                                         *)

Ops == [kind : {None, "send", "disconnect"}, sock : Sockets \cup {None},
        at : {"begin", "stream"}, stream : 0 .. MaxConnects]

LEMMA NoOpShape ==
    NoOp \in Ops /\ NoOp.kind = None /\ NoOp.at = "begin" /\ None # "disconnect" /\ None # "send"
<1>1. 0 \in 0 .. MaxConnects
  BY NetAssumption
<1> QED
  BY <1>1 DEF NoOp, Ops, None

LEMMA OpFields ==
    ASSUME SocketInv
    PROVE  op \in [Threads -> Ops]
BY DEF SocketInv, SocketTypes, Ops

\* A call that no disconnect is about, before or after.
LEMMA CallKeeps ==
    ASSUME SocketInv, NEW t \in Threads, NEW o \in Ops, op' = [op EXCEPT ![t] = o],
           ~Disconnects(t), o.kind # "disconnect" \/ o.at # "stream",
           o.kind = None => o = NoOp, o.kind # None => o.sock \in Sockets,
           o.at = "stream" => o.stream \in Connections,
           o # NoOp => (t \in Connections => conn[t].at = "callback"),
           UNCHANGED <<sock, conn, tableLock>>
    PROVE  SocketInv'
<1>1. /\ op' \in [Threads -> Ops] /\ op'[t] = o
      /\ \A u \in Threads : u # t => op'[u] = op[u]
  BY OpFields
<1>2. \A u \in Threads : Disconnects(u)' <=> Disconnects(u)
  BY <1>1 DEF Disconnects
<1>3. SocketTypes'
  BY <1>1 DEF SocketInv, SocketTypes, Ops
<1>4. StreamsOwned'
  BY DEF SocketInv, StreamsOwned
<1>5. Connections \subseteq Threads
  BY DEF Connections, Threads
<1>6. CallsPlaced'
  <2>1. ASSUME NEW k \in Connections, op'[k] # NoOp PROVE conn[k].at = "callback"
    BY <1>1, <1>5, <2>1 DEF SocketInv, CallsPlaced
  <2>2. ASSUME NEW u \in Threads
        PROVE  /\ op'[u].kind = None => op'[u] = NoOp
               /\ op'[u].kind # None => op'[u].sock \in Sockets
               /\ op'[u].at = "stream" => op'[u].stream \in Connections
    BY <1>1 DEF SocketInv, CallsPlaced
  <2> QED
    BY <2>1, <2>2 DEF CallsPlaced
<1>7. TableHeld'
  BY <1>2 DEF SocketInv, TableHeld
<1>8. ASSUME NEW s \in Sockets, sock[s].connects <= 1 PROVE OneReader(s)'
  <2>1. OneReader(s) /\ Of(s)' = Of(s)
    BY <1>8 DEF SocketInv, Of
  <2>2. ASSUME NEW u \in Threads PROVE (Disconnects(u) /\ op[u].sock = s)' <=> Disconnects(u) /\ op[u].sock = s
    <3>1. CASE u = t
      BY <1>2, <3>1
    <3>2. CASE u # t
      BY <1>1, <1>2, <3>2
    <3> QED
      BY <3>1, <3>2
  <2>3. Leaving(s)' <=> Leaving(s)
    BY <2>2 DEF Leaving
  <2> HIDE DEF Of, Leaving
  <2> QED
    BY <2>1, <2>3 DEF OneReader, ShutFor
<1> QED
  BY <1>3, <1>4, <1>6, <1>7, <1>8 DEF SocketInv

LEMMA CallsKeep ==
    ASSUME SocketInv, NEW t \in Threads,
           \/ \E s \in Sockets, kind \in {"send", "disconnect"} : Call(t, kind, s)
           \/ SendBegins(t) \/ SendEnds(t)
    PROVE  SocketInv'
<1>0. op \in [Threads -> Ops] /\ op[t] \in Ops
  BY OpFields
<1>1. ASSUME NEW s \in Sockets, NEW kind \in {"send", "disconnect"}, Call(t, kind, s) PROVE SocketInv'
  <2>1. PICK o \in Ops : o = [NoOp EXCEPT !.kind = kind, !.sock = s] /\ o.kind = kind /\ o.sock = s /\ o.at = "begin"
    <3>1. PICK o : o = [NoOp EXCEPT !.kind = kind, !.sock = s]
      OBVIOUS
    <3>2. o \in Ops /\ o.kind = kind /\ o.sock = s /\ o.at = "begin"
      BY <3>1, NoOpShape DEF Ops, NoOp
    <3> QED
      BY <3>1, <3>2
  <2>2. op' = [op EXCEPT ![t] = o] /\ UNCHANGED <<sock, conn, tableLock>> /\ op[t] = NoOp
    BY <1>1, <2>1 DEF Call, MayCall
  <2>3. ~Disconnects(t)
    BY <2>2, NoOpShape DEF Disconnects
  <2>4. t \in Connections => conn[t].at = "callback"
    BY <1>1, NetAssumption DEF Call, MayCall, InCallback, Connections
  <2>5. o.kind # None
    BY <2>1, NoOpShape
  <2> QED
    BY <2>1, <2>2, <2>3, <2>4, <2>5, CallKeeps
<1>2. ASSUME op' = [op EXCEPT ![t] = NoOp], op[t].kind = "send", UNCHANGED <<sock, conn, tableLock>> PROVE SocketInv'
  <2>1. ~Disconnects(t)
    BY <1>2 DEF Disconnects
  <2>2. NoOp \in Ops /\ NoOp.kind = None /\ NoOp.at # "stream"
    BY NoOpShape
  <2> HIDE DEF NoOp
  <2> QED
    BY <1>2, <2>1, <2>2, CallKeeps
<1>3. CASE SendBegins(t)
  <2>1. CASE op' = [op EXCEPT ![t] = NoOp]
    BY <1>2, <1>3, <2>1 DEF SendBegins
  <2>2. CASE op' # [op EXCEPT ![t] = NoOp]
    <3>1. PICK y \in Socks : y = sock[op[t].sock]
      <4>1. op[t].sock \in Sockets
        BY <1>3, NoOpShape DEF SendBegins, SocketInv, CallsPlaced
      <4> QED
        BY <4>1, SocketFields
    <3>2. op' = [op EXCEPT ![t].at = "stream", ![t].stream = y.stream] /\ y.stream # 0
          /\ op[t].kind = "send" /\ op[t].at = "begin" /\ UNCHANGED <<sock, conn, tableLock>>
      BY <1>3, <2>2, <3>1 DEF SendBegins, Returned
    <3>3. PICK o : o = [op[t] EXCEPT !.at = "stream", !.stream = y.stream]
      OBVIOUS
    <3>4. o \in Ops /\ o.at = "stream" /\ o.stream = y.stream /\ o.kind = "send" /\ o.sock = op[t].sock
      BY <1>0, <3>2, <3>3 DEF Ops, Socks
    <3>5. op' = [op EXCEPT ![t] = o]
      BY <1>0, <3>2, <3>3
    <3>6. o.stream \in Connections
      BY <3>2, <3>4, NetAssumption DEF Socks, Connections
    <3>7. o.kind # None /\ op[t].kind # None /\ op[t] # NoOp /\ o.kind # "disconnect"
      BY <3>2, <3>4, NoOpShape
    <3>8. op[t].sock \in Sockets /\ (t \in Connections => conn[t].at = "callback")
      BY <3>7 DEF SocketInv, CallsPlaced
    <3>9. ~Disconnects(t)
      BY <3>2 DEF Disconnects
    <3> QED
      BY <3>2, <3>4, <3>5, <3>6, <3>7, <3>8, <3>9, CallKeeps
  <2> QED
    BY <2>1, <2>2
<1>4. CASE SendEnds(t)
  BY <1>2, <1>4 DEF SendEnds, Returned
<1> QED
  BY <1>1, <1>3, <1>4

LEMMA WsInitKeeps ==
    ASSUME SocketInv, NEW s \in Sockets, WsInit(s)
    PROVE  SocketInv'
<1>1. sock' = [sock EXCEPT ![s].made = TRUE] /\ UNCHANGED <<conn, op, tableLock>>
  BY DEF WsInit
<1>2. sock' \in [Sockets -> Socks]
      /\ \A r \in Sockets : /\ sock'[r].connects = sock[r].connects /\ sock'[r].stream = sock[r].stream
                            /\ sock'[r].connected = sock[r].connected /\ sock'[r].left = sock[r].left
                            /\ sock'[r].late = sock[r].late /\ sock'[r].reopened = sock[r].reopened
  <2>1. sock \in [Sockets -> Socks]
    BY SocketFields
  <2> QED
    BY <1>1, <2>1 DEF Socks
<1>3. SocketTypes'
  BY <1>1, <1>2 DEF SocketInv, SocketTypes, Socks
<1>4. StreamsOwned' /\ CallsPlaced' /\ TableHeld'
  BY <1>1 DEF SocketInv, StreamsOwned, CallsPlaced, TableHeld, Disconnects
<1>5. ASSUME NEW r \in Sockets, sock'[r].connects <= 1 PROVE OneReader(r)'
  <2>1. OneReader(r)
    BY <1>2, <1>5 DEF SocketInv
  <2>2. Of(r)' = Of(r)
    BY <1>1 DEF Of
  <2>3. Leaving(r)' <=> Leaving(r)
    BY <1>1 DEF Leaving, Disconnects
  <2> HIDE DEF Of, Leaving
  <2> QED
    BY <1>1, <1>2, <2>1, <2>2, <2>3 DEF OneReader, ShutFor
<1> QED
  BY <1>3, <1>4, <1>5 DEF SocketInv

LEMMA ConnectKeeps ==
    ASSUME SocketInv, NEW s \in Sockets, Connect(s)
    PROVE  SocketInv'
<1>1. PICK k \in Connections : conn[k].at = "none" /\ conn' = [conn EXCEPT ![k] = [NoConn EXCEPT !.sock = s, !.at = "connecting"]]
  BY SocketFields DEF Connect
<1>2. UNCHANGED <<op, tableLock>> /\ sock' = [sock EXCEPT ![s].connects = @ + 1, ![s].left = FALSE]
  BY DEF Connect
<1>3. PICK c \in Conns : c.sock = s /\ c.at = "connecting" /\ c.owner = << >> /\ conn' = [conn EXCEPT ![k] = c]
  <2>1. PICK c : c = [NoConn EXCEPT !.sock = s, !.at = "connecting"]
    OBVIOUS
  <2>2. c \in Conns /\ c.sock = s /\ c.at = "connecting" /\ c.owner = << >>
    BY <2>1 DEF NoConn, Conns
  <2> QED
    BY <1>1, <2>1, <2>2
<1>4. PICK q \in Socks : /\ sock' = [sock EXCEPT ![s] = q] /\ q.connects = sock[s].connects + 1
                         /\ q.stream = sock[s].stream /\ q.connected = sock[s].connected
                         /\ q.late = sock[s].late /\ q.reopened = sock[s].reopened
  <2>1. PICK y \in Socks : y = sock[s] /\ sock \in [Sockets -> Socks]
    BY SocketFields
  <2>2. PICK q : q = [y EXCEPT !.connects = y.connects + 1, !.left = FALSE]
    OBVIOUS
  <2>3. /\ q \in Socks /\ q.connects = y.connects + 1 /\ q.stream = y.stream /\ q.connected = y.connected
        /\ q.late = y.late /\ q.reopened = y.reopened
    <3>1. y.connects + 1 \in Nat
      BY DEF Socks
    <3>2. q \in Socks
      BY <2>2, <3>1 DEF Socks
    <3> QED
      BY <2>2, <3>2 DEF Socks
  <2>4. sock' = [sock EXCEPT ![s] = q]
    BY <1>2, <2>1, <2>2
  <2> QED
    BY <2>1, <2>3, <2>4
<1>5. /\ conn' \in [Connections -> Conns] /\ conn'[k] = c
      /\ \A j \in Connections : j # k => conn'[j] = conn[j]
  BY <1>3, SocketFields
<1>6. /\ sock' \in [Sockets -> Socks] /\ sock'[s] = q
      /\ \A r \in Sockets : r # s => sock'[r] = sock[r]
  BY <1>4, SocketFields
<1>7. SocketTypes'
  BY <1>2, <1>5, <1>6 DEF SocketInv, SocketTypes, Socks, Conns
<1>8. s # None
  BY NetAssumption DEF None
<1>9. StreamsOwned'
  <2> SUFFICES ASSUME NEW j \in Connections
               PROVE  /\ conn'[j].owner = IF conn'[j].at = "reading" THEN <<j>> ELSE << >>
                      /\ conn'[j].at = "none" <=> conn'[j].sock = None
    BY DEF StreamsOwned
  <2>1. CASE j = k
    BY <1>3, <1>5, <1>8, <2>1
  <2>2. CASE j # k
    BY <1>5, <2>2 DEF SocketInv, StreamsOwned
  <2> QED
    BY <2>1, <2>2
<1>10. CallsPlaced'
  <2>1. ASSUME NEW j \in Connections, op[j] # NoOp PROVE conn'[j].at = "callback"
    <3>1. conn[j].at = "callback"
      BY <2>1 DEF SocketInv, CallsPlaced
    <3> QED
      BY <1>1, <1>5, <3>1
  <2> QED
    BY <1>2, <2>1 DEF SocketInv, CallsPlaced
<1>11. TableHeld'
  BY <1>2 DEF SocketInv, TableHeld, Disconnects
<1>12. ASSUME NEW r \in Sockets, sock'[r].connects <= 1 PROVE OneReader(r)'
  <2>1. (Leaving(r)' <=> Leaving(r))
    BY <1>2 DEF Leaving, Disconnects
  <2>2. CASE r # s
    <3>1. sock'[r] = sock[r] /\ OneReader(r)
      BY <1>6, <1>12, <2>2 DEF SocketInv
    <3>2. Of(r)' = Of(r)
      <4>1. conn[k].sock = None /\ r # None
        BY <1>1, SocketFields, NetAssumption DEF None
      <4> QED
        BY <1>3, <1>5, <2>2, <4>1 DEF Of
    <3>3. \A j \in Of(r) : conn'[j] = conn[j]
      <4>1. conn[k].sock = None /\ r # None
        BY <1>1, SocketFields, NetAssumption DEF None
      <4> QED
        BY <1>5, <4>1 DEF Of
    <3> HIDE DEF Of, Leaving
    <3> QED
      BY <2>1, <3>1, <3>2, <3>3 DEF OneReader, ShutFor
  <2>3. CASE r = s
    <3>1. sock[s].connects = 0
      <4>1. sock[s].connects \in Nat
        BY SocketFields DEF Socks
      <4> QED
        BY <1>4, <1>6, <1>12, <2>3, <4>1
    <3>2. OneReader(s) /\ Of(s) = {}
      BY <3>1 DEF SocketInv, OneReader
    <3>3. Of(s)' = {k}
      BY <1>3, <1>5, <3>2 DEF Of
    <3> HIDE DEF Of
    <3> HIDE DEF Leaving
    <3>4. sock[s].stream = 0 /\ ~sock[s].connected /\ ~Leaving(s) /\ ~sock[s].reopened /\ sock[s].late = 0
      BY <3>2 DEF OneReader
    <3>6. sock'[s].connects # 0
      BY <1>4, <1>6, <3>1
    <3> QED
      BY <1>4, <1>6, <2>1, <2>3, <3>3, <3>4, <3>6 DEF OneReader, ShutFor
  <2> QED
    BY <2>2, <2>3
<1> QED
  BY <1>7, <1>9, <1>10, <1>11, <1>12 DEF SocketInv

LEMMA DisconnectKeeps ==
    ASSUME SocketInv, NEW t \in Threads, NEW s \in Sockets, op[t].kind = "disconnect", op[t].sock = s,
           NEW o \in Ops, op' = [op EXCEPT ![t] = o],
           o = NoOp \/ (o.kind = "disconnect" /\ o.sock = s /\ o.stream \in Connections),
           NEW q \in Socks, sock' = [sock EXCEPT ![s] = q], UNCHANGED conn, TableHeld',
           q.connects = sock[s].connects, sock[s].left => q.left,
           sock[s].connects <= 1 => ~q.connected /\ (Leaving(s)' => ~q.reopened),
           q.late = 0 \/ (q.late = sock[s].late /\ q.reopened = sock[s].reopened),
           (q.stream # 0 \/ q.reopened \/ Leaving(s)') =>
               (sock[s].stream # 0 \/ sock[s].reopened \/ Leaving(s))
    PROVE  SocketInv'
<1>1. /\ op' \in [Threads -> Ops] /\ op'[t] = o
      /\ \A u \in Threads : u # t => op'[u] = op[u]
  BY OpFields
<1>2. /\ sock' \in [Sockets -> Socks] /\ sock'[s] = q
      /\ \A r \in Sockets : r # s => sock'[r] = sock[r]
  BY SocketFields
<1>3. SocketTypes'
  BY <1>1, <1>2 DEF SocketInv, SocketTypes, Ops, Socks
<1>4. StreamsOwned'
  BY DEF SocketInv, StreamsOwned
<1>5. Connections \subseteq Threads
  BY DEF Connections, Threads
<1>6. op[t] # NoOp
  BY NoOpShape
<1>7. CallsPlaced'
  <2>1. ASSUME NEW k \in Connections, op'[k] # NoOp PROVE conn[k].at = "callback"
    BY <1>1, <1>5, <1>6, <2>1 DEF SocketInv, CallsPlaced
  <2>2. ASSUME NEW u \in Threads
        PROVE  /\ op'[u].kind = None => op'[u] = NoOp
               /\ op'[u].kind # None => op'[u].sock \in Sockets
               /\ op'[u].at = "stream" => op'[u].stream \in Connections
    <3>1. CASE u = t
      BY <1>1, <3>1, NoOpShape
    <3>2. CASE u # t
      BY <1>1, <3>2 DEF SocketInv, CallsPlaced
    <3> QED
      BY <3>1, <3>2
  <2> QED
    BY <2>1, <2>2 DEF CallsPlaced
<1>8. ASSUME NEW r \in Sockets, sock'[r].connects <= 1 PROVE OneReader(r)'
  <2>1. Of(r)' = Of(r)
    BY DEF Of
  <2>2. CASE r # s
    <3>1. sock'[r] = sock[r] /\ OneReader(r)
      BY <1>2, <1>8, <2>2 DEF SocketInv
    <3>2. ASSUME NEW u \in Threads
          PROVE  (Disconnects(u) /\ op[u].sock = r)' <=> Disconnects(u) /\ op[u].sock = r
      <4>1. CASE u = t
        <5>1. ~(Disconnects(t)' /\ op'[t].sock = r)
          BY <1>1, <2>2, NoOpShape DEF Disconnects
        <5> QED
          BY <2>2, <4>1, <5>1
      <4>2. CASE u # t
        BY <1>1, <4>2 DEF Disconnects
      <4> QED
        BY <4>1, <4>2
    <3>3. Leaving(r)' <=> Leaving(r)
      BY <3>1, <3>2 DEF Leaving
    <3> HIDE DEF Of, Leaving
    <3> QED
      BY <2>1, <3>1, <3>3 DEF OneReader, ShutFor
  <2>3. CASE r = s
    <3>1. OneReader(s) /\ sock'[s] = q /\ ~q.connected
      BY <1>2, <1>8, <2>3 DEF SocketInv
    <3> HIDE DEF Of, Leaving
    <3>2. q.stream # 0 \/ q.connected \/ Leaving(s)' \/ q.reopened \/ q.late # 0 =>
              \E k \in Of(s) : conn[k].at # "connecting"
      BY <3>1 DEF OneReader
    <3>3. \A k \in Of(s) : ShutFor(s, q, conn[k].at)'
      BY <1>2, <1>8, <2>3, <3>1 DEF OneReader, ShutFor
    <3> QED
      BY <2>1, <2>3, <3>1, <3>2, <3>3 DEF OneReader
  <2> QED
    BY <2>2, <2>3
<1> QED
  BY <1>3, <1>4, <1>7, <1>8 DEF SocketInv

LEMMA DisconnectBeginsKeeps ==
    ASSUME SocketInv, NEW t \in Threads, DisconnectBegins(t)
    PROVE  SocketInv'
<1>1. PICK s \in Sockets : s = op[t].sock /\ op[t].kind = "disconnect" /\ op[t].at = "begin"
  BY NoOpShape DEF DisconnectBegins, SocketInv, CallsPlaced
<1>2. PICK y \in Socks : y = sock[s] /\ sock \in [Sockets -> Socks] /\ op \in [Threads -> Ops] /\ op[t] \in Ops
  BY SocketFields, OpFields
<1>3. tableLock = << >> /\ UNCHANGED conn /\ ~Disconnects(t)
  BY <1>1 DEF DisconnectBegins, TableFree, IsFree, Disconnects
<1>5. \A u \in Threads : ~Disconnects(u)
  <2>1. \A u : << >> # <<u>>
    OBVIOUS
  <2> QED
    BY <1>3, <2>1 DEF SocketInv, TableHeld
<1>6. CASE y.stream = 0
  <2>1. op' = [op EXCEPT ![t] = NoOp] /\ UNCHANGED tableLock
    BY <1>1, <1>2, <1>6 DEF DisconnectBegins, Returned
  <2>2. PICK q \in Socks : /\ sock' = [sock EXCEPT ![s] = q] /\ ~q.connected /\ q.stream = 0 /\ q.left
                           /\ q.connects = y.connects /\ q.late = y.late /\ q.reopened = y.reopened
    <3>1. sock' = [sock EXCEPT ![s] = [y EXCEPT !.connected = FALSE, !.left = TRUE]]
      BY <1>1, <1>2, <1>6 DEF DisconnectBegins
    <3>2. PICK q : q = [y EXCEPT !.connected = FALSE, !.left = TRUE]
      OBVIOUS
    <3>3. /\ q \in Socks /\ ~q.connected /\ q.stream = 0 /\ q.left
          /\ q.connects = y.connects /\ q.late = y.late /\ q.reopened = y.reopened
      BY <1>6, <3>2 DEF Socks
    <3> QED
      BY <3>1, <3>2, <3>3
  <2>3. PICK o \in Ops : o = NoOp /\ o.kind = None /\ None # "disconnect" /\ op' = [op EXCEPT ![t] = o]
    BY <2>1, NoOpShape
  <2>4. \A u \in Threads : ~Disconnects(u)'
    BY <1>2, <1>5, <2>3 DEF Disconnects
  <2>5. TableHeld'
    BY <1>3, <2>1, <2>4 DEF TableHeld
  <2>6. ~Leaving(s)'
    BY <2>4 DEF Leaving
  <2> HIDE DEF Leaving
  <2> QED
    BY <1>1, <1>2, <1>3, <2>2, <2>3, <2>5, <2>6, DisconnectKeeps
<1>7. CASE y.stream # 0
  <2>1. PICK o \in Ops : /\ op' = [op EXCEPT ![t] = o] /\ o.kind = "disconnect" /\ o.sock = s
                         /\ o.stream = y.stream /\ o.at = "stream"
    <3>1. op' = [op EXCEPT ![t] = [op[t] EXCEPT !.at = "stream", !.stream = y.stream]]
      BY <1>1, <1>2, <1>7 DEF DisconnectBegins
    <3>2. PICK o : o = [op[t] EXCEPT !.at = "stream", !.stream = y.stream]
      OBVIOUS
    <3>3. o \in Ops /\ o.kind = "disconnect" /\ o.sock = s /\ o.stream = y.stream /\ o.at = "stream"
      BY <1>1, <1>2, <3>2 DEF Ops, Socks
    <3> QED
      BY <3>1, <3>2, <3>3
  <2>2. PICK q \in Socks : /\ sock' = [sock EXCEPT ![s] = q] /\ ~q.connected /\ q.stream = 0 /\ q.left = y.left
                           /\ q.connects = y.connects /\ q.late = 0 /\ ~q.reopened
    <3>1. sock' = [sock EXCEPT ![s] = [y EXCEPT !.connected = FALSE, !.stream = 0, !.reopened = FALSE, !.late = 0]]
      BY <1>1, <1>2, <1>7 DEF DisconnectBegins
    <3>2. PICK q : q = [y EXCEPT !.connected = FALSE, !.stream = 0, !.reopened = FALSE, !.late = 0]
      OBVIOUS
    <3>3. 0 \in 0 .. MaxConnects
      BY NetAssumption
    <3>4. /\ q \in Socks /\ ~q.connected /\ q.stream = 0 /\ q.left = y.left
          /\ q.connects = y.connects /\ q.late = 0 /\ ~q.reopened
      BY <3>2, <3>3 DEF Socks
    <3> QED
      BY <3>1, <3>2, <3>4
  <2>3. tableLock' = <<t>>
    BY <1>1, <1>2, <1>7 DEF DisconnectBegins
  <2>4. \A u \in Threads : Disconnects(u)' <=> u = t
    BY <1>2, <1>5, <2>1 DEF Disconnects
  <2>5. TableHeld'
    BY <2>3, <2>4 DEF TableHeld
  <2>6. o.stream \in Connections
    BY <1>7, <2>1, NetAssumption DEF Socks, Connections
  <2>7. sock[s].stream # 0
    BY <1>2, <1>7
  <2> HIDE DEF Leaving
  <2> QED
    BY <1>1, <1>2, <1>3, <2>1, <2>2, <2>5, <2>6, <2>7, DisconnectKeeps
<1> QED
  BY <1>6, <1>7

LEMMA DisconnectEndsKeeps ==
    ASSUME SocketInv, NEW t \in Threads, DisconnectEnds(t)
    PROVE  SocketInv'
<1>1. Disconnects(t) /\ op[t].kind = "disconnect"
  BY DEF DisconnectEnds, Disconnects
<1>2. PICK s \in Sockets : s = op[t].sock
  BY <1>1, NoOpShape DEF SocketInv, CallsPlaced
<1>3. PICK y \in Socks : y = sock[s] /\ sock \in [Sockets -> Socks] /\ op \in [Threads -> Ops]
  BY SocketFields, OpFields
<1>4. PICK q \in Socks : /\ sock' = [sock EXCEPT ![s] = q] /\ q.connected = y.connected /\ q.stream = y.stream
                         /\ q.connects = y.connects /\ q.left /\ q.late = y.late /\ q.reopened = y.reopened
  <2>1. sock' = [sock EXCEPT ![s] = [y EXCEPT !.left = TRUE]]
    BY <1>2, <1>3 DEF DisconnectEnds
  <2>2. PICK q : q = [y EXCEPT !.left = TRUE]
    OBVIOUS
  <2>3. q \in Socks /\ q.connected = y.connected /\ q.stream = y.stream
        /\ q.connects = y.connects /\ q.left /\ q.late = y.late /\ q.reopened = y.reopened
    BY <2>2 DEF Socks
  <2> QED
    BY <2>1, <2>2, <2>3
<1>5. PICK o \in Ops : o = NoOp /\ op' = [op EXCEPT ![t] = o] /\ ~(o.kind = "disconnect")
  BY NoOpShape DEF DisconnectEnds, Returned
<1>6. tableLock' = << >> /\ UNCHANGED conn
  BY DEF DisconnectEnds
<1>7. \A u \in Threads : Disconnects(u) => u = t
  BY <1>1 DEF SocketInv, TableHeld
<1>8. \A u \in Threads : ~Disconnects(u)'
  BY <1>3, <1>5, <1>7 DEF Disconnects
<1>9. TableHeld'
  BY <1>6, <1>8 DEF TableHeld
<1>10. Leaving(s)
  BY <1>1, <1>2 DEF Leaving
<1>11. sock[s].connects <= 1 => ~q.connected /\ ~q.reopened
  <2>1. ASSUME sock[s].connects <= 1 PROVE ~y.connected /\ ~y.reopened
    <3>1. OneReader(s)
      BY <2>1 DEF SocketInv
    <3> HIDE DEF Of, Leaving
    <3> QED
      BY <1>3, <1>10, <3>1 DEF OneReader, ShutFor
  <2> QED
    BY <1>4, <2>1
<1> HIDE DEF Leaving
<1> QED
  BY <1>1, <1>2, <1>3, <1>4, <1>5, <1>6, <1>9, <1>10, <1>11, DisconnectKeeps

LEMMA SocketKept == SocketInv /\ [SocketNext]_socketVars => SocketInv'
<1> SUFFICES ASSUME SocketInv, [SocketNext]_socketVars PROVE SocketInv'
  OBVIOUS
<1>1. DOMAIN conn = Connections
  BY SocketFields
<1>2. CASE \E s \in Sockets : WsInit(s) \/ Connect(s)
  BY <1>2, WsInitKeeps, ConnectKeeps
<1>3. CASE \E t \in Threads, s \in Sockets, kind \in {"send", "disconnect"} : Call(t, kind, s)
  BY <1>3, CallsKeep
<1>4. CASE \E t \in Threads : SendBegins(t) \/ SendEnds(t) \/ DisconnectBegins(t) \/ DisconnectEnds(t)
  BY <1>4, CallsKeep, DisconnectBeginsKeeps, DisconnectEndsKeeps
<1>5. CASE \E k \in DOMAIN conn :
               \/ Opened(k) \/ Refused(k) \/ CallbackEnds(k) \/ Checks(k) \/ Locks(k)
               \/ Reads(k) \/ ReadEnds(k) \/ ReaderExits(k)
  BY <1>1, <1>5, ReaderStepsKeep DEF ReaderSteps
<1>6. CASE UNCHANGED socketVars
  <2>1. UNCHANGED <<sock, conn, op, tableLock>>
    BY <1>6 DEF socketVars
  <2>2. SocketTypes' /\ StreamsOwned' /\ CallsPlaced' /\ TableHeld'
    BY <2>1 DEF SocketInv, SocketTypes, StreamsOwned, CallsPlaced, TableHeld, Disconnects
  <2>3. ASSUME NEW s \in Sockets, sock[s].connects <= 1 PROVE OneReader(s)'
    <3>1. OneReader(s)
      BY <2>3 DEF SocketInv
    <3>2. Of(s)' = Of(s) /\ (Leaving(s)' <=> Leaving(s))
      BY <2>1 DEF Of, Leaving, Disconnects
    <3> HIDE DEF Of, Leaving
    <3> QED
      BY <2>1, <3>1, <3>2 DEF OneReader, ShutFor
  <2> QED
    BY <2>1, <2>2, <2>3 DEF SocketInv
<1> QED
  BY <1>2, <1>3, <1>4, <1>5, <1>6 DEF SocketNext

-----------------------------------------------------------------------------
(* Requests and sockets.  What the invariant says.                           *)

\* A reader inside read() waits for nobody.
LEMMA ReadingWaitsForNone ==
    ASSUME SocketInv, NEW k \in Connections, conn[k].at = "reading"
    PROVE  HeldBy(k) = {}
<1>1. op[k] = NoOp
  BY DEF SocketInv, CallsPlaced
<1>2. k \notin GameThreads
  BY NetAssumption DEF Connections
<1> QED
  BY <1>1, <1>2, NoOpShape DEF HeldBy

\* Who waits for a stream waits for its reader, inside read().
LEMMA StreamsWaitForReaders ==
    ASSUME SocketInv, NEW k \in Connections
    PROVE  /\ ToSet(conn[k].owner) \subseteq {k}
           /\ \A u \in ToSet(conn[k].owner) : u = k /\ conn[k].at = "reading"
<1>1. CASE conn[k].at = "reading"
  <2>1. conn[k].owner = <<k>>
    BY <1>1 DEF SocketInv, StreamsOwned
  <2>2. ToSet(<<k>>) = {k}
    BY DEF ToSet
  <2> QED
    BY <1>1, <2>1, <2>2
<1>2. CASE conn[k].at # "reading"
  <2>1. conn[k].owner = << >>
    BY <1>2 DEF SocketInv, StreamsOwned
  <2>2. ToSet(<< >>) = {}
    BY DEF ToSet
  <2> QED
    BY <2>1, <2>2
<1> QED
  BY <1>1, <1>2

\* Who holds the table disconnects.
LEMMA TableWaitsForStreams ==
    ASSUME SocketInv, NEW u \in ToSet(tableLock)
    PROVE  u \in Threads /\ Disconnects(u)
<1>1. CASE tableLock = << >>
  <2>1. ToSet(<< >>) = {}
    BY DEF ToSet
  <2> QED
    BY <1>1, <2>1
<1>2. CASE \E t \in Threads : tableLock = <<t>> /\ \A v \in Threads : Disconnects(v) <=> v = t
  <2>1. PICK t \in Threads : tableLock = <<t>> /\ Disconnects(t)
    BY <1>2
  <2>2. ToSet(<<t>>) = {t}
    BY DEF ToSet
  <2> QED
    BY <2>1, <2>2
<1> QED
  BY <1>1, <1>2 DEF SocketInv, TableHeld

\* One who waits at a stream.
AtStream(u) == op[u].kind # None /\ op[u].at = "stream"
LEMMA WaitsAtStream ==
    ASSUME SocketInv, NEW u \in Threads, AtStream(u)
    PROVE  \A r \in HeldBy(u) : r \in Connections /\ conn[r].at = "reading" /\ HeldBy(r) = {} /\ ~AtStream(r)
<1>1. PICK k \in Connections : k = op[u].stream
  BY DEF AtStream, SocketInv, CallsPlaced
<1>2. HeldBy(u) = ToSet(conn[k].owner)
  BY <1>1 DEF HeldBy, AtStream
<1>3. ASSUME NEW r \in HeldBy(u)
      PROVE  r \in Connections /\ conn[r].at = "reading" /\ HeldBy(r) = {} /\ ~AtStream(r)
  <2>1. r = k /\ conn[k].at = "reading"
    BY <1>2, <1>3, StreamsWaitForReaders
  <2>2. op[k].kind = None
    BY <2>1, NoOpShape DEF SocketInv, CallsPlaced
  <2> QED
    BY <2>1, <2>2, ReadingWaitsForNone DEF AtStream
<1> QED
  BY <1>3

\* All that one waits for.
LEMMA WaitsFor ==
    ASSUME SocketInv, NEW t \in Threads, NEW u \in HeldBy(t)
    PROVE  \/ u \in Connections /\ conn[u].at = "reading" /\ HeldBy(u) = {}
           \/ ~AtStream(t) /\ u \in Threads /\ AtStream(u)
<1>1. CASE AtStream(t)
  BY <1>1, WaitsAtStream
<1>2. CASE ~AtStream(t) /\ u \in ToSet(tableLock)
  <2>1. u \in Threads /\ Disconnects(u)
    BY <1>2, TableWaitsForStreams
  <2> QED
    BY <1>2, <2>1, NoOpShape DEF AtStream, Disconnects
<1>3. CASE ~AtStream(t) /\ u \notin ToSet(tableLock)
  <2>1. op[t].kind = None /\ t \notin GameThreads /\ conn[t].at = "lock" /\ u \in ToSet(conn[t].owner)
    BY <1>3 DEF HeldBy, AtStream
  <2>2. t \in Connections
    BY <2>1 DEF Threads, Connections
  <2> QED
    BY <2>1, <2>2, StreamsWaitForReaders
<1> QED
  BY <1>1, <1>2, <1>3

LEMMA PeersAwaited == SocketInv => OnlyPeersAwaited
<1> SUFFICES ASSUME SocketInv, NEW t \in Threads
             PROVE  LET second == UNION {HeldBy(u) : u \in HeldBy(t)}
                        third == UNION {HeldBy(u) : u \in second}
                    IN /\ t \notin HeldBy(t) \cup second \cup third
                       /\ third = {}
                       /\ \A u \in HeldBy(t) : HeldBy(u) = {} =>
                             op[u].at = "stream" \/ (u \notin GameThreads /\ conn[u].at = "reading")
  BY DEF OnlyPeersAwaited
<1> DEFINE second == UNION {HeldBy(u) : u \in HeldBy(t)}
           third == UNION {HeldBy(u) : u \in second}
<1>1. ASSUME NEW r \in second
      PROVE  r \in Connections /\ conn[r].at = "reading" /\ HeldBy(r) = {} /\ ~AtStream(t)
  <2>1. PICK u \in HeldBy(t) : r \in HeldBy(u)
    OBVIOUS
  <2>2. u \in Threads /\ AtStream(u) /\ ~AtStream(t)
    BY <2>1, WaitsFor
  <2> QED
    BY <2>1, <2>2, WaitsAtStream
<1>2. third = {}
  BY <1>1
<1>3. t \notin HeldBy(t)
  <2>1. ASSUME t \in HeldBy(t) PROVE FALSE
    <3>1. (t \in Connections /\ conn[t].at = "reading" /\ HeldBy(t) = {}) \/ (~AtStream(t) /\ AtStream(t))
      BY <2>1, WaitsFor
    <3> QED
      BY <2>1, <3>1
  <2> QED
    BY <2>1
<1>4. t \notin second
  <2>1. ASSUME t \in second PROVE FALSE
    <3>1. HeldBy(t) = {}
      BY <1>1, <2>1
    <3>2. second = {}
      BY <3>1
    <3> QED
      BY <2>1, <3>2
  <2> QED
    BY <2>1
<1>5. ASSUME NEW u \in HeldBy(t), HeldBy(u) = {}
      PROVE  op[u].at = "stream" \/ (u \notin GameThreads /\ conn[u].at = "reading")
  <2>1. u \in Connections => u \notin GameThreads
    BY NetAssumption DEF Connections
  <2> QED
    BY <2>1, WaitsFor DEF AtStream
<1> HIDE DEF second, third
<1>6. /\ t \notin HeldBy(t) \cup second \cup third
      /\ third = {}
      /\ \A u \in HeldBy(t) : HeldBy(u) = {} =>
            op[u].at = "stream" \/ (u \notin GameThreads /\ conn[u].at = "reading")
  BY <1>2, <1>3, <1>4, <1>5
<1> QED
  BY <1>6 DEF second, third

LEMMA SocketsDoAgree == SocketInv => SocketsAgree
<1> SUFFICES ASSUME SocketInv, NEW s \in Sockets, sock[s].connects = 1
             PROVE  /\ sock[s].late <= 1 \/ sock[s].reopened
                    /\ sock[s].connected => \E k \in DOMAIN conn :
                          conn[k].sock = s /\ conn[k].at \in {"callback", "check", "lock", "reading", "exit"}
  BY DEF SocketsAgree
<1>1. OneReader(s) /\ sock[s].late \in Nat
  BY SocketFields DEF SocketInv, Socks
<1>2. sock[s].late <= 1 \/ sock[s].reopened
  BY <1>1 DEF OneReader, ShutFor
<1>3. ASSUME sock[s].connected
      PROVE  \E k \in DOMAIN conn :
                 conn[k].sock = s /\ conn[k].at \in {"callback", "check", "lock", "reading", "exit"}
  <2>1. PICK k \in Of(s) : conn[k].at # "done"
    BY <1>1, <1>3 DEF OneReader, ShutFor
  <2>2. k \in Connections /\ conn[k].sock = s /\ s # None
    BY NetAssumption DEF Of, None
  <2>3. conn[k].at # "connecting"
    BY <1>3, <2>2, OnlyReader
  <2>4. conn[k].at \in {"callback", "check", "lock", "reading", "exit"} /\ k \in DOMAIN conn
    BY <2>1, <2>2, <2>3, SocketFields
  <2> QED
    BY <2>2, <2>4
<1> QED
  BY <1>2, <1>3

-----------------------------------------------------------------------------
(* Requests and sockets.  The theorem.                                       *)

LEMMA NetStarts == NetInit => NetInv
<1> SUFFICES ASSUME NetInit PROVE NetInv
  OBVIOUS
<1>1. HttpInv
  <2>1. states = << >> /\ workers = << >> /\ table = [a \in Requests |-> 0]
        /\ call = [c \in Calls |-> [body |-> None, lost |-> FALSE, completed |-> 0, failed |-> 0]]
    BY DEF NetInit, NoRequest
  <2>2. Len(states) = 0 /\ Len(workers) = 0 /\ states \in Seq(RequestStates) /\ workers \in Seq(Workers)
    BY <2>1
  <2>3. HttpTypes
    BY <2>1, <2>2 DEF HttpTypes, HttpCalls
  <2>4. CallsApart /\ WorkersSure
    BY <2>2 DEF CallsApart, WorkersSure
  <2>5. CallsTold
    BY <2>1, <2>2 DEF CallsTold, IsTold
  <2> QED
    BY <2>3, <2>4, <2>5 DEF HttpInv
<1>2. SocketInv
  <2>1. /\ sock = [s \in Sockets |-> NoSock] /\ conn = [k \in Connections |-> NoConn]
        /\ op = [t \in Threads |-> NoOp] /\ tableLock = << >>
    BY DEF NetInit, Connections
  <2>2. NoSock \in Socks /\ NoConn \in Conns
    BY NetAssumption DEF NoSock, NoConn, Socks, Conns
  <2>3. SocketTypes
    <3>1. sock \in [Sockets -> Socks] /\ conn \in [Connections -> Conns] /\ op \in [Threads -> Ops]
      BY <2>1, <2>2, NoOpShape
    <3> QED
      BY <3>1 DEF SocketTypes, Socks, Conns, Ops
  <2>4. StreamsOwned
    BY <2>1 DEF StreamsOwned, NoConn
  <2>5. Connections \subseteq Threads
    BY DEF Connections, Threads
  <2>6. CallsPlaced
    BY <2>1, <2>5, NoOpShape DEF CallsPlaced
  <2>7. \A t \in Threads : ~Disconnects(t)
    BY <2>1, NoOpShape DEF Disconnects
  <2>8. TableHeld
    BY <2>1, <2>7 DEF TableHeld
  <2>9. ASSUME NEW s \in Sockets PROVE OneReader(s)
    <3>1. Of(s) = {}
      BY <2>1, NetAssumption DEF Of, NoConn, None
    <3>2. ~Leaving(s)
      BY <2>7 DEF Leaving
    <3>3. sock[s].stream = 0 /\ ~sock[s].connected /\ ~sock[s].reopened /\ sock[s].late = 0
      BY <2>1 DEF NoSock
    <3> HIDE DEF Of, Leaving
    <3> QED
      BY <3>1, <3>2, <3>3 DEF OneReader
  <2> QED
    BY <2>3, <2>4, <2>6, <2>8, <2>9 DEF SocketInv
<1> QED
  BY <1>1, <1>2 DEF NetInv, NetInit

LEMMA NetKept == NetInv /\ [NetNext]_netVars => NetInv'
<1> SUFFICES ASSUME NetInv, [NetNext]_netVars PROVE NetInv'
  OBVIOUS
<1>1. (HttpNext \/ UNCHANGED httpVars) => HttpInv'
  <2>1. HttpNext => HttpInv'
    BY HttpKept DEF NetInv
  <2>2. ASSUME UNCHANGED httpVars PROVE HttpInv'
    <3>1. UNCHANGED <<table, states, call, workers>> /\ HttpInv
      BY <2>2 DEF httpVars, NetInv
    <3> QED
      BY <3>1 DEF HttpInv, HttpTypes, CallsApart, WorkersSure, CallsTold
  <2> QED
    BY <2>1, <2>2
<1>2. (SocketNext \/ UNCHANGED socketVars) => SocketInv'
  BY SocketKept DEF NetInv
<1>3. CASE part = "none" /\ part' \in {"http", "sockets"} /\ UNCHANGED <<httpVars, socketVars>>
  BY <1>1, <1>2, <1>3 DEF NetInv
<1>4. CASE part = "http" /\ HttpNext /\ UNCHANGED <<part, socketVars>>
  BY <1>1, <1>2, <1>4 DEF NetInv
<1>5. CASE part = "sockets" /\ SocketNext /\ UNCHANGED <<part, httpVars>>
  BY <1>1, <1>2, <1>5 DEF NetInv
<1>6. CASE UNCHANGED netVars
  BY <1>1, <1>2, <1>6 DEF NetInv, netVars
<1> QED
  BY <1>3, <1>4, <1>5, <1>6 DEF NetNext

\* Each call of the game is answered once and with its own answer; nobody
\* waits but, in the end, for a peer; and what a web socket's state says of
\* its reader stays true (http_client.rs, websocket.rs), for any number of
\* objects, calls and connections.
THEOREM NetStaysSound == NetSpec => []NetSound
<1>1. NetInv => NetSound
  BY HttpAnswers, PeersAwaited, SocketsDoAgree DEF NetInv, NetSound
<1> QED
  BY <1>1, NetStarts, NetKept, PTL DEF NetSpec

-----------------------------------------------------------------------------
(* The start.  The inductive invariant.                                      *)

Support == [made : BOOLEAN, shared : BOOLEAN, known : BOOLEAN, activity : BOOLEAN, window : {"null", "token"},
            looper : BOOLEAN, text : BOOLEAN, exit : BOOLEAN]

LoadStages == {"preinit", "runtime", "fmod", "integrity", "load"}
GameStages == {"mods", "jni", "natives", "main"}

\* What main() has put in place: the game is not loaded before the libraries
\* it is bound to, and never in a smoke test.
LibsInPlace ==
    /\ stage \in {"arguments", "paths", "core", "hooks", "window", "held", "exited"} \cup LoadStages \cup GameStages
    /\ DOMAIN libs = Libraries
    /\ stage \in {"hooks", "window"} /\ ~run.smoke =>
          \A l \in {"c", "m", "z", "mod", "stdc++", "GLES", "gamewindow", "log"} : libs[l] # "absent"
    /\ stage = "window" => \A l \in {"gamewindow", "android"} : libs[l] = "full"
    /\ stage \in LoadStages \cup GameStages =>
          /\ \A l \in BoundNow : libs[l] # "absent"
          /\ \A l \in {"GLES", "EGL", "gamewindow", "android"} : libs[l] = "full"
    /\ stage \notin GameStages => libs["game"] # "full"

\* The helper and the game's thread come after the JniSupport is known.
ThreadsPlace ==
    /\ jni \in Support
    /\ helper \in {"none", "activity", "attach", "create", "waits", "start", "window", "network", "text", "done"}
    /\ gameThread \in {"none", "captured", "entered", "prepared", "running"}
    /\ stage # "main" => helper = "none"
    /\ helper \in {"none", "activity", "attach", "create"} => gameThread = "none"
    /\ stage \in {"natives", "main"} => jni.known
    /\ ~jni.shared
    /\ jni.text => helper = "done"
    /\ gameThread \in {"prepared", "running"} => jni.window = "token"
    /\ helper \in {"start", "window", "network", "text", "done"} =>
          given = "token" /\ gameThread = "running"

\* How far the helper is says what the game has received.
LifeInOrder ==
    /\ helper \in {"none", "activity", "attach"} => DOMAIN life = {}
    /\ helper \notin {"none", "activity", "attach"} => {"constructors", "OnLoad"} \subseteq DOMAIN life
    /\ helper = "create" => DOMAIN life \subseteq {"constructors", "fmodOnLoad", "OnLoad"}
    /\ helper \notin {"none", "activity", "attach", "create"} => "create" \in DOMAIN life
    /\ helper \in {"window", "network", "text", "done"} => "start" \in DOMAIN life
    /\ helper \in {"network", "text", "done"} => "window" \in DOMAIN life
    /\ helper \notin {"done"} => "nativeSetTextboxText" \notin DOMAIN life
    /\ \A d \in DOMAIN life \ {"constructors", "fmodOnLoad", "OnLoad", "create"} :
          {"constructors", "OnLoad", "create"} \subseteq life[d]
    /\ Precedes("window", "nativeSetTextboxText") /\ Precedes("start", "window")

StartInv ==
    /\ LibsInPlace /\ ThreadsPlace /\ LifeInOrder
    /\ \A x \in DOMAIN slots : slots[x] = relocated[x]

-----------------------------------------------------------------------------
(* The start.  What the game receives.                                       *)

LEMMA Received ==
    ASSUME NEW calls, Receives(calls)
    PROVE  /\ DOMAIN life' = DOMAIN life \cup Range(calls)
           /\ \A c \in DOMAIN life : life'[c] = life[c]
           /\ \A c \in Range(calls) : c \notin DOMAIN life => DOMAIN life \subseteq life'[c]
BY DEF Receives, Before

LEMMA RangeOfOne == \A c : Range(<<c>>) = {c}
<1> SUFFICES ASSUME NEW c PROVE Range(<<c>>) = {c}
  OBVIOUS
<1>1. DOMAIN <<c>> = {1} /\ <<c>>[1] = c
  OBVIOUS
<1> QED
  BY <1>1 DEF Range

\* Once onCreate was called another call keeps the order, if what it needs was
\* received.
LEMMA OrderKept ==
    ASSUME LifeInOrder, NEW c, Receives(<<c>>),
           helper \notin {"none", "activity", "attach", "create"},
           helper' \notin {"none", "activity", "attach", "create"},
           helper = "done" => helper' = "done",
           c = "nativeSetTextboxText" => helper = "done",
           c = "window" => helper \in {"window", "network", "text", "done"},
           helper' \in {"window", "network", "text", "done"} =>
               c = "start" \/ helper \in {"window", "network", "text", "done"},
           helper' \in {"network", "text", "done"} =>
               c = "window" \/ helper \in {"network", "text", "done"}
    PROVE  LifeInOrder'
<1>1. /\ DOMAIN life' = DOMAIN life \cup {c}
      /\ \A b \in DOMAIN life : life'[b] = life[b]
      /\ c \notin DOMAIN life => DOMAIN life \subseteq life'[c]
  BY Received, RangeOfOne
<1>2. {"constructors", "OnLoad", "create"} \subseteq DOMAIN life
  BY DEF LifeInOrder
<1>3. \A d \in DOMAIN life' \ {"constructors", "fmodOnLoad", "OnLoad", "create"} :
          {"constructors", "OnLoad", "create"} \subseteq life'[d]
  <2> SUFFICES ASSUME NEW d \in DOMAIN life' \ {"constructors", "fmodOnLoad", "OnLoad", "create"}
               PROVE  {"constructors", "OnLoad", "create"} \subseteq life'[d]
    OBVIOUS
  <2>1. CASE d \in DOMAIN life
    <3>1. {"constructors", "OnLoad", "create"} \subseteq life[d]
      BY <2>1 DEF LifeInOrder
    <3> QED
      BY <1>1, <2>1, <3>1
  <2>2. CASE d \notin DOMAIN life
    <3>1. DOMAIN life \subseteq life'[d]
      BY <1>1, <2>2
    <3> QED
      BY <1>2, <3>1
  <2> QED
    BY <2>1, <2>2
<1>4. "window" \in DOMAIN life' => "start" \in life'["window"]
  <2>1. CASE "window" \in DOMAIN life
    BY <1>1, <2>1 DEF LifeInOrder, Precedes
  <2>2. CASE "window" \notin DOMAIN life
    <3>1. c = "window" => "start" \in DOMAIN life
      BY DEF LifeInOrder
    <3> QED
      BY <1>1, <2>2, <3>1
  <2> QED
    BY <2>1, <2>2
<1>5. "nativeSetTextboxText" \in DOMAIN life' => "window" \in life'["nativeSetTextboxText"]
  <2>1. CASE "nativeSetTextboxText" \in DOMAIN life
    BY <1>1, <2>1 DEF LifeInOrder, Precedes
  <2>2. CASE "nativeSetTextboxText" \notin DOMAIN life
    <3>1. c = "nativeSetTextboxText" => "window" \in DOMAIN life
      BY DEF LifeInOrder
    <3> QED
      BY <1>1, <2>2, <3>1
  <2> QED
    BY <2>1, <2>2
<1>6. helper' # "done" => "nativeSetTextboxText" \notin DOMAIN life'
  BY <1>1 DEF LifeInOrder
<1>7. /\ helper' \in {"window", "network", "text", "done"} => "start" \in DOMAIN life'
      /\ helper' \in {"network", "text", "done"} => "window" \in DOMAIN life'
  BY <1>1 DEF LifeInOrder
<1> QED
  BY <1>1, <1>2, <1>3, <1>4, <1>5, <1>6, <1>7 DEF LifeInOrder, Precedes

\* A call of the game's thread.
LEMMA GameReceives ==
    ASSUME StartInv, Looping, NEW c, c # "window", c = "nativeSetTextboxText" => jni.text,
           Receives(<<c>>) \/ life' = life
    PROVE  StartInv'
<1>1. /\ UNCHANGED <<stage, run, moved, libs, preinit, relocated, slots, natives, helper, given, jni, gameThread>>
      /\ gameThread = "running"
  BY DEF Looping, MainUnchanged, loadVars
<1>2. LifeInOrder'
  <2>1. CASE life' = life
    BY <1>1, <2>1 DEF StartInv, LifeInOrder, Precedes
  <2>2. CASE Receives(<<c>>)
    <3>1. helper \notin {"none", "activity", "attach", "create"}
      BY <1>1 DEF StartInv, ThreadsPlace
    <3>2. c = "nativeSetTextboxText" => helper = "done"
      BY DEF StartInv, ThreadsPlace
    <3> QED
      BY <1>1, <2>2, <3>1, <3>2, OrderKept DEF StartInv
  <2> QED
    BY <2>1, <2>2
<1> QED
  BY <1>1, <1>2 DEF StartInv, LibsInPlace, ThreadsPlace

-----------------------------------------------------------------------------
(* The start.  The steps.                                                    *)

\* Until the helper starts the game has received nothing.
LEMMA MainKeeps ==
    ASSUME StartInv, MainStep
    PROVE  StartInv'
<1>1. CASE RegisterNatives
  <2>1. LibsInPlace' /\ LifeInOrder'
    BY <1>1 DEF RegisterNatives, StartInv, LibsInPlace, LoadStages, GameStages, LifeInOrder, ThreadsPlace, Precedes
  <2> QED
    BY <1>1, <2>1 DEF RegisterNatives, StartInv, ThreadsPlace
<1>2. CASE JniSupportNew
  <2>1. LibsInPlace' /\ LifeInOrder'
    BY <1>2 DEF JniSupportNew, loadVars, StartInv, LibsInPlace, LoadStages, GameStages, LifeInOrder, ThreadsPlace, Precedes
  <2>2. helper = "none" /\ gameThread = "none"
    BY <1>2 DEF JniSupportNew, StartInv, ThreadsPlace
  <2>3. jni'.known /\ ~jni'.shared /\ ~jni'.text /\ jni' \in Support
    BY <1>2 DEF JniSupportNew, NewSupport, NoSupport, Support
  <2> QED
    BY <1>2, <2>1, <2>2, <2>3 DEF JniSupportNew, loadVars, StartInv, ThreadsPlace
<1>3. CASE ~RegisterNatives /\ ~JniSupportNew
  <2>1. /\ stage \in {"arguments", "paths", "core", "hooks", "window", "held", "mods"} \cup LoadStages
        /\ stage' \notin {"natives", "main"}
        /\ UNCHANGED <<jni, helper, given, gameThread, life>>
    BY <1>3 DEF MainStep, ParseArguments, SetupPaths, LoadCoreLibraries, SetupAndroidHooks, CreateWindow,
                SmokeEnds, PreinitHook, ModsPreinitialised, LoadRuntime, LoadFmod, LoadIntegrity, LoadGame,
                ModsInitialised, LoadStages, hostVars
  <2>2. helper = "none" /\ helper' = "none"
    BY <2>1 DEF StartInv, ThreadsPlace, LoadStages
  <2>3. ThreadsPlace' /\ LifeInOrder'
    BY <2>1, <2>2 DEF StartInv, ThreadsPlace, LifeInOrder, Precedes
  <2>4. \A x \in DOMAIN slots' : slots'[x] = relocated'[x]
    <3>1. CASE LoadGame /\ ~UNCHANGED <<relocated, slots>>
      <4>1. PICK list : /\ relocated' = [x \in {list[i][1] : i \in DOMAIN list} |-> LastOf(list, x)]
                        /\ slots' = FinalizeLoad(list)
        BY <3>1 DEF LoadGame
      <4>2. \A x \in DOMAIN slots' : (\E i \in DOMAIN list : list[i][1] = x) /\ slots'[x] = LastOf(list, x)
        BY <4>1 DEF FinalizeLoad, Original
      <4> QED
        BY <4>1, <4>2
    <3>2. CASE UNCHANGED <<relocated, slots>>
      BY <3>2 DEF StartInv
    <3>3. UNCHANGED <<relocated, slots>> \/ LoadGame
      BY <1>3 DEF MainStep, ParseArguments, SetupPaths, LoadCoreLibraries, SetupAndroidHooks, CreateWindow,
                SmokeEnds, PreinitHook, ModsPreinitialised, LoadRuntime, LoadFmod, LoadIntegrity,
                ModsInitialised, loadVars
    <3> QED
      BY <3>1, <3>2, <3>3
  <2>5. LibsInPlace'
    <3> USE DEF StartInv, LibsInPlace, LoadStages, GameStages
    <3>1. CASE \/ \E r \in Runs : ParseArguments(r)
               \/ \E ok \in BOOLEAN : SetupPaths(ok)
      BY <3>1 DEF ParseArguments, SetupPaths
    <3>2. CASE LoadCoreLibraries
      <4> DEFINE kinds == [l \in {"c", "mod", "log", "GLES", "stdc++", "gamewindow"}
                                 \cup IF run.smoke THEN {} ELSE {"m", "z"} |->
                         IF l = "GLES" THEN "dead" ELSE IF l \in {"stdc++", "gamewindow"} THEN "empty" ELSE "full"]
      <4>1. /\ ~run.smoke => \A l \in {"c", "m", "z", "mod", "stdc++", "GLES", "gamewindow", "log"} :
                                 l \in DOMAIN kinds /\ kinds[l] # "absent"
            /\ "game" \notin DOMAIN kinds
        OBVIOUS
      <4>2. libs' = Register(kinds) /\ UNCHANGED run /\ stage' = "hooks" /\ stage = "core"
        BY <3>2 DEF LoadCoreLibraries
      <4> HIDE DEF kinds
      <4>3. \A l \in Libraries : libs'[l] = IF l \in DOMAIN kinds /\ libs[l] = "absent" THEN kinds[l] ELSE libs[l]
        BY <4>2 DEF Register
      <4>4. DOMAIN libs' = Libraries
        BY <4>2 DEF Register
      <4> QED
        BY <4>1, <4>2, <4>3, <4>4 DEF Libraries
    <3>3. CASE SetupAndroidHooks
      BY <3>3 DEF SetupAndroidHooks, Bind, Libraries
    <3>4. CASE CreateWindow
      BY <3>4 DEF CreateWindow, Bind, Libraries, BoundNow
    <3>5. CASE SmokeEnds \/ ModsPreinitialised \/ ModsInitialised
      BY <3>5 DEF SmokeEnds, ModsPreinitialised, ModsInitialised, loadVars
    <3>6. CASE \E name \in HookNames, mod \in PreinitMods, slotted \in BOOLEAN : PreinitHook(name, mod, slotted)
      BY <3>6 DEF PreinitHook
    <3>7. CASE LoadRuntime
      BY <3>7 DEF LoadRuntime, Bind, Libraries, BoundNow
    <3>8. CASE LoadFmod
      BY <3>8 DEF LoadFmod, Bind, Libraries, BoundNow
    <3>9. CASE LoadIntegrity
      BY <3>9 DEF LoadIntegrity, Bind, Libraries, BoundNow
    <3>10. CASE LoadGame
      BY <3>10 DEF LoadGame, Bind, Libraries, BoundNow
    <3> QED
      BY <1>3, <3>1, <3>2, <3>3, <3>4, <3>5, <3>6, <3>7, <3>8, <3>9, <3>10 DEF MainStep
  <2> QED
    BY <2>3, <2>4, <2>5 DEF StartInv
<1> QED
  BY <1>1, <1>2, <1>3

LEMMA HelperKeeps ==
    ASSUME StartInv, HelperStep
    PROVE  StartInv'
<1>1. UNCHANGED <<stage, run, moved, libs, preinit, relocated, slots, natives>> /\ stage = "main"
  <2>1. helper # "none" /\ UNCHANGED <<stage, loadVars>>
    BY DEF HelperStep, HelperGoes, StartGame, AttachLibraries, GameOnCreate, GameCreated, OnStart,
           OnNativeWindowCreated, UpdateNetworkStatus, InstallTextHandler
  <2> QED
    BY <2>1 DEF loadVars, StartInv, ThreadsPlace
<1>2. LibsInPlace' /\ \A x \in DOMAIN slots' : slots'[x] = relocated'[x]
  BY <1>1 DEF StartInv, LibsInPlace
<1>3. ThreadsPlace'
  <2>1. CASE StartGame
    <3>1. jni' \in Support /\ jni'.known = jni.known /\ jni'.shared = jni.shared /\ jni'.text = jni.text
      BY <2>1 DEF StartGame, StartInv, ThreadsPlace, Support
    <3> QED
      BY <1>1, <2>1, <3>1 DEF StartGame, HelperGoes, StartInv, ThreadsPlace
  <2>2. CASE InstallTextHandler
    <3>1. jni' \in Support /\ jni'.known = jni.known /\ jni'.shared = jni.shared /\ jni'.window = jni.window
      BY <2>2 DEF InstallTextHandler, StartInv, ThreadsPlace, Support
    <3> QED
      BY <1>1, <2>2, <3>1 DEF InstallTextHandler, HelperGoes, StartInv, ThreadsPlace
  <2>3. CASE AttachLibraries \/ GameOnCreate \/ GameCreated \/ OnStart \/ OnNativeWindowCreated \/ UpdateNetworkStatus
    BY <1>1, <2>3 DEF StartInv, ThreadsPlace, HelperGoes, AttachLibraries, GameOnCreate, GameCreated,
              OnStart, OnNativeWindowCreated, UpdateNetworkStatus
  <2> QED
    BY <2>1, <2>2, <2>3 DEF HelperStep
<1>4. LifeInOrder'
  <2>1. CASE StartGame \/ GameCreated
    BY <2>1 DEF StartGame, GameCreated, HelperGoes, StartInv, LifeInOrder, Precedes
  <2>2. CASE AttachLibraries
    <3>1. PICK calls : /\ calls = IF libs["fmod"] = "full" THEN <<"constructors", "fmodOnLoad", "OnLoad">>
                                  ELSE <<"constructors", "OnLoad">>
                       /\ Receives(calls)
      BY <2>2 DEF AttachLibraries
    <3>2. Range(calls) \subseteq {"constructors", "fmodOnLoad", "OnLoad"} /\ {"constructors", "OnLoad"} \subseteq Range(calls)
      <4>1. CASE libs["fmod"] = "full"
        <5>1. calls = <<"constructors", "fmodOnLoad", "OnLoad">>
          BY <3>1, <4>1
        <5>2. calls[1] = "constructors" /\ calls[2] = "fmodOnLoad" /\ calls[3] = "OnLoad"
          BY <5>1
        <5>3. Len(calls) = 3 /\ calls \in Seq({"constructors", "fmodOnLoad", "OnLoad"})
          BY <5>1
        <5>4. DOMAIN calls = {1, 2, 3}
          BY <5>3, LenProperties
        <5> QED
          BY <5>2, <5>4 DEF Range
      <4>2. CASE libs["fmod"] # "full"
        <5>1. calls = <<"constructors", "OnLoad">>
          BY <3>1, <4>2
        <5>2. DOMAIN calls = {1, 2} /\ calls[1] = "constructors" /\ calls[2] = "OnLoad"
          BY <5>1
        <5> QED
          BY <5>2 DEF Range
      <4> QED
        BY <4>1, <4>2
    <3>3. DOMAIN life = {} /\ DOMAIN life' = DOMAIN life \cup Range(calls) /\ helper' = "create"
      BY <2>2, <3>1, Received DEF AttachLibraries, HelperGoes, StartInv, LifeInOrder
    <3> QED
      BY <3>2, <3>3 DEF LifeInOrder, Precedes
  <2>3. CASE GameOnCreate
    <3>1. Receives(<<"create">>) /\ helper = "create" /\ helper' = "waits"
      BY <2>3 DEF GameOnCreate, HelperGoes
    <3>2. DOMAIN life' = DOMAIN life \cup {"create"}
      BY <3>1, Received, RangeOfOne
    <3> QED
      BY <3>1, <3>2 DEF StartInv, LifeInOrder, Precedes
  <2>4. CASE OnStart
    <3>1. Receives(<<"start">>) /\ helper = "start" /\ helper' = "window" /\ LifeInOrder
      BY <2>4 DEF OnStart, HelperGoes, StartInv
    <3> QED
      BY <3>1, OrderKept
  <2>5. CASE OnNativeWindowCreated
    <3>1. Receives(<<"window">>) /\ helper = "window" /\ helper' = "network" /\ LifeInOrder
      BY <2>5 DEF OnNativeWindowCreated, HelperGoes, StartInv
    <3> QED
      BY <3>1, OrderKept
  <2>6. CASE UpdateNetworkStatus
    <3>1. (Receives(<<"nativeUpdateNetworkStatus">>) \/ life' = life) /\ helper = "network" /\ helper' = "text" /\ LifeInOrder
      BY <2>6 DEF UpdateNetworkStatus, CallsNative, HelperGoes, StartInv
    <3>2. CASE life' = life
      BY <3>1, <3>2 DEF LifeInOrder, Precedes
    <3>3. CASE Receives(<<"nativeUpdateNetworkStatus">>)
      BY <3>1, <3>3, OrderKept
    <3> QED
      BY <3>1, <3>2, <3>3
  <2>7. CASE InstallTextHandler
    BY <2>7 DEF InstallTextHandler, HelperGoes, StartInv, LifeInOrder, Precedes
  <2> QED
    BY <2>1, <2>2, <2>3, <2>4, <2>5, <2>6, <2>7 DEF HelperStep
<1> QED
  BY <1>2, <1>3, <1>4 DEF StartInv

LEMMA GameKeeps ==
    ASSUME StartInv, GameStep
    PROVE  StartInv'
<1>1. CASE ExecuteMainThread \/ PrepareGame \/ GlueRunning \/ GameFinish
  <2>1. UNCHANGED <<stage, run, moved, libs, preinit, relocated, slots, natives, helper, given, life>>
    BY <1>1 DEF ExecuteMainThread, PrepareGame, GlueRunning, GameFinish, MainUnchanged, loadVars
  <2>2. ThreadsPlace'
    <3>1. /\ jni'.known = jni.known /\ jni'.shared = jni.shared /\ jni'.text = jni.text
          /\ jni'.window = jni.window \/ (PrepareGame /\ jni'.window = "token")
          /\ jni' \in Support
      <4>1. jni \in Support
        BY DEF StartInv, ThreadsPlace
      <4> QED
        BY <1>1, <4>1 DEF ExecuteMainThread, PrepareGame, GlueRunning, GameFinish, Told, Support
    <3>2. PrepareGame => jni'.window = "token"
      <4>1. gameThread = "entered" => jni.known
        BY DEF StartInv, ThreadsPlace
      <4> QED
        BY <4>1 DEF PrepareGame, Told, StartInv, ThreadsPlace, Support
    <3> QED
      BY <1>1, <2>1, <3>1, <3>2 DEF StartInv, ThreadsPlace, ExecuteMainThread, PrepareGame, GlueRunning, GameFinish
  <2> QED
    BY <2>1, <2>2 DEF StartInv, LibsInPlace, LifeInOrder, Precedes
<1>2. CASE SendMotionEvent
  BY <1>2, GameReceives DEF SendMotionEvent
<1>3. CASE ~(ExecuteMainThread \/ PrepareGame \/ GlueRunning \/ GameFinish) /\ ~SendMotionEvent
  <2>1. PICK n : Looping /\ CallsNative(n) /\ n # "window" /\ (n = "nativeSetTextboxText" => jni.text)
    BY <1>3 DEF GameStep, WindowResized, SetTextboxText, CaretPosition, ReturnKey, ControllerConnected, ImportFile
  <2> QED
    BY <2>1, GameReceives DEF CallsNative
<1> QED
  BY <1>1, <1>2, <1>3

LEMMA StopKeeps ==
    ASSUME StartInv, StopGame
    PROVE  StartInv'
<1>1. UNCHANGED <<stage, run, moved, libs, preinit, relocated, slots, natives, helper, given, life, jni, gameThread>>
  BY DEF StopGame, MainUnchanged, loadVars, StartInv, ThreadsPlace
<1> QED
  BY <1>1 DEF StartInv, LibsInPlace, ThreadsPlace, LifeInOrder, Precedes

\* The launch is in order for every command line, every set of missing files
\* and of hooks, and however the launcher's thread, the helper and the game's
\* thread interleave (main.rs, startup.rs, jni_support.rs).
THEOREM StartStaysSound == StartSpec => []StartSound
<1>1. StartInit => StartInv
  BY DEF StartInit, StartInv, LibsInPlace, ThreadsPlace, LifeInOrder, Precedes, NoSupport, Support, LoadStages, GameStages, Libraries
<1>2. StartInv /\ [StartNext]_startVars => StartInv'
  <2>1. StartInv /\ UNCHANGED startVars => StartInv'
    BY DEF startVars, StartInv, LibsInPlace, ThreadsPlace, LifeInOrder, Precedes
  <2> QED
    BY <2>1, MainKeeps, HelperKeeps, GameKeeps, StopKeeps DEF StartNext
<1>3. StartInv => StartSound
  <2> SUFFICES ASSUME StartInv PROVE StartSound
    OBVIOUS
  <2>1. libs["game"] = "full" => /\ \A l \in BoundNow : libs[l] # "absent"
                                 /\ \A l \in {"GLES", "EGL", "gamewindow", "android"} : libs[l] = "full"
    BY DEF StartInv, LibsInPlace
  <2>2. helper \in {"start", "window", "network", "text", "done"} => given = "token"
    BY DEF StartInv, ThreadsPlace
  <2> QED
    BY <2>1, <2>2 DEF StartInv, LifeInOrder, StartSound, Precedes
<1> QED
  BY <1>1, <1>2, <1>3, PTL DEF StartSpec

-----------------------------------------------------------------------------
(* The overlay.  What a replay of key events leaves held.                    *)

\* What ImGui has names for: the keys and the modifier of two of them.
ImKeys == OverlayKeys \cup {"ModAlt"}
KeyEvents == OverlayKeys \X BOOLEAN
About(k, e) == k \in MapKey(e[1])

\* Whether k is held when the events es[i], i in T, have been replayed: as the
\* last one about it says.
HeldAfter(k, keys, es, T) ==
    \/ k \in keys /\ \A i \in T : ~About(k, es[i])
    \/ \E i \in T : About(k, es[i]) /\ es[i][2] /\ \A j \in T : About(k, es[j]) => j <= i
AllHeld(keys, es, T) == {k \in ImKeys : HeldAfter(k, keys, es, T)}

\* Every set of naturals that is not empty has a least element.
LEMMA LeastNat ==
    ASSUME NEW T \in SUBSET Nat, T # {}
    PROVE  \E x \in T : \A y \in T : x <= y
<1>1. PICK Rel : Rel = {ss \in Nat \X Nat : ss[1] < ss[2]}
  OBVIOUS
<1>2. IsWellFoundedOn(Rel, Nat)
  BY <1>1, NatLessThanWellFounded DEF OpToRel
<1>3. PICK x \in T : \A y \in T : ~(<<y, x>> \in Rel)
  BY <1>2, WFMin
<1>4. \A y \in T : ~(y < x)
  BY <1>1, <1>3
<1> QED
  BY <1>4

LEMMA MaxIsGreatest ==
    ASSUME NEW n \in Nat, NEW T \in SUBSET (1 .. n), T # {}
    PROVE  Max(T) \in T /\ \A y \in T : Max(T) >= y
<1>1. PICK U : U = {n - x : x \in T}
  OBVIOUS
<1>2. U \in SUBSET Nat /\ U # {}
  <2>1. \A x \in T : n - x \in Nat
    OBVIOUS
  <2> QED
    BY <2>1, <1>1
<1>3. PICK u \in U : \A w \in U : u <= w
  BY <1>2, LeastNat
<1>4. PICK x \in T : u = n - x
  BY <1>1
<1>5. \A y \in T : x >= y
  <2> SUFFICES ASSUME NEW y \in T PROVE x >= y
    OBVIOUS
  <2>1. n - y \in U
    BY <1>1
  <2> QED
    BY <2>1, <1>3, <1>4
<1> QED
  BY <1>5 DEF Max

\* One step of a replay, from the front or from any part of the events.
LEMMA HeldStep ==
    ASSUME NEW n \in Nat, NEW keys \in SUBSET ImKeys,
           NEW es \in [1 .. n -> KeyEvents],
           NEW T \in SUBSET (1 .. n), T # {}
    PROVE  AllHeld(keys, es, T) = Held(AllHeld(keys, es, T \ {Max(T)}), es[Max(T)])
<1>1. PICK m \in T : m = Max(T) /\ \A y \in T : m >= y
  BY MaxIsGreatest
<1>2. PICK key \in OverlayKeys, down \in BOOLEAN : es[m] = <<key, down>>
  BY <1>1 DEF KeyEvents
<1>3. PICK R : R = T \ {m}
  OBVIOUS
<1>4. \A i \in T : i \in R \/ i = m
  BY <1>3
<1>5. \A i \in R : i \in T /\ i < m /\ i \in Int /\ m \in Int
  BY <1>1, <1>3
<1>6. es[m][1] = key /\ es[m][2] = down /\ \A k : About(k, es[m]) <=> k \in MapKey(key)
  BY <1>2 DEF About
<1>7. ASSUME NEW k \in ImKeys, k \notin MapKey(key)
      PROVE  HeldAfter(k, keys, es, T) <=> HeldAfter(k, keys, es, R)
  <2>1. \A i \in T : About(k, es[i]) => i \in R
    BY <1>4, <1>6, <1>7
  <2>2. R \subseteq T
    BY <1>3
  <2>3. (\A i \in T : ~About(k, es[i])) <=> (\A i \in R : ~About(k, es[i]))
    BY <2>1, <2>2
  <2>4. \A i : (\A j \in T : About(k, es[j]) => j <= i) <=> (\A j \in R : About(k, es[j]) => j <= i)
    BY <2>1, <2>2
  <2> QED
    BY <2>1, <2>2, <2>3, <2>4 DEF HeldAfter
<1>8. ASSUME NEW k \in ImKeys, k \in MapKey(key)
      PROVE  HeldAfter(k, keys, es, T) <=> down
  <2>1. ASSUME down PROVE HeldAfter(k, keys, es, T)
    BY <1>1, <1>6, <1>8, <2>1 DEF HeldAfter
  <2>2. ASSUME ~down PROVE ~HeldAfter(k, keys, es, T)
    <3>1. ASSUME NEW i \in T, About(k, es[i]), es[i][2], \A j \in T : About(k, es[j]) => j <= i PROVE FALSE
      <4>1. m <= i
        BY <1>1, <1>6, <1>8, <3>1
      <4>2. i = m
        BY <4>1, <1>1
      <4> QED
        BY <4>2, <3>1, <2>2, <1>6
    <3> QED
      BY <3>1, <1>1, <1>6, <1>8 DEF HeldAfter
  <2> QED
    BY <2>1, <2>2
<1>9. PICK A, B : A = AllHeld(keys, es, T) /\ B = AllHeld(keys, es, R)
  OBVIOUS
<1>10. MapKey(key) \subseteq ImKeys
  BY DEF MapKey, ImKeys
<1>11. A = IF down THEN B \cup MapKey(key) ELSE B \ MapKey(key)
  BY <1>7, <1>8, <1>9, <1>10 DEF AllHeld
<1> QED
  BY <1>11, <1>9, <1>6, <1>3, <1>1 DEF Held

LEMMA ReplayHolds ==
    ASSUME NEW keys \in SUBSET ImKeys, NEW es \in Seq(KeyEvents)
    PROVE  FoldLeft(Held, keys, es) = AllHeld(keys, es, 1 .. Len(es))
<1>1. PICK n \in Nat : n = Len(es)
  OBVIOUS
<1>2. es \in [1 .. n -> KeyEvents] /\ DOMAIN es = 1 .. n
  BY <1>1
<1> DEFINE Step(g) == g = [s \in SUBSET (1 .. n) |->
                             IF s = {} THEN keys ELSE Held(g[s \ {Max(s)}], es[Max(s)])]
<1>3. PICK h : h = [s \in SUBSET (1 .. n) |-> AllHeld(keys, es, s)]
  OBVIOUS
<1>4. Step(h)
  <2>1. ASSUME NEW s \in SUBSET (1 .. n)
        PROVE  h[s] = IF s = {} THEN keys ELSE Held(h[s \ {Max(s)}], es[Max(s)])
    <3>1. CASE s = {}
      <4>1. AllHeld(keys, es, {}) = keys
        BY DEF AllHeld, HeldAfter
      <4> QED
        BY <4>1, <3>1, <1>3
    <3>2. CASE s # {}
      <4>1. s \ {Max(s)} \in SUBSET (1 .. n)
        OBVIOUS
      <4>2. h[s] = AllHeld(keys, es, s) /\ h[s \ {Max(s)}] = AllHeld(keys, es, s \ {Max(s)})
        BY <4>1, <1>3
      <4>3. AllHeld(keys, es, s) = Held(AllHeld(keys, es, s \ {Max(s)}), es[Max(s)])
        BY <3>2, <1>2, HeldStep
      <4> QED
        BY <4>2, <4>3, <3>2
    <3> QED
      BY <3>1, <3>2
  <2>2. h = [s \in SUBSET (1 .. n) |-> h[s]]
    BY <1>3
  <2> HIDE DEF Step
  <2>3. h = [s \in SUBSET (1 .. n) |-> IF s = {} THEN keys ELSE Held(h[s \ {Max(s)}], es[Max(s)])]
    BY <2>1, <2>2
  <2> QED
    BY <2>3 DEF Step
<1>5. PICK f : f = CHOOSE g : Step(g)
  OBVIOUS
<1>6. Step(f)
  <2> HIDE DEF Step
  <2> QED BY <1>4, <1>5
<1>7. FoldLeft(Held, keys, es) = f[1 .. n]
  BY <1>2, <1>5 DEF FoldLeft, MapThenFoldSet
<1>8. \A s \in SUBSET (1 .. n) : f[s] = IF s = {} THEN keys ELSE Held(f[s \ {Max(s)}], es[Max(s)])
  BY <1>6
<1>9. \A s \in SUBSET (1 .. n) : h[s] = IF s = {} THEN keys ELSE Held(h[s \ {Max(s)}], es[Max(s)])
  BY <1>4
<1> HIDE DEF Step
<1> DEFINE Bad == {m \in 0 .. n : \E s \in SUBSET (1 .. m) : f[s] # h[s]}
<1>10. Bad = {}
  <2> SUFFICES ASSUME Bad # {} PROVE FALSE
    OBVIOUS
  <2>1. PICK m \in Bad : \A k \in Bad : m <= k
    <3>1. Bad \in SUBSET Nat
      OBVIOUS
    <3> HIDE DEF Bad
    <3> QED BY <3>1, LeastNat
  <2>2. m \in 0 .. n
    OBVIOUS
  <2>3. PICK s \in SUBSET (1 .. m) : f[s] # h[s]
    OBVIOUS
  <2>4. s \in SUBSET (1 .. n)
    BY <2>2
  <2>5. s # {}
    BY <2>3, <2>4, <1>8, <1>9
  <2>6. PICK x \in s : x = Max(s) /\ \A y \in s : x >= y
    BY <2>4, <2>5, MaxIsGreatest
  <2>7. x \in 1 .. m /\ s \ {x} \in SUBSET (1 .. x - 1) /\ x - 1 \in 0 .. n /\ x - 1 < m
    <3>1. x \in 1 .. m
      OBVIOUS
    <3>2. ASSUME NEW y \in s \ {x} PROVE y \in 1 .. x - 1
      <4>1. y \in 1 .. m /\ y # x
        OBVIOUS
      <4>2. x >= y
        BY <2>6
      <4> QED
        BY <2>2, <3>1, <4>1, <4>2
    <3>3. s \ {x} \in SUBSET (1 .. x - 1)
      BY <3>2
    <3>4. x - 1 \in 0 .. n /\ x - 1 < m
      BY <2>2, <3>1
    <3> QED
      BY <3>1, <3>3, <3>4
  <2>8. x - 1 \notin Bad
    <3> HIDE DEF Bad
    <3>1. x - 1 \in Int /\ m \in Int
      BY <2>2, <2>7
    <3> QED
      BY <2>1, <2>7, <3>1
  <2>9. f[s \ {x}] = h[s \ {x}]
    BY <2>7, <2>8
  <2> QED
    BY <2>3, <2>4, <2>5, <2>6, <2>9, <1>8, <1>9
<1>11. f[1 .. n] = h[1 .. n]
  <2>1. n \in 0 .. n /\ 1 .. n \in SUBSET (1 .. n)
    OBVIOUS
  <2>2. ~(n \in Bad)
    <3> HIDE DEF Bad
    <3> QED BY <1>10
  <2> QED
    BY <2>1, <2>2
<1>12. h[1 .. n] = AllHeld(keys, es, 1 .. n)
  BY <1>3
<1> QED
  BY <1>7, <1>11, <1>12, <1>1

\* One event more.
LEMMA HeldAppend ==
    ASSUME NEW keys \in SUBSET ImKeys, NEW es \in Seq(KeyEvents),
           NEW e \in KeyEvents
    PROVE  AllHeld(keys, Append(es, e), 1 .. Len(Append(es, e)))
             = Held(AllHeld(keys, es, 1 .. Len(es)), e)
<1>1. PICK n \in Nat : n = Len(es)
  OBVIOUS
<1>2. PICK fs : fs = Append(es, e)
  OBVIOUS
<1>3. fs \in Seq(KeyEvents) /\ Len(fs) = n + 1 /\ fs[n + 1] = e
      /\ \A i \in 1 .. n : fs[i] = es[i]
  BY <1>1, <1>2
<1>4. n + 1 \in Nat /\ fs \in [1 .. n + 1 -> KeyEvents]
  BY <1>3
<1>5. PICK T : T = 1 .. n + 1
  OBVIOUS
<1>6. T \in SUBSET (1 .. n + 1) /\ T # {}
  <2>1. 1 \in T
    BY <1>5
  <2> QED
    BY <2>1, <1>5
<1>7. Max(T) \in T /\ \A y \in T : Max(T) >= y
  BY <1>4, <1>6, MaxIsGreatest
<1>8. Max(T) = n + 1 /\ T \ {Max(T)} = 1 .. n
  BY <1>5, <1>7
<1>9. AllHeld(keys, fs, T) = Held(AllHeld(keys, fs, T \ {Max(T)}), fs[Max(T)])
  BY <1>4, <1>6, HeldStep
<1>10. AllHeld(keys, fs, 1 .. n) = AllHeld(keys, es, 1 .. n)
  BY <1>3 DEF AllHeld, HeldAfter
<1> QED
  BY <1>1, <1>2, <1>3, <1>5, <1>8, <1>9, <1>10

-----------------------------------------------------------------------------
(* The inductive invariant.                                                  *)

SettingValues == [Options -> BOOLEAN]
SavedTexts == [values : SettingValues, foreign : SUBSET ForeignKeys, readable : BOOLEAN]
SaveStates == [stage : {"none", "changed", "writing"}, text : SavedTexts]
OverlayTypes ==
    /\ overlay \in {"off", "loaded", "ready", "failed"}
    /\ settings \in SettingValues
    /\ unknown \in SUBSET ForeignKeys /\ theirs \in SUBSET ForeignKeys
    /\ file \in SavedTexts
    /\ saving \in [Savers -> SaveStates]
    /\ alone \in BOOLEAN
    /\ pressed \in [keys : SUBSET OverlayKeys, button : BOOLEAN]
    /\ pending \in [keys : Seq(KeyEvents), button : {NoEdge, "up", "down"}]
    /\ imgui \in [keys : SUBSET ImKeys, button : BOOLEAN]

\* What waits for the next frame makes up for what ImGui does not know.
WillHold == AllHeld(imgui.keys, pending.keys, 1 .. Len(pending.keys))
ReplayInv ==
    /\ \A k \in OverlayKeys : k \in pressed.keys <=> k \in WillHold
    /\ "ModAlt" \in WillHold => AltKeys \cap pressed.keys # {}
    /\ pressed.button = IF pending.button = NoEdge THEN imgui.button ELSE pending.button = "down"

\* A save that began alone is the only one, and will write what is in memory.
ValuesInv ==
    /\ overlay = "off" => \A s \in Savers : ~Under(s)
    /\ alone =>
          /\ \A r, s \in Savers : Under(r) /\ Under(s) => r = s
          /\ \A s \in Savers : saving[s].stage = "writing" => saving[s].text.values = settings
          /\ overlay # "off" /\ file.readable /\ (\A s \in Savers : ~Under(s)) => file.values = settings

\* What is theirs is in memory, in every text to be written, and in the file
\* but while it is written.
TheirsInv ==
    /\ FocusKey \notin theirs
    /\ overlay # "off" => theirs \subseteq unknown
    /\ \A s \in Savers : saving[s].stage = "writing" =>
          theirs \subseteq saving[s].text.foreign /\ saving[s].text.readable
    /\ ~Writing => theirs \subseteq file.foreign
    /\ ~file.readable => theirs = {} /\ ~Writing

OverlayInv == OverlayTypes /\ ReplayInv /\ ValuesInv /\ TheirsInv

LEMMA OverlayInitText == NoText \in SavedTexts /\ Defaults \in SettingValues /\ NoSave \in SaveStates
<1>1. Defaults \in SettingValues
  BY DEF Defaults, SettingValues
<1>2. NoText \in SavedTexts
  BY <1>1 DEF NoText, SavedTexts
<1> QED
  BY <1>1, <1>2 DEF NoSave, SaveStates

\* A process that starts has recorded nothing, and saves nothing.
LEMMA FreshProcess ==
    ASSUME pressed' = [keys |-> {}, button |-> FALSE], imgui' = [keys |-> {}, button |-> FALSE],
           pending' = [keys |-> <<>>, button |-> NoEdge]
    PROVE  /\ pressed' \in [keys : SUBSET OverlayKeys, button : BOOLEAN]
           /\ imgui' \in [keys : SUBSET ImKeys, button : BOOLEAN]
           /\ pending' \in [keys : Seq(KeyEvents), button : {NoEdge, "up", "down"}]
           /\ ReplayInv'
<1>1. Len(pending'.keys) = 0 /\ pressed'.keys = {} /\ imgui'.keys = {} /\ pending'.button = NoEdge
      /\ pressed'.button = FALSE /\ imgui'.button = FALSE /\ pending'.keys = <<>>
  OBVIOUS
<1>2. AllHeld({}, <<>>, 1 .. 0) = {}
  BY DEF AllHeld, HeldAfter
<1> QED
  BY <1>1, <1>2 DEF ReplayInv, WillHold

LEMMA OverlayStarts == OverlayInit => OverlayInv
<1> SUFFICES ASSUME OverlayInit PROVE OverlayInv
  OBVIOUS
<1>1. file \in SavedTexts /\ theirs = {}
  BY OverlayInitText DEF OverlayInit
<1>2. theirs \in SUBSET ForeignKeys /\ FocusKey \notin theirs /\ theirs \subseteq file.foreign
  BY <1>1
<1>3. saving \in [Savers -> SaveStates] /\ \A s \in Savers : saving[s].stage = "none"
  BY OverlayInitText DEF OverlayInit, NoSave
<1>4. /\ pressed \in [keys : SUBSET OverlayKeys, button : BOOLEAN]
      /\ imgui \in [keys : SUBSET ImKeys, button : BOOLEAN]
      /\ pending \in [keys : Seq(KeyEvents), button : {NoEdge, "up", "down"}]
      /\ Len(pending.keys) = 0 /\ pressed.keys = {} /\ imgui.keys = {} /\ pending.button = NoEdge
      /\ pressed.button = FALSE /\ imgui.button = FALSE /\ pending.keys = <<>>
  BY DEF OverlayInit
<1>5. ReplayInv
  <2>1. AllHeld({}, <<>>, 1 .. 0) = {}
    BY DEF AllHeld, HeldAfter
  <2> QED
    BY <2>1, <1>4 DEF ReplayInv, WillHold
<1>6. OverlayTypes
  BY <1>1, <1>2, <1>3, <1>4, OverlayInitText DEF OverlayInit, OverlayTypes
<1>7. ValuesInv /\ TheirsInv
  BY <1>1, <1>2, <1>3 DEF OverlayInit, ValuesInv, TheirsInv, Under, Writing
<1> QED
  BY <1>5, <1>6, <1>7 DEF OverlayInv

LEMMA OverlayReplayed ==
    ASSUME OverlayInv
    PROVE  Replayed = [keys |-> WillHold, button |-> pressed.button] /\ WillHold \in SUBSET ImKeys
<1>1. imgui.keys \in SUBSET ImKeys /\ pending.keys \in Seq(KeyEvents)
  BY DEF OverlayInv, OverlayTypes
<1>2. FoldLeft(Held, imgui.keys, pending.keys) = WillHold
  BY <1>1, ReplayHolds DEF WillHold
<1> QED
  BY <1>2 DEF Replayed, OverlayInv, ReplayInv, WillHold, AllHeld

LEMMA OverlayEnds == OverlayInv => OverlaySound
<1> SUFFICES ASSUME OverlayInv PROVE OverlaySound
  OBVIOUS
<1>1. Replayed.keys = WillHold /\ Replayed.button = pressed.button
  BY OverlayReplayed
<1>2. Replayed.keys \cap OverlayKeys = pressed.keys
  BY <1>1 DEF OverlayInv, ReplayInv, OverlayTypes
<1>3. "ModAlt" \in Replayed.keys => AltKeys \cap pressed.keys # {}
  BY <1>1 DEF OverlayInv, ReplayInv
<1> QED
  BY <1>1, <1>2, <1>3 DEF OverlaySound, OverlayInv, ValuesInv, TheirsInv

LEMMA OthersWriteKeeps ==
    ASSUME OverlayInv, NEW on \in FoundOn, NEW foreign \in SUBSET ForeignKeys, NEW readable \in BOOLEAN,
           OthersWrite(on, foreign, readable)
    PROVE  OverlayInv'
<1>1. /\ file' = Found(on, foreign, readable) /\ theirs' = IF readable THEN KeptOf(file') ELSE {}
      /\ overlay = "off"
      /\ UNCHANGED <<overlay, settings, unknown, saving, alone, pressed, pending, imgui>>
  BY DEF OthersWrite, inputVars
<1>2. file' \in SavedTexts /\ file'.foreign = foreign /\ file'.readable = readable
  BY <1>1 DEF Found, SavedTexts, SettingValues
<1>3. /\ theirs' \in SUBSET ForeignKeys /\ FocusKey \notin theirs' /\ theirs' \subseteq file'.foreign
      /\ ~file'.readable => theirs' = {}
  BY <1>1, <1>2 DEF KeptOf
<1>4. \A s \in Savers : saving[s].stage = "none" /\ saving'[s].stage = "none"
  BY <1>1 DEF OverlayInv, ValuesInv, Under
<1>5. OverlayTypes' /\ ReplayInv'
  BY <1>1, <1>2, <1>3 DEF OverlayInv, OverlayTypes, ReplayInv, WillHold
<1>6. ValuesInv' /\ TheirsInv'
  BY <1>1, <1>3, <1>4 DEF OverlayInv, ValuesInv, TheirsInv, Under, Writing
<1> QED
  BY <1>5, <1>6 DEF OverlayInv

LEMMA LoadSettingsKeeps ==
    ASSUME OverlayInv, LoadSettings
    PROVE  OverlayInv'
<1>1. /\ overlay = "off" /\ overlay' = "loaded"
      /\ settings' = IF file.readable THEN file.values ELSE settings
      /\ unknown' = IF file.readable THEN KeptOf(file) ELSE unknown
      /\ UNCHANGED <<file, saving, alone, theirs, pressed, pending, imgui>>
  BY DEF LoadSettings, inputVars
<1>2. file.values \in SettingValues /\ file.foreign \in SUBSET ForeignKeys
      /\ settings \in SettingValues /\ unknown \in SUBSET ForeignKeys
  BY DEF OverlayInv, OverlayTypes, SavedTexts
<1>3. OverlayTypes'
  BY <1>1, <1>2 DEF OverlayInv, OverlayTypes, KeptOf
<1>4. ReplayInv'
  BY <1>1 DEF OverlayInv, ReplayInv, WillHold
<1>5. \A s \in Savers : saving[s].stage = "none"
  BY <1>1 DEF OverlayInv, ValuesInv, Under
<1>6. ValuesInv'
  BY <1>1, <1>5 DEF ValuesInv, Under
<1>7. ~Writing
  BY <1>5 DEF Writing
<1>8. theirs \subseteq unknown'
  BY <1>1, <1>7 DEF OverlayInv, TheirsInv, KeptOf
<1>9. TheirsInv'
  BY <1>1, <1>5, <1>7, <1>8 DEF OverlayInv, TheirsInv, Writing
<1> QED
  BY <1>3, <1>4, <1>6, <1>9 DEF OverlayInv

\* Steps that change nothing but what is recorded and whether the overlay works.
LEMMA FilesUntouched ==
    ASSUME OverlayInv, UNCHANGED <<settings, unknown, file, saving, alone, theirs>>,
           (overlay' = "off") <=> (overlay = "off")
    PROVE  ValuesInv' /\ TheirsInv'
BY DEF OverlayInv, ValuesInv, TheirsInv, Under, Writing

LEMMA InitOnceKeeps ==
    ASSUME OverlayInv, NEW works \in BOOLEAN, InitOnce(works)
    PROVE  OverlayInv'
<1>1. /\ overlay = "loaded" /\ overlay' \in {"ready", "failed"}
      /\ UNCHANGED <<settings, unknown, file, saving, alone, theirs, pressed, pending, imgui>>
  BY DEF InitOnce, inputVars, fileVars
<1>2. OverlayTypes' /\ ReplayInv'
  BY <1>1 DEF OverlayInv, OverlayTypes, ReplayInv, WillHold
<1> QED
  BY <1>1, <1>2, FilesUntouched DEF OverlayInv

LEMMA RecordKeyKeeps ==
    ASSUME OverlayInv, NEW k \in OverlayKeys, NEW down \in BOOLEAN, RecordKey(k, down)
    PROVE  OverlayInv'
<1>1. /\ pressed' = [pressed EXCEPT !.keys = IF down THEN pressed.keys \cup {k} ELSE pressed.keys \ {k}]
      /\ pending' = [pending EXCEPT !.keys = Append(pending.keys, <<k, down>>)]
      /\ UNCHANGED <<overlay, settings, imgui, unknown, file, saving, alone, theirs>>
  BY DEF RecordKey, fileVars
<1>2. PICK es, e : es = pending.keys /\ e = <<k, down>>
  OBVIOUS
<1>3. e \in KeyEvents /\ e[1] = k /\ e[2] = down
  BY <1>2 DEF KeyEvents
<1>4. es \in Seq(KeyEvents) /\ imgui.keys \in SUBSET ImKeys
  BY <1>2 DEF OverlayInv, OverlayTypes
<1>5. AllHeld(imgui.keys, Append(es, e), 1 .. Len(Append(es, e)))
        = Held(AllHeld(imgui.keys, es, 1 .. Len(es)), e)
  BY <1>3, <1>4, HeldAppend
<1>6. /\ pending'.keys = Append(es, e) /\ pending'.button = pending.button
      /\ pressed'.keys = (IF down THEN pressed.keys \cup {k} ELSE pressed.keys \ {k})
      /\ pressed'.button = pressed.button
  BY <1>1, <1>2 DEF OverlayInv, OverlayTypes
<1>7. WillHold' = IF down THEN WillHold \cup MapKey(k) ELSE WillHold \ MapKey(k)
  BY <1>1, <1>2, <1>3, <1>5, <1>6 DEF WillHold, Held
<1>8. k \in MapKey(k) /\ \A i \in OverlayKeys : i \in MapKey(k) => i = k
  BY OverlayAssumption DEF MapKey
<1>9. "ModAlt" \in MapKey(k) <=> k \in AltKeys
  BY OverlayAssumption DEF MapKey
<1>10. \A i \in OverlayKeys : i \in pressed'.keys <=> i \in WillHold'
  BY <1>6, <1>7, <1>8 DEF OverlayInv, ReplayInv
<1>11. "ModAlt" \in WillHold' => AltKeys \cap pressed'.keys # {}
  BY <1>6, <1>7, <1>9 DEF OverlayInv, ReplayInv
<1>12. ReplayInv'
  BY <1>1, <1>6, <1>10, <1>11 DEF OverlayInv, ReplayInv
<1>13. Append(es, e) \in Seq(KeyEvents)
  BY <1>3, <1>4
<1>14. pressed' \in [keys : SUBSET OverlayKeys, button : BOOLEAN]
  BY <1>1 DEF OverlayInv, OverlayTypes
<1>15. pending' \in [keys : Seq(KeyEvents), button : {NoEdge, "up", "down"}]
  BY <1>1, <1>2, <1>13 DEF OverlayInv, OverlayTypes
<1>16. OverlayTypes'
  BY <1>1, <1>14, <1>15 DEF OverlayInv, OverlayTypes
<1> QED
  BY <1>1, <1>12, <1>16, FilesUntouched DEF OverlayInv

LEMMA RecordMouseKeeps ==
    ASSUME OverlayInv, RecordMouseButton
    PROVE  OverlayInv'
<1>1. /\ pressed' = [pressed EXCEPT !.button = ~pressed.button]
      /\ pending' = [pending EXCEPT !.button = IF ~pressed.button THEN "down" ELSE "up"]
      /\ UNCHANGED <<overlay, settings, imgui, unknown, file, saving, alone, theirs>>
  BY DEF RecordMouseButton, LastEdge, Edge, fileVars
<1>2. OverlayTypes'
  BY <1>1 DEF OverlayInv, OverlayTypes
<1>3. pending'.keys = pending.keys /\ pressed'.keys = pressed.keys
      /\ pending'.button = (IF ~pressed.button THEN "down" ELSE "up") /\ pressed'.button = ~pressed.button
      /\ pressed.button \in BOOLEAN
  BY <1>1 DEF OverlayInv, OverlayTypes
<1>4. ReplayInv'
  BY <1>1, <1>3 DEF OverlayInv, ReplayInv, WillHold, NoEdge
<1> QED
  BY <1>1, <1>2, <1>4, FilesUntouched DEF OverlayInv

\* A save begins with the change that it is for.
LEMMA OverlaySaveBegins ==
    ASSUME OverlayInv, overlay # "off", NEW s \in Savers, ~Under(s), Saves(s),
           UNCHANGED <<overlay, unknown, file, theirs>>
    PROVE  saving' \in [Savers -> SaveStates] /\ alone' \in BOOLEAN /\ ValuesInv' /\ TheirsInv'
<1>1. saving \in [Savers -> SaveStates]
  BY DEF OverlayInv, OverlayTypes
<1>2. PICK begun : begun = [stage |-> "changed", text |-> NoText]
  OBVIOUS
<1>3. begun \in SaveStates /\ begun.stage = "changed"
  BY <1>2, OverlayInitText DEF SaveStates
<1>4. saving' = [saving EXCEPT ![s] = begun] /\ alone' = \A r \in Savers \ {s} : ~Under(r)
  BY <1>2 DEF Saves
<1>5. saving' \in [Savers -> SaveStates] /\ saving'[s].stage = "changed"
      /\ \A r \in Savers : r # s => saving'[r] = saving[r]
  BY <1>1, <1>3, <1>4
<1>6. ValuesInv'
  BY <1>4, <1>5 DEF ValuesInv, Under
<1>7. Writing' <=> Writing
  BY <1>5 DEF Writing, Under
<1>8. TheirsInv'
  BY <1>5, <1>7 DEF OverlayInv, TheirsInv
<1> QED
  BY <1>4, <1>5, <1>6, <1>8

LEMMA DrawFrameKeeps ==
    ASSUME OverlayInv, NEW reachable \in BOOLEAN, NEW value \in BOOLEAN, NEW choice,
           DrawFrame(reachable, choice, value)
    PROVE  OverlayInv'
<1>1. /\ overlay = "ready" /\ ~Under("render") /\ imgui' = Replayed
      /\ pending' = [keys |-> <<>>, button |-> NoEdge]
      /\ Chooses(choice, value) /\ UNCHANGED <<overlay, unknown, file, theirs, pressed>>
  BY DEF DrawFrame
<1>2. imgui' = [keys |-> WillHold, button |-> pressed.button] /\ WillHold \in SUBSET ImKeys
  BY <1>1, OverlayReplayed
<1>3. settings' \in SettingValues /\ saving' \in [Savers -> SaveStates] /\ alone' \in BOOLEAN
      /\ ValuesInv' /\ TheirsInv'
  <2>1. CASE choice \in {"none", "hide"}
    <3>1. UNCHANGED <<settings, saving, alone>>
      BY <2>1, <1>1 DEF Chooses
    <3> QED
      BY <3>1, <1>1, FilesUntouched DEF OverlayInv, OverlayTypes
  <2>2. CASE choice \notin {"none", "hide"}
    <3>1. settings' = [settings EXCEPT ![choice] = value] /\ Saves("render")
      BY <2>2, <1>1 DEF Chooses
    <3>2. settings' \in SettingValues
      BY <3>1 DEF OverlayInv, OverlayTypes, SettingValues
    <3>3. "render" \in Savers /\ overlay # "off" /\ UNCHANGED <<overlay, unknown, file, theirs>>
      BY <1>1 DEF Savers
    <3> QED
      BY <1>1, <3>1, <3>2, <3>3, OverlaySaveBegins
  <2> QED
    BY <2>1, <2>2
<1>4. pressed.button \in BOOLEAN /\ pending' \in [keys : Seq(KeyEvents), button : {NoEdge, "up", "down"}]
  BY <1>1 DEF OverlayInv, OverlayTypes
<1>5. OverlayTypes'
  BY <1>1, <1>2, <1>3, <1>4 DEF OverlayInv, OverlayTypes
<1>6. ReplayInv'
  <2>1. AllHeld(WillHold, <<>>, 1 .. 0) = WillHold
    BY <1>2 DEF AllHeld, HeldAfter
  <2>2. pending'.keys = <<>> /\ Len(pending'.keys) = 0 /\ pending'.button = NoEdge /\ pressed' = pressed
        /\ imgui'.keys = WillHold /\ imgui'.button = pressed.button
    BY <1>1, <1>2
  <2>3. WillHold' = WillHold
    BY <2>1, <2>2 DEF WillHold
  <2> QED
    BY <2>2, <2>3 DEF OverlayInv, ReplayInv
<1> QED
  BY <1>3, <1>5, <1>6 DEF OverlayInv

LEMMA SetFullscreenKeeps ==
    ASSUME OverlayInv, SetFullscreen
    PROVE  OverlayInv'
<1>1. /\ overlay # "off" /\ ~Under("window")
      /\ settings' = [settings EXCEPT !["fullscreen"] = ~settings["fullscreen"]]
      /\ Saves("window") /\ UNCHANGED <<overlay, unknown, file, theirs, pressed, pending, imgui>>
  BY DEF SetFullscreen, inputVars
<1>2. settings' \in SettingValues
  BY <1>1 DEF OverlayInv, OverlayTypes, SettingValues, Options
<1>3. "window" \in Savers /\ UNCHANGED <<overlay, unknown, file, theirs>>
  BY <1>1 DEF Savers
<1>4. saving' \in [Savers -> SaveStates] /\ alone' \in BOOLEAN /\ ValuesInv' /\ TheirsInv'
  BY <1>1, <1>3, OverlaySaveBegins
<1>5. OverlayTypes' /\ ReplayInv'
  BY <1>1, <1>2, <1>4 DEF OverlayInv, OverlayTypes, ReplayInv, WillHold
<1> QED
  BY <1>4, <1>5 DEF OverlayInv

LEMMA AdvanceTypes ==
    ASSUME OverlayInv, NEW s \in Savers, NEW from, NEW to \in {"none", "changed", "writing"},
           NEW text \in SavedTexts, Advances(s, from, to, text), file' \in SavedTexts
    PROVE  /\ OverlayTypes' /\ ReplayInv' /\ UNCHANGED <<overlay, settings, unknown, alone, theirs>>
           /\ saving[s].stage = from /\ saving'[s].stage = to /\ saving'[s].text = text
           /\ \A r \in Savers : r # s => saving'[r] = saving[r]
<1>1. PICK later : later = [stage |-> to, text |-> text]
  OBVIOUS
<1>2. later \in SaveStates /\ later.stage = to /\ later.text = text
  BY <1>1 DEF SaveStates
<1>3. /\ saving[s].stage = from /\ saving' = [saving EXCEPT ![s] = later]
      /\ UNCHANGED <<overlay, settings, unknown, alone, theirs, pressed, pending, imgui>>
  BY <1>1 DEF Advances, inputVars
<1>4. saving \in [Savers -> SaveStates]
  BY DEF OverlayInv, OverlayTypes
<1>5. saving' \in [Savers -> SaveStates] /\ saving'[s] = later
      /\ \A r \in Savers : r # s => saving'[r] = saving[r]
  BY <1>2, <1>3, <1>4
<1>6. OverlayTypes' /\ ReplayInv'
  BY <1>3, <1>5 DEF OverlayInv, OverlayTypes, ReplayInv, WillHold
<1> QED
  BY <1>2, <1>3, <1>5, <1>6

LEMMA WritesOverKeeps ==
    ASSUME OverlayInv, NEW s \in Savers, WritesOver(s)
    PROVE  OverlayInv'
<1>1. PICK text : text = Snapshot
  OBVIOUS
<1>2. text \in SavedTexts /\ text.values = settings /\ text.foreign = unknown /\ text.readable
  BY <1>1 DEF Snapshot, SavedTexts, OverlayInv, OverlayTypes
<1>3. Advances(s, "changed", "writing", text) /\ file' = NoText /\ file' \in SavedTexts /\ file'.readable
  BY <1>1, OverlayInitText DEF WritesOver, NoText
<1>4. /\ OverlayTypes' /\ ReplayInv' /\ UNCHANGED <<overlay, settings, unknown, alone, theirs>>
      /\ saving[s].stage = "changed" /\ saving'[s].stage = "writing" /\ saving'[s].text = text
      /\ \A r \in Savers : r # s => saving'[r] = saving[r]
  BY <1>2, <1>3, AdvanceTypes
<1>5. overlay # "off"
  BY <1>4 DEF OverlayInv, ValuesInv, Under
<1>6. ValuesInv'
  BY <1>2, <1>4, <1>5 DEF OverlayInv, ValuesInv, Under
<1>7. Writing'
  BY <1>4 DEF Writing
<1>8. TheirsInv'
  BY <1>2, <1>3, <1>4, <1>5, <1>7 DEF OverlayInv, TheirsInv
<1> QED
  BY <1>4, <1>6, <1>8 DEF OverlayInv

LEMMA SaveSettingsKeeps ==
    ASSUME OverlayInv, NEW s \in Savers, SaveSettings(s)
    PROVE  OverlayInv'
<1>1. PICK text : text = saving[s].text
  OBVIOUS
<1>2. text \in SavedTexts
  BY <1>1 DEF OverlayInv, OverlayTypes, SaveStates
<1>3. Advances(s, "writing", "none", NoText) /\ file' = text /\ NoText \in SavedTexts
  BY <1>1, OverlayInitText DEF SaveSettings
<1>4. /\ OverlayTypes' /\ ReplayInv' /\ UNCHANGED <<overlay, settings, unknown, alone, theirs>>
      /\ saving[s].stage = "writing" /\ saving'[s].stage = "none"
      /\ \A r \in Savers : r # s => saving'[r] = saving[r]
  BY <1>2, <1>3, AdvanceTypes
<1>5. theirs \subseteq text.foreign /\ text.readable
  BY <1>1, <1>4 DEF OverlayInv, TheirsInv
<1>6. ValuesInv'
  BY <1>1, <1>3, <1>4 DEF OverlayInv, ValuesInv, Under
<1>7. TheirsInv'
  BY <1>3, <1>4, <1>5 DEF OverlayInv, TheirsInv
<1> QED
  BY <1>4, <1>6, <1>7 DEF OverlayInv

LEMMA OverlayRestartKeeps ==
    ASSUME OverlayInv, Restart
    PROVE  OverlayInv'
<1>1. /\ overlay' = "off" /\ settings' = Defaults /\ unknown' = {} /\ alone' = TRUE
      /\ saving' = [s \in Savers |-> NoSave] /\ file' = file
      /\ theirs' = IF Writing THEN KeptOf(file) ELSE theirs
  BY DEF Restart
<1>2. /\ pressed' = [keys |-> {}, button |-> FALSE] /\ imgui' = [keys |-> {}, button |-> FALSE]
      /\ pending' = [keys |-> <<>>, button |-> NoEdge]
  BY DEF Restart
<1>3. saving' \in [Savers -> SaveStates] /\ \A s \in Savers : saving'[s].stage = "none"
  BY <1>1, OverlayInitText DEF NoSave
<1>4. theirs' \in SUBSET ForeignKeys /\ FocusKey \notin theirs' /\ theirs' \subseteq file.foreign
      /\ (~file.readable => theirs' = {})
  <2>1. CASE Writing
    BY <1>1, <2>1 DEF OverlayInv, OverlayTypes, SavedTexts, TheirsInv, KeptOf
  <2>2. CASE ~Writing
    BY <1>1, <2>2 DEF OverlayInv, OverlayTypes, TheirsInv
  <2> QED
    BY <2>1, <2>2
<1>5. /\ pressed' \in [keys : SUBSET OverlayKeys, button : BOOLEAN]
      /\ imgui' \in [keys : SUBSET ImKeys, button : BOOLEAN]
      /\ pending' \in [keys : Seq(KeyEvents), button : {NoEdge, "up", "down"}]
      /\ ReplayInv'
  BY <1>2, FreshProcess
<1>6. OverlayTypes'
  BY <1>1, <1>3, <1>4, <1>5, OverlayInitText DEF OverlayInv, OverlayTypes
<1>7. ValuesInv' /\ TheirsInv'
  BY <1>1, <1>3, <1>4 DEF ValuesInv, TheirsInv, Under, Writing
<1> QED
  BY <1>5, <1>6, <1>7 DEF OverlayInv

LEMMA OverlayKeeps == OverlayInv /\ [OverlayNext]_overlayVars => OverlayInv'
<1> SUFFICES ASSUME OverlayInv, [OverlayNext]_overlayVars PROVE OverlayInv'
  OBVIOUS
<1>1. CASE UNCHANGED overlayVars
  <2>1. UNCHANGED <<overlay, settings, unknown, file, saving, alone, theirs, pressed, pending, imgui>>
    BY <1>1 DEF overlayVars
  <2>2. OverlayTypes' /\ ReplayInv'
    BY <2>1 DEF OverlayInv, OverlayTypes, ReplayInv, WillHold
  <2> QED
    BY <2>1, <2>2, FilesUntouched DEF OverlayInv
<1>2. CASE OverlayNext
  BY <1>2, OthersWriteKeeps, LoadSettingsKeeps, InitOnceKeeps, RecordKeyKeeps, RecordMouseKeeps, DrawFrameKeeps,
     SetFullscreenKeeps, WritesOverKeeps, SaveSettingsKeeps, OverlayRestartKeeps DEF OverlayNext
<1> QED
  BY <1>1, <1>2

\* However keys and the button are used between frames: ImGui is told at the next
\* one what the user holds.  Whatever the menus and F11 change, whenever the two
\* threads save and the process is killed: the file has the values in memory unless
\* two saves overlapped, and the lines of other launchers that load() can keep
\* (imgui_ui/mod.rs, settings.rs).
THEOREM OverlayStaysSound == OverlaySpec => []OverlaySound
<1>1. OverlayInit => OverlayInv
  BY OverlayStarts
<1>2. OverlayInv /\ [OverlayNext]_overlayVars => OverlayInv'
  BY OverlayKeeps
<1>3. OverlayInv => OverlaySound
  BY OverlayEnds
<1> QED
  BY <1>1, <1>2, <1>3, PTL DEF OverlaySpec

-----------------------------------------------------------------------------
(* Menus of mods.  What is kept of a sequence.                               *)

\* kept[n] is what is kept of the first n elements of s.
KeptUpTo(kept, s, positions) ==
    kept = [n \in 0 .. Len(s) |->
              IF n = 0 THEN <<>> ELSE IF n \in positions THEN Append(kept[n - 1], s[n]) ELSE kept[n - 1]]

\* r is s at those of the positions 1 to n, in their order.
KeptBy(r, f, s, positions, n) ==
    /\ f \in [1 .. Len(r) -> 1 .. n]
    /\ \A i \in 1 .. Len(r) : f[i] \in positions /\ r[i] = s[f[i]]
    /\ \A i, j \in 1 .. Len(r) : i < j => f[i] < f[j]
    /\ \A k \in 1 .. n : k \in positions => \E i \in 1 .. Len(r) : f[i] = k

LEMMA KeptStep ==
    ASSUME NEW S, NEW s \in Seq(S), NEW positions, NEW n \in 1 .. Len(s),
           NEW r \in Seq(S), NEW f, KeptBy(r, f, s, positions, n - 1)
    PROVE  /\ n \notin positions => KeptBy(r, f, s, positions, n)
           /\ n \in positions => Append(r, s[n]) \in Seq(S)
                                 /\ \E g : KeptBy(Append(r, s[n]), g, s, positions, n)
<1>1. n \in Nat /\ n - 1 \in Nat /\ s[n] \in S
  OBVIOUS
<1>2. PICK m \in Nat : m = Len(r)
  OBVIOUS
<1>3. CASE n \notin positions
  <2>1. f \in [1 .. Len(r) -> 1 .. n]
    BY <1>1, <1>2 DEF KeptBy
  <2>2. \A k \in 1 .. n : k \in positions => \E i \in 1 .. Len(r) : f[i] = k
    BY <1>1, <1>3 DEF KeptBy
  <2>3. KeptBy(r, f, s, positions, n)
    BY <2>1, <2>2 DEF KeptBy
  <2> QED
    BY <2>3, <1>3
<1>4. CASE n \in positions
  <2>1. PICK q : q = Append(r, s[n])
    OBVIOUS
  <2>2. q \in Seq(S) /\ Len(q) = m + 1 /\ q[m + 1] = s[n] /\ \A i \in 1 .. m : q[i] = r[i]
    BY <2>1, <1>1, <1>2
  <2>3. PICK g : g = [i \in 1 .. m + 1 |-> IF i = m + 1 THEN n ELSE f[i]]
    OBVIOUS
  <2>4. \A i \in 1 .. m : f[i] \in 1 .. n - 1
    BY <1>2 DEF KeptBy
  <2>5. \A i \in 1 .. m + 1 : i \in 1 .. m \/ i = m + 1
    OBVIOUS
  <2>6. \A i \in 1 .. m : g[i] = f[i] /\ i # m + 1 /\ i \in 1 .. m + 1
    BY <2>3
  <2>7. g[m + 1] = n /\ m + 1 \in 1 .. m + 1
    BY <2>3
  <2>8. g \in [1 .. Len(q) -> 1 .. n]
    <3>1. \A i \in 1 .. m + 1 : g[i] \in 1 .. n
      <4> SUFFICES ASSUME NEW i \in 1 .. m + 1 PROVE g[i] \in 1 .. n
        OBVIOUS
      <4>1. CASE i = m + 1
        BY <4>1, <2>7, <1>1
      <4>2. CASE i \in 1 .. m
        BY <4>2, <1>1, <2>4, <2>6
      <4> QED
        BY <4>1, <4>2, <2>5
    <3> QED
      BY <3>1, <2>2, <2>3
  <2>9. \A i \in 1 .. Len(q) : g[i] \in positions /\ q[i] = s[g[i]]
    BY <1>2, <1>4, <2>2, <2>5, <2>6, <2>7 DEF KeptBy
  <2>10. ASSUME NEW i \in 1 .. Len(q), NEW j \in 1 .. Len(q), i < j PROVE g[i] < g[j]
    <3>1. i \in 1 .. m
      BY <2>2, <2>10
    <3>2. CASE j = m + 1
      BY <3>1, <3>2, <2>4, <2>6, <2>7
    <3>3. CASE j # m + 1
      <4>1. j \in 1 .. m
        BY <3>3, <2>2
      <4> QED
        BY <4>1, <3>1, <2>6, <2>10, <1>2 DEF KeptBy
    <3> QED
      BY <3>2, <3>3
  <2>11. ASSUME NEW k \in 1 .. n, k \in positions PROVE \E i \in 1 .. Len(q) : g[i] = k
    <3>1. CASE k = n
      BY <3>1, <2>2, <2>7
    <3>2. CASE k # n
      <4>1. k \in 1 .. n - 1
        BY <3>2
      <4>2. PICK i \in 1 .. m : f[i] = k
        BY <4>1, <2>11, <1>2 DEF KeptBy
      <4> QED
        BY <4>2, <2>2, <2>6
    <3> QED
      BY <3>1, <3>2
  <2>12. KeptBy(q, g, s, positions, n)
    BY <2>8, <2>9, <2>10, <2>11 DEF KeptBy
  <2> QED
    BY <2>1, <2>2, <2>12, <1>4
<1> QED
  BY <1>3, <1>4

\* A function that says what is kept exists and is what Keeping uses.
LEMMA KeptExists ==
    ASSUME NEW S, NEW s \in Seq(S), NEW positions
    PROVE  \E kept : KeptUpTo(kept, s, positions)
<1>1. PICK n \in Nat : n = Len(s)
  OBVIOUS
<1> DEFINE Part(m, h) == h \in [0 .. m -> Seq(S)] /\ h[0] = <<>>
               /\ \A i \in 1 .. m : h[i] = IF i \in positions THEN Append(h[i - 1], s[i]) ELSE h[i - 1]
<1> DEFINE Bad == {m \in 0 .. n : ~ \E h : Part(m, h)}
<1>2. Bad = {}
  <2> SUFFICES ASSUME Bad # {} PROVE FALSE
    OBVIOUS
  <2>1. PICK m \in Bad : \A k \in Bad : m <= k
    <3>1. Bad \in SUBSET Nat
      OBVIOUS
    <3> HIDE DEF Bad
    <3> QED BY <3>1, LeastNat
  <2>2. m \in 0 .. n /\ ~ \E h : Part(m, h)
    OBVIOUS
  <2>3. m # 0
    <3>1. PICK h : h = [i \in 0 .. 0 |-> <<>>]
      OBVIOUS
    <3>2. h \in [0 .. 0 -> Seq(S)] /\ h[0] = <<>>
      BY <3>1
    <3>3. Part(0, h)
      BY <3>2
    <3> HIDE DEF Part
    <3> QED
      BY <3>3, <2>2
  <2>4. m \in 1 .. n /\ m - 1 \in 0 .. n /\ m - 1 < m
    BY <2>2, <2>3
  <2>5. m - 1 \notin Bad
    <3> HIDE DEF Bad
    <3>1. m - 1 \in Int /\ m \in Int
      BY <2>4
    <3> QED
      BY <2>1, <2>4, <3>1
  <2>6. PICK h : Part(m - 1, h)
    BY <2>4, <2>5
  <2>7. PICK last : last = IF m \in positions THEN Append(h[m - 1], s[m]) ELSE h[m - 1]
    OBVIOUS
  <2>8. h[m - 1] \in Seq(S) /\ s[m] \in S
    BY <2>4, <2>6, <1>1
  <2>9. last \in Seq(S)
    BY <2>7, <2>8
  <2>10. PICK g : g = [i \in 0 .. m |-> IF i = m THEN last ELSE h[i]]
    OBVIOUS
  <2>11. \A i \in 0 .. m - 1 : g[i] = h[i] /\ h[i] \in Seq(S)
    BY <2>4, <2>6, <2>10
  <2>12. g[m] = last
    BY <2>4, <2>10
  <2>13. \A i \in 0 .. m : i \in 0 .. m - 1 \/ i = m
    BY <2>4
  <2>14. g \in [0 .. m -> Seq(S)]
    BY <2>9, <2>10, <2>11, <2>12, <2>13
  <2>15. \A i \in 1 .. m : g[i] = IF i \in positions THEN Append(g[i - 1], s[i]) ELSE g[i - 1]
    <3> SUFFICES ASSUME NEW i \in 1 .. m
                 PROVE  g[i] = IF i \in positions THEN Append(g[i - 1], s[i]) ELSE g[i - 1]
      OBVIOUS
    <3>1. i - 1 \in 0 .. m - 1
      BY <2>4
    <3>2. g[i - 1] = h[i - 1]
      BY <3>1, <2>11
    <3>3. CASE i = m
      BY <3>2, <3>3, <2>7, <2>12
    <3>4. CASE i # m
      <4>1. i \in 1 .. m - 1 /\ i \in 0 .. m - 1
        BY <3>4, <2>4
      <4> QED
        BY <4>1, <3>2, <2>6, <2>11
    <3> QED
      BY <3>3, <3>4
  <2>16. g[0] = <<>>
    BY <2>4, <2>6, <2>11
  <2>17. Part(m, g)
    BY <2>14, <2>15, <2>16
  <2> HIDE DEF Part
  <2> QED
    BY <2>17, <2>2
<1>3. PICK h : Part(n, h)
  <2>1. n \in 0 .. n
    OBVIOUS
  <2> QED
    BY <2>1, <1>2
<1>4. h = [i \in 0 .. Len(s) |->
              IF i = 0 THEN <<>> ELSE IF i \in positions THEN Append(h[i - 1], s[i]) ELSE h[i - 1]]
  <2>1. h = [i \in 0 .. n |-> h[i]]
    BY <1>3
  <2>2. \A i \in 0 .. n : h[i] =
          IF i = 0 THEN <<>> ELSE IF i \in positions THEN Append(h[i - 1], s[i]) ELSE h[i - 1]
    <3> SUFFICES ASSUME NEW i \in 0 .. n, i # 0
                 PROVE  h[i] = IF i \in positions THEN Append(h[i - 1], s[i]) ELSE h[i - 1]
      BY <1>3
    <3>1. i \in 1 .. n
      OBVIOUS
    <3> QED
      BY <3>1, <1>3
  <2> HIDE DEF Part
  <2> QED
    BY <2>1, <2>2, <1>1
<1> QED
  BY <1>4 DEF KeptUpTo

\* Keeping(s, positions) is s at those of its positions, in their order.
LEMMA KeepingIs ==
    ASSUME NEW S, NEW s \in Seq(S), NEW positions
    PROVE  /\ Keeping(s, positions) \in Seq(S)
           /\ \E f : KeptBy(Keeping(s, positions), f, s, positions, Len(s))
<1>1. PICK n \in Nat : n = Len(s)
  OBVIOUS
<1>2. PICK kept : kept = CHOOSE h : KeptUpTo(h, s, positions)
  OBVIOUS
<1>3. KeptUpTo(kept, s, positions)
  BY <1>2, KeptExists
<1>4. Keeping(s, positions) = kept[Len(s)]
  BY <1>2 DEF Keeping, KeptUpTo
<1>5. kept[0] = <<>> /\ \A i \in 1 .. n :
        kept[i] = IF i \in positions THEN Append(kept[i - 1], s[i]) ELSE kept[i - 1]
  <2>1. \A i \in 0 .. n : kept[i] =
          IF i = 0 THEN <<>> ELSE IF i \in positions THEN Append(kept[i - 1], s[i]) ELSE kept[i - 1]
    BY <1>1, <1>3 DEF KeptUpTo
  <2>2. 0 \in 0 .. n /\ \A i \in 1 .. n : i \in 0 .. n /\ i # 0
    OBVIOUS
  <2> QED
    BY <2>1, <2>2
<1> DEFINE Bad == {m \in 0 .. n : ~(kept[m] \in Seq(S) /\ \E f : KeptBy(kept[m], f, s, positions, m))}
<1>6. Bad = {}
  <2> SUFFICES ASSUME Bad # {} PROVE FALSE
    OBVIOUS
  <2>1. PICK m \in Bad : \A k \in Bad : m <= k
    <3>1. Bad \in SUBSET Nat
      OBVIOUS
    <3> HIDE DEF Bad
    <3> QED BY <3>1, LeastNat
  <2>2. m \in 0 .. n /\ ~(kept[m] \in Seq(S) /\ \E f : KeptBy(kept[m], f, s, positions, m))
    OBVIOUS
  <2>3. m # 0
    <3>1. KeptBy(<<>>, <<>>, s, positions, 0)
      BY DEF KeptBy
    <3>2. kept[0] \in Seq(S) /\ KeptBy(kept[0], <<>>, s, positions, 0)
      BY <3>1, <1>5
    <3> QED
      BY <3>2, <2>2
  <2>4. m \in 1 .. n /\ m - 1 \in 0 .. n /\ m - 1 < m
    BY <2>2, <2>3
  <2>5. m - 1 \notin Bad
    <3> HIDE DEF Bad
    <3>1. m - 1 \in Int /\ m \in Int
      BY <2>4
    <3> QED
      BY <2>1, <2>4, <3>1
  <2>6. kept[m - 1] \in Seq(S) /\ \E f : KeptBy(kept[m - 1], f, s, positions, m - 1)
    BY <2>4, <2>5
  <2>7. PICK f : KeptBy(kept[m - 1], f, s, positions, m - 1)
    BY <2>6
  <2>8. m \in 1 .. Len(s)
    BY <2>4, <1>1
  <2>9. PICK r \in Seq(S) : r = kept[m - 1]
    BY <2>6
  <2>10. KeptBy(r, f, s, positions, m - 1)
    BY <2>7, <2>9
  <2>11. /\ m \notin positions => KeptBy(r, f, s, positions, m)
         /\ m \in positions => Append(r, s[m]) \in Seq(S)
                               /\ \E g : KeptBy(Append(r, s[m]), g, s, positions, m)
    BY <2>8, <2>10, KeptStep
  <2>12. kept[m] = IF m \in positions THEN Append(r, s[m]) ELSE r
    BY <2>4, <2>9, <1>5
  <2> QED
    BY <2>11, <2>12, <2>2
<1>7. kept[n] \in Seq(S) /\ \E f : KeptBy(kept[n], f, s, positions, n)
  <2>1. n \in 0 .. n /\ ~(n \in Bad)
    <3> HIDE DEF Bad
    <3> QED BY <1>6
  <2> QED
    BY <2>1
<1> QED
  BY <1>1, <1>4, <1>7

-----------------------------------------------------------------------------
(* The inductive invariant.                                                  *)

WindowRecords ==
    [title : WindowTitles, modal : BOOLEAN, open : BOOLEAN, opened : BOOLEAN, user : Nat]
ActionRecords == [kind : {"click", "close"}, user : Nat]
MenuTypes ==
    /\ windows \in Seq(WindowRecords) /\ menus \in SUBSET Nat
    /\ actions \in Seq(ActionRecords) /\ closeCalls \in Seq(Nat)
    /\ registered \in Nat /\ userClosed \in SUBSET Nat
    /\ modCall \in [MenuThreads -> RegistryCalls \cup {NoCall}]
    /\ menuLock \in {"none", "render", "mod"}
    /\ menuStage \in {"idle", "menus", "windows", "acting"}

\* The render thread holds the registry while it draws, and calls no mod then.
LockInv ==
    /\ menuStage \in {"menus", "windows"} => menuLock = "render" /\ modCall["render"] = NoCall
    /\ menuStage = "idle" => menuLock # "render" /\ modCall["render"] = NoCall /\ actions = <<>>
    /\ menuStage = "acting" /\ menuLock = "render" => modCall["render"] # NoCall

\* Each registration has a user and each window a title of its own.
WindowsApart ==
    /\ \A i \in 1 .. Len(windows) : windows[i].user <= registered
    /\ \A i, j \in 1 .. Len(windows) : i # j =>
          windows[i].title # windows[j].title /\ windows[i].user # windows[j].user
    /\ menuStage # "windows" => \A i \in 1 .. Len(windows) : windows[i].open

\* Users of windows that were closed, from the click to the call of onClose.
GoneUsers == {windows[i].user : i \in {j \in 1 .. Len(windows) : ~windows[j].open}}
WaitingUsers == {actions[i].user : i \in {j \in 1 .. Len(actions) : actions[j].kind = "close"}}
CalledUsers == {closeCalls[i] : i \in 1 .. Len(closeCalls)}
ClosedInv ==
    /\ userClosed = CalledUsers \cup WaitingUsers \cup GoneUsers
    /\ CalledUsers \cap WaitingUsers = {} /\ (CalledUsers \cup WaitingUsers) \cap GoneUsers = {}
    /\ \A u \in userClosed : u <= registered
    /\ \A i \in 1 .. Len(windows) : windows[i].open => windows[i].user \notin userClosed
    /\ \A i, j \in 1 .. Len(closeCalls) : i # j => closeCalls[i] # closeCalls[j]
    /\ \A i, j \in 1 .. Len(actions) :
          i # j /\ actions[i].kind = "close" /\ actions[j].kind = "close" => actions[i].user # actions[j].user
    /\ menuStage # "acting" => \A i \in 1 .. Len(actions) : actions[i].kind # "close"

MenuInv == MenuTypes /\ LockInv /\ WindowsApart /\ ClosedInv

LEMMA MenuStarts == MenuInit => MenuInv
<1> SUFFICES ASSUME MenuInit PROVE MenuInv
  OBVIOUS
<1>1. Len(windows) = 0 /\ Len(actions) = 0 /\ Len(closeCalls) = 0
  BY DEF MenuInit
<1>2. MenuTypes
  <2>1. windows \in Seq(WindowRecords) /\ actions \in Seq(ActionRecords) /\ closeCalls \in Seq(Nat)
    BY DEF MenuInit
  <2> QED
    BY <2>1 DEF MenuInit, MenuTypes
<1>3. LockInv
  BY DEF MenuInit, LockInv, MenuThreads
<1>4. WindowsApart
  BY <1>1 DEF WindowsApart
<1>5. ClosedInv
  <2>1. GoneUsers = {} /\ WaitingUsers = {} /\ CalledUsers = {}
    BY <1>1 DEF GoneUsers, WaitingUsers, CalledUsers
  <2> QED
    BY <1>1, <2>1 DEF MenuInit, ClosedInv
<1> QED
  BY <1>2, <1>3, <1>4, <1>5 DEF MenuInv

LEMMA MenuEnds == MenuInv => MenuSound
<1> SUFFICES ASSUME MenuInv PROVE MenuSound
  OBVIOUS
<1>1. NoSelfWait
  BY DEF MenuInv, LockInv, NoSelfWait
<1>2. menuStage = "acting" /\ menuLock = "render" => modCall["render"] # NoCall
  BY DEF MenuInv, LockInv
<1>3. ASSUME NEW t \in WindowTitles PROVE Cardinality(Titled(t)) <= 1
  <2>1. \A i, j \in Titled(t) : i = j
    BY DEF MenuInv, MenuTypes, WindowsApart, Titled
  <2>2. CASE Titled(t) = {}
    BY <2>2, FS_EmptySet
  <2>3. CASE Titled(t) # {}
    <3>1. PICK i : Titled(t) = {i}
      BY <2>1, <2>3
    <3>2. Cardinality({i}) = 1
      BY FS_Singleton
    <3> QED
      BY <3>1, <3>2
  <2> QED
    BY <2>2, <2>3
<1>4. closeCalls \in Seq(Nat) /\ DOMAIN closeCalls = 1 .. Len(closeCalls)
  BY DEF MenuInv, MenuTypes
<1>5. ToSet(closeCalls) = CalledUsers
  BY <1>4 DEF ToSet, CalledUsers
<1>6. IsInjective(closeCalls)
  BY <1>4 DEF MenuInv, ClosedInv, IsInjective
<1>7. ToSet(closeCalls) \subseteq userClosed
  BY <1>5 DEF MenuInv, ClosedInv
<1>8. menuStage = "idle" => userClosed = ToSet(closeCalls)
  <2> SUFFICES ASSUME menuStage = "idle" PROVE userClosed = CalledUsers
    BY <1>5
  <2>1. WaitingUsers = {}
    BY DEF MenuInv, ClosedInv, WaitingUsers
  <2>2. GoneUsers = {}
    BY DEF MenuInv, WindowsApart, GoneUsers
  <2> QED
    BY <2>1, <2>2 DEF MenuInv, ClosedInv
<1> QED
  BY <1>1, <1>2, <1>3, <1>6, <1>7, <1>8 DEF MenuSound

\* What leaves the windows, the actions and their calls alone.
LEMMA MenuUntouched ==
    ASSUME MenuInv, UNCHANGED <<windows, menus, actions, closeCalls, registered, userClosed, menuStage>>,
           modCall' \in [MenuThreads -> RegistryCalls \cup {NoCall}],
           menuLock' \in {"none", "render", "mod"}, LockInv'
    PROVE  MenuInv'
<1>1. MenuTypes'
  BY DEF MenuInv, MenuTypes
<1>2. WindowsApart'
  BY DEF MenuInv, WindowsApart
<1>3. ClosedInv'
  <2>1. GoneUsers' = GoneUsers /\ WaitingUsers' = WaitingUsers /\ CalledUsers' = CalledUsers
    BY DEF GoneUsers, WaitingUsers, CalledUsers
  <2> QED
    BY <2>1 DEF MenuInv, ClosedInv
<1> QED
  BY <1>1, <1>2, <1>3 DEF MenuInv

LEMMA ModCallsKeeps ==
    ASSUME MenuInv, NEW c \in RegistryCalls, ModCalls(c)
    PROVE  MenuInv'
<1>1. modCall' = [modCall EXCEPT !["mod"] = c]
      /\ UNCHANGED <<windows, menus, menuLock, registered, menuStage, actions, userClosed, closeCalls>>
  BY DEF ModCalls, screenVars
<1>2. modCall \in [MenuThreads -> RegistryCalls \cup {NoCall}] /\ menuLock \in {"none", "render", "mod"}
  BY DEF MenuInv, MenuTypes
<1>3. modCall' \in [MenuThreads -> RegistryCalls \cup {NoCall}] /\ modCall'["render"] = modCall["render"]
  BY <1>1, <1>2 DEF MenuThreads
<1>4. LockInv'
  BY <1>1, <1>3 DEF MenuInv, LockInv
<1> QED
  BY <1>1, <1>2, <1>3, <1>4, MenuUntouched

LEMMA EntersRegistryKeeps ==
    ASSUME MenuInv, NEW t \in MenuThreads, EntersRegistry(t)
    PROVE  MenuInv'
<1>1. /\ modCall[t] # NoCall /\ menuLock = "none" /\ menuLock' = t
      /\ UNCHANGED <<windows, menus, modCall, registered, menuStage, actions, userClosed, closeCalls>>
  BY DEF EntersRegistry, screenVars
<1>2. modCall' \in [MenuThreads -> RegistryCalls \cup {NoCall}] /\ menuLock' \in {"none", "render", "mod"}
  BY <1>1 DEF MenuInv, MenuTypes, MenuThreads
<1>3. LockInv'
  BY <1>1 DEF MenuInv, LockInv, MenuThreads
<1> QED
  BY <1>1, <1>2, <1>3, MenuUntouched

\* A click is collected.
LEMMA CollectsKeeps ==
    ASSUME MenuInv, NEW user \in Nat, Collects("click", user),
           UNCHANGED <<windows, menus, menuLock, menuStage, modCall, registered, userClosed, closeCalls>>,
           menuStage # "idle"
    PROVE  MenuInv'
<1>1. PICK a : a = [kind |-> "click", user |-> user]
  OBVIOUS
<1>2. a \in ActionRecords /\ a.kind # "close"
  BY <1>1 DEF ActionRecords
<1>3. actions \in Seq(ActionRecords) /\ actions' = Append(actions, a)
  BY <1>1 DEF Collects, MenuInv, MenuTypes
<1>4. PICK n \in Nat : n = Len(actions)
  BY <1>3
<1>5. /\ actions' \in Seq(ActionRecords) /\ Len(actions') = n + 1 /\ actions'[n + 1] = a
      /\ \A i \in 1 .. n : actions'[i] = actions[i]
  BY <1>2, <1>3, <1>4
<1>6. \A i \in 1 .. Len(actions') : actions'[i].kind = "close" => i \in 1 .. n /\ actions'[i] = actions[i]
  <2> SUFFICES ASSUME NEW i \in 1 .. Len(actions'), actions'[i].kind = "close"
               PROVE  i \in 1 .. n /\ actions'[i] = actions[i]
    OBVIOUS
  <2>1. i # n + 1
    BY <1>2, <1>5
  <2>2. i \in 1 .. n
    BY <2>1, <1>5
  <2> QED
    BY <2>2, <1>5
<1>7. \A i \in 1 .. n : i \in 1 .. Len(actions')
  BY <1>5
<1>8. WaitingUsers' = WaitingUsers
  BY <1>4, <1>5, <1>6, <1>7 DEF WaitingUsers
<1>9. MenuTypes'
  BY <1>5 DEF MenuInv, MenuTypes
<1>10. LockInv'
  BY DEF MenuInv, LockInv
<1>11. WindowsApart'
  BY DEF MenuInv, WindowsApart
<1>12. GoneUsers' = GoneUsers /\ CalledUsers' = CalledUsers
  BY DEF GoneUsers, CalledUsers
<1>13. \A i, j \in 1 .. Len(actions') :
          i # j /\ actions'[i].kind = "close" /\ actions'[j].kind = "close" => actions'[i].user # actions'[j].user
  BY <1>4, <1>6 DEF MenuInv, ClosedInv
<1>14. menuStage' # "acting" => \A i \in 1 .. Len(actions') : actions'[i].kind # "close"
  BY <1>4, <1>6 DEF MenuInv, ClosedInv
<1>15. ClosedInv'
  BY <1>8, <1>12, <1>13, <1>14 DEF MenuInv, ClosedInv
<1> QED
  BY <1>9, <1>10, <1>11, <1>15 DEF MenuInv

LEMMA ClicksKeep ==
    ASSUME MenuInv,
           (\E user \in menus : ClickMenu(user)) \/ (\E i \in DOMAIN windows : ClickControl(i))
    PROVE  MenuInv'
<1>1. ASSUME NEW user \in menus, ClickMenu(user) PROVE MenuInv'
  <2>1. user \in Nat /\ Collects("click", user) /\ menuStage # "idle"
        /\ UNCHANGED <<windows, menus, menuLock, menuStage, modCall, registered, userClosed, closeCalls>>
    BY <1>1 DEF ClickMenu, Drawing, MenuInv, MenuTypes
  <2> QED
    BY <2>1, CollectsKeeps
<1>2. ASSUME NEW i \in DOMAIN windows, ClickControl(i) PROVE MenuInv'
  <2>1. PICK user \in Nat : user = windows[i].user
    <3>1. windows[i] \in WindowRecords
      BY DEF MenuInv, MenuTypes
    <3> QED
      BY <3>1 DEF WindowRecords
  <2>2. Collects("click", user) /\ menuStage # "idle"
        /\ UNCHANGED <<windows, menus, menuLock, menuStage, modCall, registered, userClosed, closeCalls>>
    BY <1>2, <2>1 DEF ClickControl, Drawing
  <2> QED
    BY <2>2, CollectsKeeps
<1> QED
  BY <1>1, <1>2

LEMMA DrawMenusKeeps ==
    ASSUME MenuInv, DrawMenus
    PROVE  MenuInv'
<1>1. /\ menuStage = "idle" /\ menuStage' = "menus" /\ menuLock' = "render"
      /\ UNCHANGED <<windows, menus, actions, modCall, registered, userClosed, closeCalls>>
  BY DEF DrawMenus
<1>2. GoneUsers' = GoneUsers /\ WaitingUsers' = WaitingUsers /\ CalledUsers' = CalledUsers
  BY <1>1 DEF GoneUsers, WaitingUsers, CalledUsers
<1>3. MenuTypes'
  BY <1>1 DEF MenuInv, MenuTypes
<1>4. LockInv'
  BY <1>1 DEF MenuInv, LockInv
<1>5. WindowsApart'
  BY <1>1 DEF MenuInv, WindowsApart
<1>6. ClosedInv'
  BY <1>1, <1>2 DEF MenuInv, ClosedInv
<1> QED
  BY <1>3, <1>4, <1>5, <1>6 DEF MenuInv

LEMMA ActionsDoneKeeps ==
    ASSUME MenuInv, ActionsDone
    PROVE  MenuInv'
<1>1. /\ menuStage = "acting" /\ menuStage' = "idle" /\ actions = <<>> /\ modCall["render"] = NoCall
      /\ UNCHANGED <<windows, menus, menuLock, actions, modCall, registered, userClosed, closeCalls>>
  BY DEF ActionsDone
<1>2. GoneUsers' = GoneUsers /\ WaitingUsers' = WaitingUsers /\ CalledUsers' = CalledUsers
  BY <1>1 DEF GoneUsers, WaitingUsers, CalledUsers
<1>3. MenuTypes'
  BY <1>1 DEF MenuInv, MenuTypes
<1>4. LockInv'
  BY <1>1 DEF MenuInv, LockInv
<1>5. WindowsApart'
  BY <1>1 DEF MenuInv, WindowsApart
<1>6. Len(actions') = 0
  BY <1>1
<1>7. ClosedInv'
  BY <1>1, <1>2, <1>6 DEF MenuInv, ClosedInv
<1> QED
  BY <1>3, <1>4, <1>5, <1>7 DEF MenuInv

LEMMA DrawWindowsKeeps ==
    ASSUME MenuInv, DrawWindows
    PROVE  MenuInv'
<1>1. /\ menuStage = "idle" /\ menuStage' = "windows" /\ menuLock' = "render"
      /\ windows' = [i \in DOMAIN windows |-> [windows[i] EXCEPT !.opened = @ \/ windows[i].modal]]
      /\ UNCHANGED <<menus, actions, modCall, registered, userClosed, closeCalls>>
  BY DEF DrawWindows
<1>2. PICK n \in Nat : n = Len(windows) /\ DOMAIN windows = 1 .. n
  BY DEF MenuInv, MenuTypes
<1>3. \A i \in 1 .. n : windows[i] \in WindowRecords
  BY <1>2 DEF MenuInv, MenuTypes
<1>4. ASSUME NEW i \in 1 .. n
      PROVE  windows'[i] \in WindowRecords /\ windows'[i].user = windows[i].user
             /\ windows'[i].title = windows[i].title /\ windows'[i].open = windows[i].open
  <2>1. windows'[i] = [windows[i] EXCEPT !.opened = windows[i].opened \/ windows[i].modal]
    BY <1>1, <1>2
  <2>2. windows[i] \in WindowRecords
    BY <1>3
  <2> QED
    BY <2>1, <2>2 DEF WindowRecords
<1>5. windows' \in Seq(WindowRecords) /\ Len(windows') = n
  BY <1>1, <1>2, <1>4
<1>6. GoneUsers' = GoneUsers
  BY <1>2, <1>4, <1>5 DEF GoneUsers
<1>7. WaitingUsers' = WaitingUsers /\ CalledUsers' = CalledUsers
  BY <1>1 DEF WaitingUsers, CalledUsers
<1>8. MenuTypes'
  BY <1>1, <1>5 DEF MenuInv, MenuTypes
<1>9. LockInv'
  BY <1>1 DEF MenuInv, LockInv
<1>10. WindowsApart'
  BY <1>1, <1>2, <1>4, <1>5 DEF MenuInv, WindowsApart
<1>11. \A i \in 1 .. Len(windows') : windows'[i].open => windows'[i].user \notin userClosed'
  BY <1>1, <1>2, <1>4, <1>5 DEF MenuInv, ClosedInv
<1>12. ClosedInv'
  BY <1>1, <1>6, <1>7, <1>11 DEF MenuInv, ClosedInv
<1> QED
  BY <1>8, <1>9, <1>10, <1>12 DEF MenuInv

LEMMA UserClosesKeeps ==
    ASSUME MenuInv, NEW k \in DOMAIN windows, UserCloses(k)
    PROVE  MenuInv'
<1>1. /\ menuStage = "windows" /\ windows[k].open
      /\ windows' = [windows EXCEPT ![k].open = FALSE]
      /\ userClosed' = userClosed \cup {windows[k].user}
      /\ UNCHANGED <<menus, menuLock, menuStage, actions, modCall, registered, closeCalls>>
  BY DEF UserCloses, Drawing, OnScreen
<1>2. PICK n \in Nat : n = Len(windows) /\ DOMAIN windows = 1 .. n
  BY DEF MenuInv, MenuTypes
<1>3. windows \in Seq(WindowRecords) /\ \A i \in 1 .. n : windows[i] \in WindowRecords
  BY <1>2 DEF MenuInv, MenuTypes
<1>4. PICK w : w = [windows[k] EXCEPT !.open = FALSE]
  OBVIOUS
<1>5. w \in WindowRecords /\ w.user = windows[k].user /\ w.title = windows[k].title /\ ~w.open
  <2>1. windows[k] \in WindowRecords
    BY <1>2, <1>3
  <2> QED
    BY <2>1, <1>4 DEF WindowRecords
<1>6. windows' = [windows EXCEPT ![k] = w]
  BY <1>1, <1>4
<1>7. windows' \in Seq(WindowRecords) /\ Len(windows') = n /\ windows'[k] = w
      /\ \A i \in 1 .. n : i # k => windows'[i] = windows[i]
  BY <1>2, <1>3, <1>5, <1>6
<1>8. PICK u \in Nat : u = windows[k].user
  BY <1>2, <1>3 DEF WindowRecords
<1>9. GoneUsers' = GoneUsers \cup {u}
  <2>1. \A i \in 1 .. n : ~windows'[i].open <=> (i = k \/ ~windows[i].open)
    BY <1>5, <1>7
  <2>2. \A i \in 1 .. n : windows'[i].user = windows[i].user
    BY <1>5, <1>7
  <2>3. k \in 1 .. n
    BY <1>2
  <2> QED
    BY <2>1, <2>2, <2>3, <1>2, <1>7, <1>8 DEF GoneUsers
<1>10. WaitingUsers' = WaitingUsers /\ CalledUsers' = CalledUsers
  BY <1>1 DEF WaitingUsers, CalledUsers
<1>11. u \notin userClosed /\ u <= registered
  BY <1>1, <1>2, <1>8 DEF MenuInv, ClosedInv, WindowsApart
<1>12. MenuTypes'
  BY <1>1, <1>7, <1>8 DEF MenuInv, MenuTypes
<1>13. LockInv'
  BY <1>1 DEF MenuInv, LockInv
<1>14. WindowsApart'
  BY <1>1, <1>2, <1>5, <1>7 DEF MenuInv, WindowsApart
<1>15. ASSUME NEW i \in 1 .. n, windows'[i].open PROVE windows'[i].user \notin userClosed'
  <2>1. i # k
    BY <1>15, <1>5, <1>7
  <2>2. windows'[i] = windows[i]
    BY <2>1, <1>7
  <2>3. windows[i].user # u /\ windows[i].user \notin userClosed
    BY <1>2, <1>8, <1>15, <2>1, <2>2 DEF MenuInv, WindowsApart, ClosedInv
  <2> QED
    BY <2>2, <2>3, <1>1, <1>8
<1>16. /\ userClosed' = CalledUsers' \cup WaitingUsers' \cup GoneUsers'
       /\ CalledUsers' \cap WaitingUsers' = {} /\ (CalledUsers' \cup WaitingUsers') \cap GoneUsers' = {}
       /\ \A x \in userClosed' : x <= registered'
  BY <1>1, <1>8, <1>9, <1>10, <1>11 DEF MenuInv, ClosedInv
<1>17. ClosedInv'
  BY <1>1, <1>7, <1>15, <1>16 DEF MenuInv, ClosedInv
<1> QED
  BY <1>12, <1>13, <1>14, <1>17 DEF MenuInv

\* The windows closed while drawing become the calls of onClose.
LEMMA EndDrawingKeeps ==
    ASSUME MenuInv, EndDrawing
    PROVE  MenuInv'
<1>1. /\ menuStage \in {"menus", "windows"} /\ modCall["render"] = NoCall
      /\ windows' = Keeping(windows, OpenWindows) /\ actions' = actions \o Swept
      /\ menuStage' = "acting" /\ menuLock' = "none"
      /\ UNCHANGED <<menus, modCall, registered, userClosed, closeCalls>>
  BY DEF EndDrawing, Drawing, AfterDrawing
<1>2. windows \in Seq(WindowRecords)
  BY DEF MenuInv, MenuTypes
<1>3. PICK n \in Nat : n = Len(windows) /\ DOMAIN windows = 1 .. n
  BY <1>2
<1>4. \A i \in 1 .. n : windows[i] \in WindowRecords
  BY <1>2, <1>3
<1>5. PICK kept : kept = Keeping(windows, OpenWindows)
  OBVIOUS
<1>6. kept \in Seq(WindowRecords) /\ \E f : KeptBy(kept, f, windows, OpenWindows, n)
  BY <1>2, <1>3, <1>5, KeepingIs
<1>7. PICK f : KeptBy(kept, f, windows, OpenWindows, n)
  BY <1>6
<1>8. PICK lost : lost = (1 .. n) \ OpenWindows
  OBVIOUS
<1>9. PICK gone : gone = Keeping(windows, lost)
  OBVIOUS
<1>10. gone \in Seq(WindowRecords) /\ \E g : KeptBy(gone, g, windows, lost, n)
  BY <1>2, <1>3, <1>9, KeepingIs
<1>11. PICK g : KeptBy(gone, g, windows, lost, n)
  BY <1>10
<1>12. PICK m \in Nat : m = Len(gone) /\ DOMAIN gone = 1 .. m
  BY <1>10
<1>13. PICK a \in Nat : a = Len(actions)
  BY DEF MenuInv, MenuTypes
<1>14. actions \in Seq(ActionRecords)
  BY DEF MenuInv, MenuTypes
<1>15. Swept = [k \in 1 .. m |-> [kind |-> "close", user |-> gone[k].user]]
  BY <1>3, <1>8, <1>9, <1>12 DEF Swept, Closes
<1>16. \A k \in 1 .. m : gone[k] \in WindowRecords /\ gone[k].user \in Nat
  <2>1. \A k \in 1 .. m : gone[k] \in WindowRecords
    BY <1>10, <1>12
  <2>2. \A w \in WindowRecords : w.user \in Nat
    BY DEF WindowRecords
  <2> QED
    BY <2>1, <2>2
<1>17. Swept \in Seq(ActionRecords) /\ Len(Swept) = m
  <2>1. \A k \in 1 .. m : Swept[k] \in ActionRecords
    BY <1>15, <1>16 DEF ActionRecords
  <2> QED
    BY <1>15, <2>1
<1>18. \A k \in 1 .. m : Swept[k].kind = "close" /\ Swept[k].user = gone[k].user
  BY <1>15
<1>19. actions' \in Seq(ActionRecords) /\ Len(actions') = a + m
       /\ (\A i \in 1 .. a : actions'[i] = actions[i])
       /\ \A k \in 1 .. m : actions'[a + k] = Swept[k]
  <2>1. PICK s : s = Swept
    OBVIOUS
  <2>2. s \in Seq(ActionRecords) /\ Len(s) = m /\ actions' = actions \o s
    BY <2>1, <1>1, <1>17
  <2>3. actions' \in Seq(ActionRecords) /\ Len(actions') = a + m
    BY <2>2, <1>13, <1>14, ConcatProperties
  <2>4. ASSUME NEW i \in 1 .. a PROVE actions'[i] = actions[i]
    <3>1. i \in 1 .. a + m /\ i <= a
      OBVIOUS
    <3> QED
      BY <3>1, <2>2, <1>13, <1>14
  <2>5. ASSUME NEW k \in 1 .. m PROVE actions'[a + k] = s[k]
    <3>1. a + k \in 1 .. a + m /\ ~(a + k <= a) /\ (a + k) - a = k
      OBVIOUS
    <3> QED
      BY <3>1, <2>2, <1>13, <1>14
  <2> QED
    BY <2>1, <2>3, <2>4, <2>5
<1>20. \A i \in 1 .. a : actions[i].kind # "close"
  BY <1>1, <1>13 DEF MenuInv, ClosedInv
<1>21. \A k \in 1 .. m : g[k] \in 1 .. n /\ ~windows[g[k]].open /\ gone[k] = windows[g[k]]
  BY <1>3, <1>8, <1>11, <1>12 DEF KeptBy, OpenWindows
<1>22. \A j \in 1 .. n : ~windows[j].open => \E k \in 1 .. m : g[k] = j
  BY <1>3, <1>8, <1>11, <1>12 DEF KeptBy, OpenWindows
<1>23. ASSUME NEW i \in 1 .. Len(actions'), actions'[i].kind = "close"
       PROVE  i - a \in 1 .. m /\ actions'[i] = Swept[i - a]
  <2>1. ~(i \in 1 .. a)
    BY <1>19, <1>20, <1>23
  <2>2. i - a \in 1 .. m /\ i = a + (i - a)
    BY <2>1, <1>19
  <2> QED
    BY <2>2, <1>19
<1>24. WaitingUsers' = GoneUsers
  <2>1. ASSUME NEW u \in WaitingUsers' PROVE u \in GoneUsers
    <3>1. PICK i \in 1 .. Len(actions') : actions'[i].kind = "close" /\ actions'[i].user = u
      BY DEF WaitingUsers
    <3>2. PICK k \in 1 .. m : actions'[i] = Swept[k]
      BY <3>1, <1>23
    <3>3. u = windows[g[k]].user /\ g[k] \in 1 .. n /\ ~windows[g[k]].open
      BY <3>1, <3>2, <1>18, <1>21
    <3> QED
      BY <3>3, <1>3 DEF GoneUsers
  <2>2. ASSUME NEW u \in GoneUsers PROVE u \in WaitingUsers'
    <3>1. PICK j \in 1 .. n : ~windows[j].open /\ windows[j].user = u
      BY <1>3 DEF GoneUsers
    <3>2. PICK k \in 1 .. m : g[k] = j
      BY <3>1, <1>22
    <3>3. actions'[a + k].kind = "close" /\ actions'[a + k].user = u /\ a + k \in 1 .. Len(actions')
      BY <3>1, <3>2, <1>18, <1>19, <1>21, SMTT(30)
    <3> QED
      BY <3>3 DEF WaitingUsers
  <2> QED
    BY <2>1, <2>2
<1>25. WaitingUsers = {}
  BY <1>13, <1>20 DEF WaitingUsers
<1>26. PICK l \in Nat : l = Len(kept)
  BY <1>6
<1>27. \A i \in 1 .. l : f[i] \in 1 .. n /\ kept[i] = windows[f[i]] /\ windows[f[i]].open
  BY <1>3, <1>7, <1>26 DEF KeptBy, OpenWindows
<1>28. ASSUME NEW i \in 1 .. l, NEW j \in 1 .. l, i # j PROVE f[i] # f[j]
  <2>1. i < j \/ j < i
    BY <1>28
  <2>2. f[i] < f[j] \/ f[j] < f[i]
    BY <2>1, <1>7, <1>26 DEF KeptBy
  <2>3. f[i] \in Int /\ f[j] \in Int
    BY <1>27
  <2> QED
    BY <2>2, <2>3
<1>29. windows' = kept /\ Len(windows') = l
  BY <1>1, <1>5, <1>26
<1>30. GoneUsers' = {}
  BY <1>27, <1>29 DEF GoneUsers
<1>31. CalledUsers' = CalledUsers
  BY <1>1 DEF CalledUsers
<1>32. MenuTypes'
  BY <1>1, <1>6, <1>19, <1>29 DEF MenuInv, MenuTypes
<1>33. LockInv'
  BY <1>1 DEF LockInv
<1>34. WindowsApart'
  <2>1. \A i \in 1 .. l : kept[i].user <= registered /\ kept[i].open
    BY <1>3, <1>27 DEF MenuInv, WindowsApart
  <2>2. ASSUME NEW i \in 1 .. l, NEW j \in 1 .. l, i # j
        PROVE  kept[i].title # kept[j].title /\ kept[i].user # kept[j].user
    <3>1. PICK p \in 1 .. n, q \in 1 .. n : p = f[i] /\ q = f[j]
      BY <1>27
    <3>2. p # q
      BY <2>2, <3>1, <1>28
    <3>3. windows[p].title # windows[q].title /\ windows[p].user # windows[q].user
      BY <3>2, <1>3 DEF MenuInv, WindowsApart
    <3> QED
      BY <3>1, <3>3, <1>27
  <2> QED
    BY <2>1, <2>2, <1>1, <1>29 DEF WindowsApart
<1>35. \A i \in 1 .. Len(windows') : windows'[i].user \notin userClosed'
  <2>1. \A j \in 1 .. n : windows[j].open => windows[j].user \notin userClosed
    BY <1>3 DEF MenuInv, ClosedInv
  <2>2. ASSUME NEW i \in 1 .. l PROVE kept[i].user \notin userClosed
    <3>1. f[i] \in 1 .. n /\ kept[i] = windows[f[i]] /\ windows[f[i]].open
      BY <1>27
    <3> QED
      BY <2>1, <3>1
  <2> QED
    BY <2>2, <1>1, <1>29
<1>36. ASSUME NEW i \in 1 .. Len(actions'), NEW j \in 1 .. Len(actions'), i # j,
              actions'[i].kind = "close", actions'[j].kind = "close"
       PROVE  actions'[i].user # actions'[j].user
  <2>1. i - a \in 1 .. m /\ j - a \in 1 .. m /\ actions'[i] = Swept[i - a] /\ actions'[j] = Swept[j - a]
    BY <1>23, <1>36
  <2>2. PICK p \in 1 .. m, q \in 1 .. m : p = i - a /\ q = j - a
    BY <2>1
  <2>3. p # q
    BY <2>2, <1>36
  <2>4. g[p] # g[q]
    <3>1. p < q \/ q < p
      BY <2>3
    <3>2. g[p] < g[q] \/ g[q] < g[p]
      BY <3>1, <1>11, <1>12 DEF KeptBy
    <3>3. g[p] \in Int /\ g[q] \in Int
      BY <1>21
    <3> QED
      BY <3>2, <3>3
  <2>5. windows[g[p]].user # windows[g[q]].user
    BY <2>4, <1>3, <1>21 DEF MenuInv, WindowsApart
  <2>6. actions'[i].user = windows[g[p]].user /\ actions'[j].user = windows[g[q]].user
    BY <2>1, <2>2, <1>18, <1>21
  <2> QED
    BY <2>5, <2>6
<1>37. ClosedInv'
  BY <1>1, <1>24, <1>25, <1>30, <1>31, <1>35, <1>36 DEF MenuInv, ClosedInv
<1> QED
  BY <1>32, <1>33, <1>34, <1>37 DEF MenuInv

LEMMA CallbackRunsKeeps ==
    ASSUME MenuInv, NEW c \in RegistryCalls \cup {NoCall}, CallbackRuns(c)
    PROVE  MenuInv'
<1>1. /\ menuStage = "acting" /\ actions # <<>> /\ modCall["render"] = NoCall
      /\ closeCalls' = (IF Head(actions).kind = "close" THEN Append(closeCalls, Head(actions).user) ELSE closeCalls)
      /\ actions' = Tail(actions) /\ modCall' = [modCall EXCEPT !["render"] = c]
      /\ UNCHANGED <<windows, menus, menuLock, menuStage, registered, userClosed>>
  BY DEF CallbackRuns
<1>2. actions \in Seq(ActionRecords) /\ closeCalls \in Seq(Nat)
      /\ modCall \in [MenuThreads -> RegistryCalls \cup {NoCall}]
  BY DEF MenuInv, MenuTypes
<1>3. PICK n \in Nat : n = Len(actions)
  BY <1>2
<1>4. n > 0
  BY <1>1, <1>2, <1>3
<1>5. PICK h : h = actions[1]
  OBVIOUS
<1>6. h \in ActionRecords /\ Head(actions) = h /\ h.user \in Nat
  <2>1. h \in ActionRecords /\ Head(actions) = h
    BY <1>2, <1>3, <1>4, <1>5
  <2> QED
    BY <2>1 DEF ActionRecords
<1>7. actions' \in Seq(ActionRecords) /\ Len(actions') = n - 1 /\ \A i \in 1 .. n - 1 : actions'[i] = actions[i + 1]
  BY <1>1, <1>2, <1>3, <1>4
<1>8. modCall' \in [MenuThreads -> RegistryCalls \cup {NoCall}]
  BY <1>1, <1>2
<1>9. \A i \in 1 .. n : i # 1 => i - 1 \in 1 .. n - 1 /\ actions'[i - 1] = actions[i]
  <2> SUFFICES ASSUME NEW i \in 1 .. n, i # 1 PROVE i - 1 \in 1 .. n - 1 /\ actions'[i - 1] = actions[i]
    OBVIOUS
  <2>1. i - 1 \in 1 .. n - 1 /\ (i - 1) + 1 = i
    BY <1>3
  <2> QED
    BY <2>1, <1>7
<1>10. \A i \in 1 .. n - 1 : i + 1 \in 1 .. n
  BY <1>4
<1>11. GoneUsers' = GoneUsers
  BY <1>1 DEF GoneUsers
<1>12. LockInv'
  <2>1. menuLock # "render"
    BY <1>1 DEF MenuInv, LockInv
  <2> QED
    BY <2>1, <1>1 DEF LockInv
<1>13. WindowsApart'
  BY <1>1 DEF MenuInv, WindowsApart
<1>14. ASSUME NEW i \in 1 .. n - 1, NEW j \in 1 .. n - 1, i # j,
              actions'[i].kind = "close", actions'[j].kind = "close"
       PROVE  actions'[i].user # actions'[j].user
  <2>1. PICK p \in 1 .. n, q \in 1 .. n : p = i + 1 /\ q = j + 1
    BY <1>10
  <2>2. p # q /\ actions'[i] = actions[p] /\ actions'[j] = actions[q]
    BY <2>1, <1>14, <1>7
  <2> QED
    BY <2>2, <1>3, <1>14 DEF MenuInv, ClosedInv
<1>15. CASE h.kind # "close"
  <2>1. closeCalls' = closeCalls
    BY <1>1, <1>6, <1>15
  <2>2. WaitingUsers' = WaitingUsers
    <3>1. ASSUME NEW u \in WaitingUsers PROVE u \in WaitingUsers'
      <4>1. PICK i \in 1 .. n : actions[i].kind = "close" /\ actions[i].user = u
        BY <1>3 DEF WaitingUsers
      <4>2. i # 1
        BY <4>1, <1>5, <1>15
      <4> QED
        BY <4>1, <4>2, <1>7, <1>9 DEF WaitingUsers
    <3>2. ASSUME NEW u \in WaitingUsers' PROVE u \in WaitingUsers
      <4>1. PICK i \in 1 .. n - 1 : actions'[i].kind = "close" /\ actions'[i].user = u
        BY <1>7 DEF WaitingUsers
      <4> QED
        BY <4>1, <1>3, <1>7, <1>10 DEF WaitingUsers
    <3> QED
      BY <3>1, <3>2
  <2>3. CalledUsers' = CalledUsers
    BY <2>1 DEF CalledUsers
  <2>4. MenuTypes'
    BY <2>1, <1>1, <1>7, <1>8 DEF MenuInv, MenuTypes
  <2>5. ClosedInv'
    BY <2>1, <2>2, <2>3, <1>1, <1>7, <1>11, <1>14 DEF MenuInv, ClosedInv
  <2> QED
    BY <2>4, <2>5, <1>12, <1>13 DEF MenuInv
<1>16. CASE h.kind = "close"
  <2>1. PICK u \in Nat : u = h.user
    BY <1>6
  <2>2. closeCalls' = Append(closeCalls, u)
    BY <1>1, <1>6, <1>16, <2>1
  <2>3. PICK l \in Nat : l = Len(closeCalls)
    BY <1>2
  <2>4. closeCalls' \in Seq(Nat) /\ Len(closeCalls') = l + 1 /\ closeCalls'[l + 1] = u
        /\ \A i \in 1 .. l : closeCalls'[i] = closeCalls[i]
    BY <2>2, <2>3, <1>2
  <2>5. \A i \in 1 .. l + 1 : i \in 1 .. l \/ i = l + 1
    OBVIOUS
  <2>6. 1 \in 1 .. n
    BY <1>4
  <2>7. u \in WaitingUsers /\ u \notin CalledUsers /\ u \in userClosed /\ u \notin GoneUsers
    <3>1. u \in WaitingUsers
      BY <2>1, <2>6, <1>3, <1>5, <1>16 DEF WaitingUsers
    <3> QED
      BY <3>1 DEF MenuInv, ClosedInv
  <2>8. CalledUsers' = CalledUsers \cup {u}
    <3>1. \A i \in 1 .. l : i \in 1 .. l + 1
      OBVIOUS
    <3>2. l + 1 \in 1 .. l + 1
      OBVIOUS
    <3> QED
      BY <3>1, <3>2, <2>3, <2>4, <2>5 DEF CalledUsers
  <2>9. WaitingUsers' = WaitingUsers \ {u}
    <3>1. ASSUME NEW x \in WaitingUsers, x # u PROVE x \in WaitingUsers'
      <4>1. PICK i \in 1 .. n : actions[i].kind = "close" /\ actions[i].user = x
        BY <1>3 DEF WaitingUsers
      <4>2. i # 1
        BY <4>1, <3>1, <2>1, <1>5
      <4> QED
        BY <4>1, <4>2, <1>7, <1>9 DEF WaitingUsers
    <3>2. ASSUME NEW x \in WaitingUsers' PROVE x \in WaitingUsers /\ x # u
      <4>1. PICK i \in 1 .. n - 1 : actions'[i].kind = "close" /\ actions'[i].user = x
        BY <1>7 DEF WaitingUsers
      <4>2. PICK p \in 1 .. n : p = i + 1
        BY <1>10
      <4>3. p # 1 /\ actions'[i] = actions[p]
        BY <4>2, <1>7
      <4>4. actions[p].user # actions[1].user
        BY <4>1, <4>3, <2>6, <1>3, <1>5, <1>16 DEF MenuInv, ClosedInv
      <4> QED
        BY <4>1, <4>3, <4>4, <2>1, <1>3, <1>5 DEF WaitingUsers
    <3> QED
      BY <3>1, <3>2
  <2>10. MenuTypes'
    BY <2>4, <1>1, <1>7, <1>8 DEF MenuInv, MenuTypes
  <2>11. ASSUME NEW i \in 1 .. l + 1, NEW j \in 1 .. l + 1, i # j PROVE closeCalls'[i] # closeCalls'[j]
    <3>1. \A k \in 1 .. l : closeCalls[k] # u
      BY <2>3, <2>7 DEF CalledUsers
    <3>2. CASE i = l + 1
      BY <3>1, <3>2, <2>4, <2>5, <2>11
    <3>3. CASE j = l + 1
      BY <3>1, <3>3, <2>4, <2>5, <2>11
    <3>4. CASE i \in 1 .. l /\ j \in 1 .. l
      BY <3>4, <2>3, <2>4, <2>11 DEF MenuInv, ClosedInv
    <3> QED
      BY <3>2, <3>3, <3>4, <2>5
  <2>12. ClosedInv'
    <3>1. /\ userClosed' = CalledUsers' \cup WaitingUsers' \cup GoneUsers'
          /\ CalledUsers' \cap WaitingUsers' = {} /\ (CalledUsers' \cup WaitingUsers') \cap GoneUsers' = {}
      BY <2>7, <2>8, <2>9, <1>1, <1>11 DEF MenuInv, ClosedInv
    <3>2. \A i \in 1 .. Len(windows') : windows'[i].open => windows'[i].user \notin userClosed'
      BY <1>1 DEF MenuInv, ClosedInv
    <3>3. \A x \in userClosed' : x <= registered'
      BY <1>1 DEF MenuInv, ClosedInv
    <3> QED
      BY <3>1, <3>2, <3>3, <2>4, <2>11, <1>1, <1>7, <1>14 DEF ClosedInv
  <2> QED
    BY <2>10, <2>12, <1>12, <1>13 DEF MenuInv
<1> QED
  BY <1>15, <1>16

\* What the registry's functions do to the windows.
LEMMA ShowWindowIs ==
    ASSUME MenuInv, menuStage # "windows", NEW title \in WindowTitles, NEW modal \in BOOLEAN,
           NEW ws, ws = ShowWindow(title, modal, registered + 1)
    PROVE  /\ ws \in Seq(WindowRecords)
           /\ \A i \in 1 .. Len(ws) : ws[i].open /\ ws[i].user <= registered + 1 /\ ws[i].user \notin userClosed
           /\ \A i, j \in 1 .. Len(ws) : i # j => ws[i].title # ws[j].title /\ ws[i].user # ws[j].user
<1>1. windows \in Seq(WindowRecords) /\ registered \in Nat
  BY DEF MenuInv, MenuTypes
<1>2. PICK n \in Nat : n = Len(windows) /\ DOMAIN windows = 1 .. n
  BY <1>1
<1>3. PICK u \in Nat : u = registered + 1
  BY <1>1
<1>4. ASSUME NEW i \in 1 .. n
      PROVE  /\ windows[i] \in WindowRecords /\ windows[i].open
             /\ windows[i].user <= registered /\ windows[i].user \in Nat /\ windows[i].user \notin userClosed
  <2>1. windows[i] \in WindowRecords
    BY <1>1, <1>2
  <2> QED
    BY <2>1, <1>2 DEF WindowRecords, MenuInv, WindowsApart, ClosedInv
<1>5. \A i, j \in 1 .. n : i # j => windows[i].title # windows[j].title /\ windows[i].user # windows[j].user
  BY <1>2 DEF MenuInv, WindowsApart
<1>6. u \notin userClosed
  BY <1>1, <1>3 DEF MenuInv, ClosedInv, MenuTypes
<1>7. CASE Titled(title) # {}
  <2>1. PICK k \in 1 .. n : windows[k].title = title
    BY <1>2, <1>7 DEF Titled
  <2>2. ws = [i \in 1 .. n |-> IF windows[i].title = title
                               THEN [windows[i] EXCEPT !.modal = modal, !.user = u] ELSE windows[i]]
    BY <1>2, <1>3, <1>7 DEF ShowWindow
  <2>3. PICK w : w = [windows[k] EXCEPT !.modal = modal, !.user = u]
    OBVIOUS
  <2>4. w \in WindowRecords /\ w.open /\ w.user = u /\ w.title = title
    <3>1. windows[k] \in WindowRecords /\ windows[k].open
      BY <1>4
    <3> QED
      BY <3>1, <2>1, <2>3 DEF WindowRecords
  <2>5. ws[k] = w
    BY <2>1, <2>2, <2>3
  <2>6. \A i \in 1 .. n : i # k => ws[i] = windows[i]
    <3>1. \A i \in 1 .. n : i # k => windows[i].title # title
      BY <1>5, <2>1
    <3> QED
      BY <3>1, <2>2
  <2>7. \A i \in 1 .. n : ws[i] \in WindowRecords
    BY <1>4, <2>4, <2>5, <2>6
  <2>8. ws \in Seq(WindowRecords) /\ Len(ws) = n
    <3>1. DOMAIN ws = 1 .. n /\ ws = [i \in 1 .. n |-> ws[i]]
      BY <2>2
    <3>2. ws \in [1 .. n -> WindowRecords]
      BY <3>1, <2>7
    <3> QED
      BY <3>2
  <2>9. \A i \in 1 .. n : ws[i].open /\ ws[i].user <= u /\ ws[i].user \notin userClosed
    BY <1>1, <1>3, <1>4, <1>6, <2>4, <2>5, <2>6
  <2>10. \A i \in 1 .. n : ws[i].title = windows[i].title
    BY <2>1, <2>4, <2>5, <2>6
  <2>11. ASSUME NEW i \in 1 .. n, NEW j \in 1 .. n, i # j PROVE ws[i].user # ws[j].user
    <3>1. CASE i # k /\ j # k
      BY <3>1, <2>6, <2>11, <1>5
    <3>2. CASE i = k
      BY <3>2, <2>4, <2>5, <2>6, <2>11, <1>1, <1>3, <1>4
    <3>3. CASE j = k
      BY <3>3, <2>4, <2>5, <2>6, <2>11, <1>1, <1>3, <1>4
    <3> QED
      BY <3>1, <3>2, <3>3
  <2> QED
    BY <2>8, <2>9, <2>10, <2>11, <1>3, <1>5
<1>8. CASE Titled(title) = {}
  <2>1. PICK w : w = [title |-> title, modal |-> modal, open |-> TRUE, opened |-> FALSE, user |-> u]
    OBVIOUS
  <2>2. w \in WindowRecords /\ w.open /\ w.user = u /\ w.title = title
    BY <2>1 DEF WindowRecords
  <2>3. ws = Append(windows, w)
    BY <1>3, <1>8, <2>1 DEF ShowWindow
  <2>4. ws \in Seq(WindowRecords) /\ Len(ws) = n + 1 /\ ws[n + 1] = w /\ \A i \in 1 .. n : ws[i] = windows[i]
    BY <2>2, <2>3, <1>1, <1>2
  <2>5. \A i \in 1 .. n + 1 : i \in 1 .. n \/ i = n + 1
    OBVIOUS
  <2>6. \A i \in 1 .. n : windows[i].title # title
    BY <1>2, <1>8 DEF Titled
  <2>7. ASSUME NEW i \in 1 .. n + 1 PROVE ws[i].open /\ ws[i].user <= u /\ ws[i].user \notin userClosed
    <3>1. CASE i = n + 1
      BY <3>1, <1>6, <2>2, <2>4
    <3>2. CASE i \in 1 .. n
      BY <3>2, <1>1, <1>3, <1>4, <2>4
    <3> QED
      BY <3>1, <3>2, <2>5
  <2>8. ASSUME NEW i \in 1 .. n + 1, NEW j \in 1 .. n + 1, i # j
        PROVE  ws[i].title # ws[j].title /\ ws[i].user # ws[j].user
    <3>1. CASE i \in 1 .. n /\ j \in 1 .. n
      BY <3>1, <2>4, <2>8, <1>5
    <3>2. CASE i = n + 1
      <4>1. j \in 1 .. n
        BY <3>2, <2>5, <2>8
      <4> QED
        BY <4>1, <3>2, <2>2, <2>4, <2>6, <1>1, <1>3, <1>4
    <3>3. CASE j = n + 1
      <4>1. i \in 1 .. n
        BY <3>3, <2>5, <2>8
      <4> QED
        BY <4>1, <3>3, <2>2, <2>4, <2>6, <1>1, <1>3, <1>4, SMTT(30)
    <3> QED
      BY <3>1, <3>2, <3>3, <2>5
  <2> QED
    BY <2>4, <2>7, <2>8, <1>3
<1> QED
  BY <1>7, <1>8

LEMMA CloseWindowIs ==
    ASSUME MenuInv, menuStage # "windows", NEW title, NEW ws, ws = CloseWindow(title)
    PROVE  /\ ws \in Seq(WindowRecords)
           /\ \A i \in 1 .. Len(ws) : ws[i].open /\ ws[i].user <= registered /\ ws[i].user \notin userClosed
           /\ \A i, j \in 1 .. Len(ws) : i # j => ws[i].title # ws[j].title /\ ws[i].user # ws[j].user
<1>1. windows \in Seq(WindowRecords)
  BY DEF MenuInv, MenuTypes
<1>2. PICK n \in Nat : n = Len(windows)
  BY <1>1
<1>3. PICK P : P = DOMAIN windows \ Titled(title)
  OBVIOUS
<1>4. ws = Keeping(windows, P)
  BY <1>3 DEF CloseWindow
<1>5. ws \in Seq(WindowRecords) /\ \E f : KeptBy(ws, f, windows, P, n)
  BY <1>1, <1>2, <1>4, KeepingIs
<1>6. PICK f : KeptBy(ws, f, windows, P, n)
  BY <1>5
<1>7. PICK l \in Nat : l = Len(ws)
  BY <1>5
<1>8. \A i \in 1 .. l : f[i] \in 1 .. n /\ ws[i] = windows[f[i]]
  BY <1>6, <1>7 DEF KeptBy
<1>9. \A i \in 1 .. n : windows[i].open /\ windows[i].user <= registered /\ windows[i].user \notin userClosed
  BY <1>2 DEF MenuInv, WindowsApart, ClosedInv
<1>10. ASSUME NEW i \in 1 .. l, NEW j \in 1 .. l, i # j
       PROVE  ws[i].title # ws[j].title /\ ws[i].user # ws[j].user
  <2>1. PICK p \in 1 .. n, q \in 1 .. n : p = f[i] /\ q = f[j]
    BY <1>8
  <2>2. i < j \/ j < i
    BY <1>10
  <2>3. f[i] < f[j] \/ f[j] < f[i]
    BY <2>2, <1>6, <1>7 DEF KeptBy
  <2>4. p # q
    BY <2>1, <2>3
  <2>5. windows[p].title # windows[q].title /\ windows[p].user # windows[q].user
    BY <2>4, <1>2 DEF MenuInv, WindowsApart
  <2> QED
    BY <2>1, <2>5, <1>8
<1> QED
  BY <1>5, <1>7, <1>8, <1>9, <1>10

LEMMA LeavesRegistryKeeps ==
    ASSUME MenuInv, NEW t \in MenuThreads, LeavesRegistry(t)
    PROVE  MenuInv'
<1>1. PICK c : c = modCall[t]
  OBVIOUS
<1>2. /\ menuLock = t /\ c # NoCall /\ (t = "render" => menuStage = "acting")
      /\ menuLock' = "none" /\ modCall' = [modCall EXCEPT ![t] = NoCall]
      /\ UNCHANGED <<menuStage, actions, userClosed, closeCalls>>
  BY <1>1 DEF LeavesRegistry, screenVars
<1>3. /\ windows' = CASE c.op = "show" -> ShowWindow(c.title, c.modal, registered + 1)
                      [] c.op = "close" -> CloseWindow(c.title)
                      [] OTHER -> windows
      /\ menus' = IF c.op = "addmenu" THEN menus \cup {registered + 1} ELSE menus
      /\ registered' = IF c.op = "close" THEN registered ELSE registered + 1
  BY <1>1 DEF LeavesRegistry
<1>4. menuStage # "windows" /\ menuStage # "menus"
  BY <1>2 DEF MenuInv, LockInv, MenuThreads
<1>5. modCall \in [MenuThreads -> RegistryCalls \cup {NoCall}] /\ c \in RegistryCalls /\ registered \in Nat
      /\ menus \in SUBSET Nat
  BY <1>1, <1>2 DEF MenuInv, MenuTypes
<1>6. c.op = "show" => c.title \in WindowTitles /\ c.modal \in BOOLEAN
  <2>1. \/ c \in [op : {"show"}, title : WindowTitles, modal : BOOLEAN]
        \/ c \in [op : {"close"}, title : WindowTitles, modal : {FALSE}]
        \/ c.op = "addmenu"
    <3>1. PICK a : a = [op |-> "addmenu", title |-> "", modal |-> FALSE]
      OBVIOUS
    <3>2. a.op = "addmenu"
      BY <3>1
    <3>3. \/ c \in [op : {"show"}, title : WindowTitles, modal : BOOLEAN]
          \/ c \in [op : {"close"}, title : WindowTitles, modal : {FALSE}]
          \/ c = a
      BY <1>5, <3>1, Zenon DEF RegistryCalls
    <3> QED
      BY <3>2, <3>3
  <2> QED
    BY <2>1
<1>7. registered' \in Nat /\ registered <= registered' /\ menus' \in SUBSET Nat
  BY <1>3, <1>5
<1>8. PICK ws : ws = windows'
  OBVIOUS
<1>9. /\ ws \in Seq(WindowRecords)
      /\ \A i \in 1 .. Len(ws) : ws[i].open /\ ws[i].user <= registered' /\ ws[i].user \notin userClosed
      /\ \A i, j \in 1 .. Len(ws) : i # j => ws[i].title # ws[j].title /\ ws[i].user # ws[j].user
  <2>1. CASE c.op = "show"
    <3>1. ws = ShowWindow(c.title, c.modal, registered + 1) /\ registered' = registered + 1
      BY <2>1, <1>3, <1>8
    <3> QED
      BY <3>1, <2>1, <1>4, <1>6, ShowWindowIs
  <2>2. CASE c.op = "close"
    <3>1. ws = CloseWindow(c.title) /\ registered' = registered
      BY <2>2, <1>3, <1>8
    <3> QED
      BY <3>1, <1>4, CloseWindowIs
  <2>3. CASE c.op # "show" /\ c.op # "close"
    <3>1. ws = windows /\ registered' = registered + 1
      BY <2>3, <1>3, <1>8
    <3>2. \A i \in 1 .. Len(ws) : ws[i] \in WindowRecords
      BY <3>1 DEF MenuInv, MenuTypes
    <3>3. \A i \in 1 .. Len(ws) : ws[i].user \in Nat
      BY <3>2 DEF WindowRecords
    <3>4. ws \in Seq(WindowRecords)
      BY <3>1 DEF MenuInv, MenuTypes
    <3>5. \A i \in 1 .. Len(ws) : ws[i].open /\ ws[i].user <= registered /\ ws[i].user \notin userClosed
      BY <3>1, <1>4 DEF MenuInv, WindowsApart, ClosedInv
    <3>6. \A i \in 1 .. Len(ws) : ws[i].user <= registered'
      BY <3>1, <3>3, <3>5, <1>5
    <3>7. \A i, j \in 1 .. Len(ws) : i # j => ws[i].title # ws[j].title /\ ws[i].user # ws[j].user
      BY <3>1 DEF MenuInv, WindowsApart
    <3> QED
      BY <3>4, <3>5, <3>6, <3>7
  <2> QED
    BY <2>1, <2>2, <2>3
<1>10. GoneUsers = {} /\ GoneUsers' = {}
  <2>1. GoneUsers = {}
    BY <1>4 DEF MenuInv, WindowsApart, GoneUsers
  <2>2. GoneUsers' = {}
    BY <1>8, <1>9 DEF GoneUsers
  <2> QED
    BY <2>1, <2>2
<1>11. WaitingUsers' = WaitingUsers /\ CalledUsers' = CalledUsers
  BY <1>2 DEF WaitingUsers, CalledUsers
<1>12. modCall' \in [MenuThreads -> RegistryCalls \cup {NoCall}]
  BY <1>2, <1>5
<1>13. MenuTypes'
  BY <1>2, <1>7, <1>8, <1>9, <1>12 DEF MenuInv, MenuTypes
<1>14. LockInv'
  <2>1. menuStage = "idle" => t # "render" /\ modCall["render"] = NoCall /\ actions = <<>>
    BY <1>2 DEF MenuInv, LockInv
  <2>2. menuStage = "idle" => modCall'["render"] = NoCall
    BY <2>1, <1>2, <1>5 DEF MenuThreads
  <2> QED
    BY <2>1, <2>2, <1>2, <1>4 DEF LockInv
<1>15. WindowsApart'
  BY <1>8, <1>9 DEF WindowsApart
<1>16. \A u \in userClosed' : u <= registered'
  <2>1. userClosed \in SUBSET Nat /\ \A u \in userClosed : u <= registered
    BY DEF MenuInv, MenuTypes, ClosedInv
  <2> QED
    BY <2>1, <1>2, <1>5, <1>7
<1>17. ClosedInv'
  BY <1>2, <1>8, <1>9, <1>10, <1>11, <1>16 DEF MenuInv, ClosedInv
<1> QED
  BY <1>13, <1>14, <1>15, <1>17 DEF MenuInv

LEMMA MenuKeeps == MenuInv /\ SelectedRegisters = FALSE /\ [MenuNext]_menuVars => MenuInv'
<1> SUFFICES ASSUME MenuInv, SelectedRegisters = FALSE, [MenuNext]_menuVars PROVE MenuInv'
  OBVIOUS
<1>1. CASE UNCHANGED menuVars
  <2>1. UNCHANGED <<windows, menus, menuLock, menuStage, actions, modCall, registered, userClosed, closeCalls>>
    BY <1>1 DEF menuVars
  <2>2. LockInv' /\ menuLock' \in {"none", "render", "mod"}
        /\ modCall' \in [MenuThreads -> RegistryCalls \cup {NoCall}]
    BY <2>1 DEF MenuInv, LockInv, MenuTypes
  <2> QED
    BY <2>1, <2>2, MenuUntouched
<1>2. CASE MenuNext
  <2>1. ASSUME NEW c \in RegistryCalls, CallSelected(c) PROVE FALSE
    BY <2>1 DEF CallSelected
  <2> QED
    BY <1>2, <2>1, ModCallsKeeps, EntersRegistryKeeps, LeavesRegistryKeeps, DrawMenusKeeps, DrawWindowsKeeps,
       EndDrawingKeeps, ActionsDoneKeeps, ClicksKeep, UserClosesKeeps, CallbackRunsKeeps DEF MenuNext
<1> QED
  BY <1>1, <1>2

\* While no mod uses the registry from its selected callback: however mods
\* register, show and close windows, from their threads and from the callbacks,
\* callbacks run unlocked, a title names one window, and onClose is called once
\* for each window the user closed and no other (render_mod_windows).
THEOREM MenuStaysSound == SelectedRegisters = FALSE => (MenuSpec => []MenuSound)
<1> SUFFICES ASSUME SelectedRegisters = FALSE PROVE MenuSpec => []MenuSound
  OBVIOUS
<1>1. MenuInit => MenuInv
  BY MenuStarts
<1>2. MenuInv /\ [MenuNext]_menuVars => MenuInv'
  BY MenuKeeps
<1>3. MenuInv => MenuSound
  BY MenuEnds
<1> QED
  BY <1>1, <1>2, <1>3, PTL DEF MenuSpec

-----------------------------------------------------------------------------
(* The Java VM.  The units of a string are its characters and, once more,    *)
(* those of two.                                                             *)

LEMMA MinOfClasses ==
    ASSUME NEW T \in SUBSET Nat, T # {}
    PROVE  Min(T) \in T
BY LeastNat DEF Min

\* How many units the characters at positions T have.
UnitsAt(s, T) == Cardinality(T) + Cardinality({i \in T : s[i] = 2})

LEMMA UnitsStep ==
    ASSUME NEW n \in Nat, NEW s \in [1 .. n -> 1 .. 2], NEW T \in SUBSET (1 .. n), NEW x \in T
    PROVE  /\ UnitsAt(s, T) \in Nat /\ UnitsAt(s, T \ {x}) \in Nat
           /\ UnitsAt(s, T) = s[x] + UnitsAt(s, T \ {x})
           /\ Cardinality(T \ {x}) \in Nat /\ Cardinality(T) = Cardinality(T \ {x}) + 1
<1>1. IsFiniteSet(1 .. n)
  <2>1. 1 \in Int /\ n \in Int
    OBVIOUS
  <2> QED
    BY <2>1, FS_Interval
<1>2. PICK U : U = {i \in T : s[i] = 2}
  OBVIOUS
<1>3. IsFiniteSet(T) /\ IsFiniteSet(U) /\ IsFiniteSet(T \ {x}) /\ IsFiniteSet(U \ {x})
  <2>1. U \subseteq 1 .. n /\ T \ {x} \subseteq 1 .. n /\ U \ {x} \subseteq 1 .. n
    BY <1>2
  <2> QED
    BY <1>1, <2>1, FS_Subset
<1>4. Cardinality(T) \in Nat /\ Cardinality(U) \in Nat /\ Cardinality(T \ {x}) \in Nat
      /\ Cardinality(U \ {x}) \in Nat
  BY <1>3, FS_CardinalityType
<1>5. Cardinality(T \ {x}) = Cardinality(T) - 1
  BY <1>3, FS_RemoveElement
<1>6. {i \in T \ {x} : s[i] = 2} = U \ {x}
  BY <1>2
<1>10. UnitsAt(s, T) = Cardinality(T) + Cardinality(U)
  BY <1>2 DEF UnitsAt
<1>11. UnitsAt(s, T \ {x}) = Cardinality(T \ {x}) + Cardinality(U \ {x})
  BY <1>6 DEF UnitsAt
<1>7. s[x] \in 1 .. 2
  OBVIOUS
<1>8. CASE s[x] = 2
  <2>1. x \in U
    BY <1>2, <1>8
  <2>2. Cardinality(U \ {x}) = Cardinality(U) - 1
    BY <2>1, <1>3, FS_RemoveElement
  <2> QED
    BY <2>2, <1>4, <1>5, <1>8, <1>10, <1>11
<1>9. CASE s[x] = 1
  <2>1. U \ {x} = U
    BY <1>2, <1>9
  <2>2. Cardinality(U \ {x}) = Cardinality(U)
    BY <2>1
  <2> QED
    BY <2>2, <1>4, <1>5, <1>9, <1>10, <1>11
<1> QED
  BY <1>7, <1>8, <1>9

LEMMA UnitsAre ==
    ASSUME NEW n \in Nat, NEW s \in [1 .. n -> 1 .. 2]
    PROVE  Units(s) = UnitsAt(s, 1 .. n)
<1> DEFINE Step(g) == g = [t \in SUBSET (1 .. n) |->
          IF t = {} THEN 0 ELSE s[CHOOSE x \in t : TRUE] + g[t \ {CHOOSE x \in t : TRUE}]]
<1>1. PICK h : h = [t \in SUBSET (1 .. n) |-> UnitsAt(s, t)]
  OBVIOUS
<1>2. UnitsAt(s, {}) = 0
  <2>1. {i \in {} : s[i] = 2} = {}
    OBVIOUS
  <2> QED
    BY <2>1, FS_EmptySet DEF UnitsAt
<1>3. Step(h)
  <2>1. ASSUME NEW t \in SUBSET (1 .. n)
        PROVE  h[t] = IF t = {} THEN 0 ELSE s[CHOOSE x \in t : TRUE] + h[t \ {CHOOSE x \in t : TRUE}]
    <3>1. CASE t = {}
      BY <3>1, <1>1, <1>2
    <3>2. CASE t # {}
      <4>1. PICK x \in t : x = CHOOSE y \in t : TRUE
        BY <3>2
      <4>2. t \ {x} \in SUBSET (1 .. n)
        OBVIOUS
      <4>3. h[t] = UnitsAt(s, t) /\ h[t \ {x}] = UnitsAt(s, t \ {x})
        BY <4>2, <1>1
      <4>4. UnitsAt(s, t) = s[x] + UnitsAt(s, t \ {x})
        BY UnitsStep
      <4> QED
        BY <3>2, <4>1, <4>3, <4>4
    <3> QED
      BY <3>1, <3>2
  <2>2. h = [t \in SUBSET (1 .. n) |-> h[t]]
    BY <1>1
  <2> HIDE DEF Step
  <2>3. h = [t \in SUBSET (1 .. n) |->
          IF t = {} THEN 0 ELSE s[CHOOSE x \in t : TRUE] + h[t \ {CHOOSE x \in t : TRUE}]]
    BY <2>1, <2>2
  <2> QED
    BY <2>3 DEF Step
<1>4. PICK f : f = CHOOSE g : Step(g)
  OBVIOUS
<1>5. Step(f)
  <2> HIDE DEF Step
  <2> QED BY <1>3, <1>4
<1>6. Units(s) = f[1 .. n]
  <2>1. DOMAIN s = 1 .. n
    OBVIOUS
  <2> QED
    BY <2>1, <1>4 DEF Units, FoldSeq, FoldFunction, FoldFunctionOnSet, MapThenFoldSet
<1>7. \A t \in SUBSET (1 .. n) :
         f[t] = IF t = {} THEN 0 ELSE s[CHOOSE x \in t : TRUE] + f[t \ {CHOOSE x \in t : TRUE}]
  BY <1>5
<1>8. \A t \in SUBSET (1 .. n) :
         h[t] = IF t = {} THEN 0 ELSE s[CHOOSE x \in t : TRUE] + h[t \ {CHOOSE x \in t : TRUE}]
  BY <1>3
<1> HIDE DEF Step
<1> DEFINE Bad == {m \in Nat : \E t \in SUBSET (1 .. n) : Cardinality(t) = m /\ f[t] # h[t]}
<1>9. Bad = {}
  <2> SUFFICES ASSUME Bad # {} PROVE FALSE
    OBVIOUS
  <2>1. PICK m \in Bad : \A k \in Bad : m <= k
    <3>1. Bad \in SUBSET Nat
      OBVIOUS
    <3> HIDE DEF Bad
    <3> QED BY <3>1, LeastNat
  <2>2. PICK t \in SUBSET (1 .. n) : Cardinality(t) = m /\ f[t] # h[t]
    OBVIOUS
  <2>3. t # {}
    BY <2>2, <1>7, <1>8
  <2>4. PICK x \in t : x = CHOOSE y \in t : TRUE
    BY <2>3
  <2>5. PICK r \in SUBSET (1 .. n) : r = t \ {x}
    OBVIOUS
  <2>6. Cardinality(r) \in Nat /\ m = Cardinality(r) + 1
    BY <2>2, <2>5, UnitsStep, SMTT(30)
  <2>7. Cardinality(r) \notin Bad
    <3> HIDE DEF Bad
    <3> QED BY <2>1, <2>6
  <2>8. f[r] = h[r]
    BY <2>6, <2>7
  <2>9. f[t] = s[x] + f[r]
    BY <2>3, <2>4, <2>5, <1>7
  <2>10. h[t] = s[x] + h[r]
    BY <2>3, <2>4, <2>5, <1>8
  <2> QED
    BY <2>2, <2>8, <2>9, <2>10
<1>10. PICK all \in SUBSET (1 .. n) : all = 1 .. n
  OBVIOUS
<1>11. IsFiniteSet(all)
  <2>1. 1 \in Int /\ n \in Int
    OBVIOUS
  <2> QED
    BY <2>1, <1>10, FS_Interval
<1>12. Cardinality(all) \in Nat /\ Cardinality(all) \notin Bad
  <2>1. Cardinality(all) \in Nat
    BY <1>11, FS_CardinalityType
  <2> HIDE DEF Bad
  <2> QED
    BY <2>1, <1>9
<1>13. f[all] = h[all]
  BY <1>12
<1> QED
  BY <1>1, <1>6, <1>10, <1>13

LEMMA UnitsBound ==
    ASSUME NEW n \in Nat, NEW s \in [1 .. n -> 1 .. 2]
    PROVE  /\ Units(s) \in Nat /\ n <= Units(s)
           /\ (\A i \in 1 .. n : s[i] = 1) => Units(s) = n
<1>1. IsFiniteSet(1 .. n) /\ Cardinality(1 .. n) = n
  <2>1. 1 \in Int /\ n \in Int
    OBVIOUS
  <2>2. IsFiniteSet(1 .. n) /\ Cardinality(1 .. n) = IF 1 > n THEN 0 ELSE n - 1 + 1
    BY <2>1, FS_Interval
  <2> QED
    BY <2>2
<1>2. PICK U : U = {i \in 1 .. n : s[i] = 2}
  OBVIOUS
<1>3. Cardinality(U) \in Nat
  <2>1. U \subseteq 1 .. n
    BY <1>2
  <2> QED
    BY <2>1, <1>1, FS_Subset, FS_CardinalityType
<1>4. Units(s) = n + Cardinality(U)
  BY <1>1, <1>2, UnitsAre DEF UnitsAt
<1>5. (\A i \in 1 .. n : s[i] = 1) => Cardinality(U) = 0
  <2>1. (\A i \in 1 .. n : s[i] = 1) => U = {}
    BY <1>2
  <2> QED
    BY <2>1, FS_EmptySet
<1> QED
  BY <1>3, <1>4, <1>5

\* What is copied of strings and arrays, and what is read of arguments.
MinOf(a, b) == IF a <= b THEN a ELSE b
LEMMA MinOfTwo ==
    ASSUME NEW a \in Nat, NEW b \in Nat
    PROVE  Min({a, b}) = MinOf(a, b)
<1>1. PICK T : T = {a, b}
  OBVIOUS
<1>2. PICK m \in T : m = MinOf(a, b) /\ \A y \in T : m <= y
  BY <1>1 DEF MinOf
<1>3. PICK k : k = Min(T)
  OBVIOUS
<1>4. k \in T /\ \A y \in T : k <= y
  BY <1>2, <1>3 DEF Min
<1>5. m <= k /\ k <= m /\ m \in Nat /\ k \in Nat
  BY <1>1, <1>2, <1>4
<1> QED
  BY <1>1, <1>2, <1>3, <1>5

LEMMA WholeStringFits ==
    ASSUME NEW n \in Nat, NEW s \in [1 .. n -> 1 .. 2]
    PROVE  Units(GetStringRegion(s, 0, GetStringLength(s))) = GetStringLength(s)
<1>1. Units(s) \in Nat /\ n <= Units(s)
  BY UnitsBound
<1>2. s \in Seq(1 .. 2) /\ Len(s) = n
  OBVIOUS
<1>3. PICK u \in Nat : u = Units(s)
  BY <1>1
<1>4. 0 + u \in Nat /\ MinOf(0 + u, n) = n
  BY <1>1, <1>3 DEF MinOf
<1>5. Min({0 + u, Len(s)}) = n
  BY <1>2, <1>4, MinOfTwo
<1>6. GetStringRegion(s, 0, u) = SubSeq(s, 1, n)
  <2>1. GetStringRegion(s, 0, u) = SubSeq(s, 0 + 1, Min({0 + u, Len(s)}))
    BY DEF GetStringRegion
  <2>2. 0 + 1 = 1
    OBVIOUS
  <2> QED
    BY <2>1, <2>2, <1>5, Zenon
<1>7. SubSeq(s, 1, n) = s
  BY <1>2
<1> QED
  BY <1>3, <1>6, <1>7 DEF GetStringLength

LEMMA PlainPartFits ==
    ASSUME NEW n \in Nat, NEW s \in [1 .. n -> 1 .. 2], \A i \in 1 .. n : s[i] = 1,
           NEW start \in Nat, NEW len \in Nat
    PROVE  Units(GetStringRegion(s, start, len)) <= len
<1>1. s \in Seq(1 .. 2) /\ Len(s) = n
  OBVIOUS
<1>2. PICK last \in Nat : last = MinOf(start + len, n)
  BY DEF MinOf
<1>3. Min({start + len, Len(s)}) = last
  BY <1>1, <1>2, MinOfTwo
<1>4. PICK r : r = SubSeq(s, start + 1, last)
  OBVIOUS
<1>5. PICK l \in Nat : l = IF start + 1 <= last THEN last - start ELSE 0
  <2>1. start + 1 <= last => last - start \in Nat
    OBVIOUS
  <2> QED
    BY <2>1
<1>6. last <= n /\ last <= start + len
  BY <1>2 DEF MinOf
<1>7. l <= len
  BY <1>5, <1>6
<1>8. r \in [1 .. l -> 1 .. 2] /\ \A i \in 1 .. l : r[i] = 1
  <2>1. r = [i \in 1 .. l |-> s[i + start]]
    <3>1. CASE start + 1 <= last
      <4>1. \A i \in 1 .. l : i + (start + 1) - 1 = i + start
        OBVIOUS
      <4>2. last - (start + 1) + 1 = l
        BY <3>1, <1>5
      <4> QED
        BY <4>1, <4>2, <1>4 DEF SubSeq
    <3>2. CASE ~(start + 1 <= last)
      BY <3>2, <1>1, <1>4, <1>5
    <3> QED
      BY <3>1, <3>2
  <2>2. \A i \in 1 .. l : i + start \in 1 .. n
    BY <1>5, <1>6
  <2> QED
    BY <2>1, <2>2
<1>9. Units(r) = l
  BY <1>8, UnitsBound
<1> QED
  BY <1>3, <1>4, <1>7, <1>9 DEF GetStringRegion

LEMMA CopyStaysInside ==
    ASSUME NEW size \in Nat, NEW start \in Nat, NEW len \in Nat, Copied(size, start, len) > 0
    PROVE  start + Copied(size, start, len) <= size
<1>1. PICK space \in Nat : space = IF size < start THEN 0 ELSE size - start
  OBVIOUS
<1>2. Copied(size, start, len) = MinOf(len, space)
  BY <1>1, MinOfTwo DEF Copied
<1> QED
  BY <1>1, <1>2 DEF MinOf

\* The next argument is read from where it is.
ArgAt(first, slot, word, k) ==
    /\ slot \in Nat /\ word \in Nat
    /\ slot < 6 => word = 0
    /\ slot <= 6 /\ slot + word = first + k

Arguments == [slot : Nat, word : Nat, read : Seq(Nat)]
LEMMA ArgStep ==
    ASSUME NEW first \in 0 .. 6, NEW va \in Arguments, ArgAt(first, va.slot, va.word, Len(va.read)),
           NEW vb, vb = read_gp_arg(first, va)
    PROVE  /\ vb \in Arguments /\ vb.read = Append(va.read, Len(va.read) + 1)
           /\ ArgAt(first, vb.slot, vb.word, Len(vb.read))
<1>1. PICK slot \in Nat, word \in Nat, read \in Seq(Nat) : va = [slot |-> slot, word |-> word, read |-> read]
  BY DEF Arguments
<1>0. PICK k \in Nat, m \in Nat : k = Len(read) /\ m = k + 1
  BY <1>1
<1>2. /\ slot < 6 => word = 0
      /\ slot <= 6 /\ slot + word = first + k
      /\ va.slot = slot /\ va.word = word /\ va.read = read
  BY <1>0, <1>1 DEF ArgAt
<1>3. CASE slot < 6
  <2>1. slot + 1 - first = m
    BY <1>0, <1>2, <1>3
  <2>2. PICK r : r = Append(read, m) /\ r \in Seq(Nat)
    BY AppendProperties
  <2>3. vb = [slot |-> slot + 1, word |-> word, read |-> r]
    BY <2>1, <2>2, <1>1, <1>3 DEF read_gp_arg, Saved, RegisterSlots
  <2>4. vb \in Arguments /\ vb.slot = slot + 1 /\ vb.word = word /\ vb.read = r
    BY <2>2, <2>3 DEF Arguments
  <2>5. Len(r) = m
    BY <1>0, <2>2, AppendProperties
  <2> QED
    BY <2>2, <2>4, <2>5, <1>0, <1>2, <1>3 DEF ArgAt
<1>4. CASE ~(slot < 6)
  <2>1. word + 1 + 6 - first = m
    BY <1>0, <1>2, <1>4
  <2>2. PICK r : r = Append(read, m) /\ r \in Seq(Nat)
    BY AppendProperties
  <2>3. vb = [slot |-> slot, word |-> word + 1, read |-> r]
    BY <2>1, <2>2, <1>1, <1>4 DEF read_gp_arg, Saved, RegisterSlots
  <2>4. vb \in Arguments /\ vb.slot = slot /\ vb.word = word + 1 /\ vb.read = r
    BY <2>2, <2>3 DEF Arguments
  <2>5. Len(r) = m
    BY <1>0, <2>2, AppendProperties
  <2> QED
    BY <2>2, <2>4, <2>5, <1>0, <1>2, <1>4 DEF ArgAt
<1> QED
  BY <1>3, <1>4

LEMMA ArgumentsInOrder ==
    ASSUME NEW first \in 0 .. RegisterSlots
    PROVE  read_va_list_args(first) = <<1, 2, 3, 4>>
<1>1. first \in 0 .. 6 /\ first \in Nat
  BY DEF RegisterSlots
<1>2. PICK a0 : a0 = [slot |-> first, word |-> 0, read |-> << >>]
  OBVIOUS
<1>3. a0 \in Arguments /\ a0.read = << >> /\ ArgAt(first, a0.slot, a0.word, Len(a0.read))
  BY <1>1, <1>2 DEF ArgAt, Arguments
<1>4. PICK a1 : a1 = read_gp_arg(first, a0)
  OBVIOUS
<1>5. a1 \in Arguments /\ a1.read = Append(a0.read, Len(a0.read) + 1)
      /\ ArgAt(first, a1.slot, a1.word, Len(a1.read))
  BY <1>1, <1>3, <1>4, ArgStep
<1>6. PICK a2 : a2 = read_gp_arg(first, a1)
  OBVIOUS
<1>7. a2 \in Arguments /\ a2.read = Append(a1.read, Len(a1.read) + 1)
      /\ ArgAt(first, a2.slot, a2.word, Len(a2.read))
  BY <1>1, <1>5, <1>6, ArgStep
<1>8. PICK a3 : a3 = read_gp_arg(first, a2)
  OBVIOUS
<1>9. a3 \in Arguments /\ a3.read = Append(a2.read, Len(a2.read) + 1)
      /\ ArgAt(first, a3.slot, a3.word, Len(a3.read))
  BY <1>1, <1>7, <1>8, ArgStep
<1>10. PICK a4 : a4 = read_gp_arg(first, a3)
  OBVIOUS
<1>11. a4 \in Arguments /\ a4.read = Append(a3.read, Len(a3.read) + 1)
  BY <1>1, <1>9, <1>10, ArgStep
<1>12. read_va_list_args(first) = a4.read
  BY <1>2, <1>4, <1>6, <1>8, <1>10 DEF read_va_list_args
<1>13. PICK r1, r2, r3, r4 \in Seq(Nat) : r1 = a1.read /\ r2 = a2.read /\ r3 = a3.read /\ r4 = a4.read
  BY <1>5, <1>7, <1>9, <1>11 DEF Arguments
<1>14. /\ r1 = Append(<< >>, Len(<< >>) + 1) /\ r2 = Append(r1, Len(r1) + 1)
       /\ r3 = Append(r2, Len(r2) + 1) /\ r4 = Append(r3, Len(r3) + 1)
  BY <1>3, <1>5, <1>7, <1>9, <1>11, <1>13
<1>15. Len(r1) = 1 /\ r1[1] = 1
  BY <1>14
<1>16. Len(r2) = 2 /\ r2[1] = 1 /\ r2[2] = 2
  BY <1>13, <1>14, <1>15
<1>17. Len(r3) = 3 /\ r3[1] = 1 /\ r3[2] = 2 /\ r3[3] = 3
  BY <1>13, <1>14, <1>16
<1>19. Len(r4) = 4 /\ r4[1] = 1 /\ r4[2] = 2 /\ r4[3] = 3 /\ r4[4] = 4
  BY <1>13, <1>14, <1>17
<1>18. r4 = <<1, 2, 3, 4>>
  BY <1>13, <1>19
<1> QED
  BY <1>12, <1>13, <1>18

LEMMA DataIsSound == DataSound
<1>1. \A first \in 0 .. RegisterSlots : read_va_list_args(first) = <<1, 2, 3, 4>>
  BY ArgumentsInOrder
<1>2. ASSUME NEW s \in Strings PROVE \E n \in Nat : s \in [1 .. n -> 1 .. 2]
  <2>1. PICK n \in 0 .. 3 : s \in [1 .. n -> 1 .. 2]
    BY DEF Strings
  <2>2. n \in Nat
    OBVIOUS
  <2> QED
    BY <2>1, <2>2
<1>3. \A s \in Strings : Units(GetStringRegion(s, 0, GetStringLength(s))) = GetStringLength(s)
  BY <1>2, WholeStringFits
<1>4. ASSUME NEW s \in Strings, Range(s) \subseteq {1}, NEW start \in 0 .. 4, NEW len \in 0 .. 4
      PROVE  Units(GetStringRegion(s, start, len)) <= len
  <2>1. PICK n \in Nat : s \in [1 .. n -> 1 .. 2]
    BY <1>2
  <2>2. \A i \in 1 .. n : s[i] = 1
    BY <1>4, <2>1 DEF Range
  <2>3. start \in Nat /\ len \in Nat
    OBVIOUS
  <2> QED
    BY <2>1, <2>2, <2>3, PlainPartFits
<1>5. ASSUME NEW size \in 0 .. 4, NEW start \in 0 .. 4, NEW len \in 0 .. 4, Copied(size, start, len) > 0
      PROVE  start + Copied(size, start, len) <= size
  <2>1. size \in Nat /\ start \in Nat /\ len \in Nat
    OBVIOUS
  <2> QED
    BY <2>1, <1>5, CopyStaysInside
<1> QED
  BY <1>1, <1>3, <1>4, <1>5 DEF DataSound

-----------------------------------------------------------------------------
(* The inductive invariant.                                                  *)

AnyNative == NativeFns \cup {NoNative}
IdRecords == [class : Classes, method : Methods, native : AnyNative, owned : BOOLEAN]
ObjectRecords == [class : Classes \cup {0}, ran : AnyNative, wanted : AnyNative]
CallStates ==
    {Out} \cup [at : {"missed"}, id : IdRecords] \cup [at : {"constructing"}, object : Nat]
VmTypes ==
    /\ handles \in Seq(Classes) /\ ids \in Seq(IdRecords) /\ objects \in Seq(ObjectRecords)
    /\ vmCall \in [VmThreads -> CallStates]

\* Each class with a handle has one table, with what was last registered.
TablesInv ==
    /\ \A i, j \in 1 .. Len(handles) : i # j => handles[i] # handles[j]
    /\ DOMAIN tables = Range(handles) /\ DOMAIN lastGiven = Classes
    /\ \A c \in DOMAIN tables : tables[c] = lastGiven[c]
    /\ \A c \in Classes : c \notin DOMAIN tables => lastGiven[c] = NoTable
    /\ \A c \in DOMAIN tables : \A m \in DOMAIN tables[c] :
          tables[c][m] \in NativeFns /\ tables[c][m].class = c /\ tables[c][m].method = m

\* A native behind an id was registered under its name, for the class that was
\* asked if that had the method.
IdKept(id) ==
    /\ id.native # NoNative =>
          /\ id.native.method = id.method /\ id.native.class \in DOMAIN tables
          /\ id.method \in DOMAIN tables[id.native.class]
    /\ id.owned => id.native # NoNative /\ id.native.class = id.class
IdsInv ==
    /\ \A k \in 1 .. Len(ids) : IdKept(ids[k])
    /\ \A t \in VmThreads : vmCall[t].at = "missed" => vmCall[t].id.native = NoNative /\ ~vmCall[t].id.owned

ObjectsInv ==
    /\ \A o \in 1 .. Len(objects) : objects[o].ran # NoNative =>
          objects[o].ran.class = objects[o].class /\ objects[o].wanted # NoNative
    /\ \A t \in VmThreads : vmCall[t].at = "constructing" =>
          vmCall[t].object \in 1 .. Len(objects) /\ objects[vmCall[t].object].wanted # NoNative

VmInv == VmTypes /\ TablesInv /\ IdsInv /\ ObjectsInv

LEMMA NativeTypes ==
    /\ NativeFns \subseteq [class : Classes, method : STRING, by : STRING]
    /\ NoNative \notin NativeFns
    /\ \A f \in NativeFns : f.method \in Methods /\ f.class \in Classes
<1>1. NativeFns \subseteq [class : Classes, method : STRING, by : STRING]
  BY VmAssumption DEF NativeFns
<1>2. \A f \in NativeFns : f.method \in Methods /\ f.class \in Classes
  BY <1>1 DEF Methods
<1>3. NoNative.class = 0 /\ 0 \notin Classes
  BY VmAssumption DEF NoNative
<1> QED
  BY <1>1, <1>2, <1>3

LEMMA VmStarts == VmInit => VmInv
<1> SUFFICES ASSUME VmInit PROVE VmInv
  OBVIOUS
<1>1. Len(handles) = 0 /\ Len(ids) = 0 /\ Len(objects) = 0 /\ handles = << >> /\ ids = << >> /\ objects = << >>
  BY DEF VmInit
<1>2. \A t \in VmThreads : vmCall[t] = Out /\ vmCall[t].at = "game"
  BY DEF VmInit, Out
<1>3. vmCall \in [VmThreads -> CallStates]
  BY DEF VmInit, CallStates
<1>4. VmTypes
  BY <1>1, <1>3 DEF VmTypes
<1>5. Range(handles) = {} /\ DOMAIN tables = {} /\ lastGiven = [c \in Classes |-> NoTable]
  BY <1>1 DEF Range, VmInit, NoTable
<1>6. TablesInv
  BY <1>1, <1>5 DEF TablesInv
<1>7. IdsInv /\ ObjectsInv
  BY <1>1, <1>2 DEF IdsInv, ObjectsInv
<1> QED
  BY <1>4, <1>6, <1>7 DEF VmInv

LEMMA HavingIs ==
    ASSUME VmInv, NEW m, Having(m) # {}
    PROVE  /\ Min(Having(m)) \in Having(m) /\ Min(Having(m)) \in DOMAIN tables
           /\ tables[Min(Having(m))][m] \in NativeFns /\ tables[Min(Having(m))][m].method = m
           /\ tables[Min(Having(m))][m].class = Min(Having(m))
<1>1. DOMAIN tables \subseteq Classes
  BY DEF VmInv, VmTypes, TablesInv, Range
<1>2. Having(m) \in SUBSET Nat
  BY <1>1, VmAssumption DEF Having
<1>3. PICK c : c = Min(Having(m))
  OBVIOUS
<1>4. c \in Having(m)
  BY <1>2, <1>3, MinOfClasses
<1>5. c \in DOMAIN tables /\ m \in DOMAIN tables[c]
  BY <1>4 DEF Having
<1> QED
  BY <1>3, <1>4, <1>5 DEF VmInv, TablesInv

LEMMA IdsAreSound == VmInv => IdsSound
<1> SUFFICES ASSUME VmInv, NEW k \in DOMAIN ids
             PROVE  LET f == find_method(ids[k]) IN
                      /\ f # NoNative => f.method = ids[k].method
                      /\ Having(ids[k].method) # {} /\ ~Replaced(ids[k]) => f # NoNative
                      /\ ids[k].owned /\ ~Replaced(ids[k]) => f.class = ids[k].class
  BY DEF IdsSound
<1>1. k \in 1 .. Len(ids)
  BY DEF VmInv, VmTypes
<1>2. PICK id : id = ids[k]
  OBVIOUS
<1>3. id \in IdRecords /\ IdKept(id)
  BY <1>1, <1>2 DEF VmInv, VmTypes, IdsInv
<1>4. PICK f : f = find_method(id)
  OBVIOUS
<1>5. CASE id.native = NoNative
  <2>5. ~ \E c \in DOMAIN tables : id.native \in Range(tables[c])
    BY <1>5, NativeTypes DEF Range, VmInv, TablesInv
  <2>1. f = Resolved(id.method)
    BY <1>4, <1>5, <2>5 DEF find_method
  <2>2. ~id.owned
    BY <1>3, <1>5 DEF IdKept
  <2>3. CASE Having(id.method) = {}
    <3>1. f = NoNative
      BY <2>1, <2>3 DEF Resolved
    <3> QED
      BY <2>2, <2>3, <3>1, <1>2, <1>4
  <2>4. CASE Having(id.method) # {}
    <3>1. f = tables[Min(Having(id.method))][id.method]
      BY <2>1, <2>4 DEF Resolved
    <3>2. f \in NativeFns /\ f.method = id.method
      BY <3>1, <2>4, HavingIs
    <3> QED
      BY <2>2, <3>2, <1>2, <1>4, NativeTypes
  <2> QED
    BY <2>3, <2>4
<1>6. CASE id.native # NoNative
  <2>1. id.native.method = id.method /\ id.native.class \in DOMAIN tables
        /\ id.method \in DOMAIN tables[id.native.class]
    BY <1>3, <1>6 DEF IdKept
  <2>2. f = id.native \/ f = NoNative
    BY <1>4, <1>6 DEF find_method
  <2>3. ~Replaced(id) => f = id.native
    <3> SUFFICES ASSUME ~Replaced(id) PROVE f = id.native
      OBVIOUS
    <3>1. tables[id.native.class][id.method] = id.native
      BY <1>6 DEF Replaced
    <3>2. id.native \in Range(tables[id.native.class])
      BY <2>1, <3>1 DEF Range
    <3>3. \E c \in DOMAIN tables : id.native \in Range(tables[c])
      BY <2>1, <3>2
    <3> QED
      BY <3>3, <1>4, <1>6 DEF find_method
  <2>4. id.owned => id.native.class = id.class
    BY <1>3 DEF IdKept
  <2> QED
    BY <2>1, <2>2, <2>3, <2>4, <1>2, <1>4, <1>6
<1> QED
  BY <1>5, <1>6

LEMMA VmEnds == VmInv => JavaSound
<1> SUFFICES ASSUME VmInv PROVE JavaSound
  OBVIOUS
<1>1. DOMAIN handles = 1 .. Len(handles) /\ DOMAIN objects = 1 .. Len(objects)
  BY DEF VmInv, VmTypes
<1>2. TablesKept
  BY <1>1 DEF VmInv, TablesInv, TablesKept, IsInjective
<1>3. ObjectsSound
  BY <1>1 DEF VmInv, ObjectsInv, ObjectsSound
<1> QED
  BY <1>2, <1>3, IdsAreSound, DataIsSound DEF JavaSound

-----------------------------------------------------------------------------
(* The steps.                                                                *)

\* Tables that only grow keep what is known of the ids.
LEMMA IdsKeep ==
    ASSUME VmInv, UNCHANGED <<ids, vmCall>>,
           \A c \in DOMAIN tables : c \in DOMAIN tables' /\ \A m \in DOMAIN tables[c] : m \in DOMAIN tables'[c]
    PROVE  IdsInv'
<1>1. ASSUME NEW k \in 1 .. Len(ids) PROVE IdKept(ids[k])'
  <2>1. IdKept(ids[k])
    BY DEF VmInv, IdsInv
  <2> QED
    BY <2>1 DEF IdKept
<1>2. \A k \in 1 .. Len(ids') : IdKept(ids[k])'
  BY <1>1
<1> QED
  BY <1>2 DEF VmInv, IdsInv

LEMMA ClassEntered ==
    ASSUME VmInv, NEW c \in Classes, Known(c) = {}, handles' = Append(handles, c),
           DOMAIN tables' = DOMAIN tables \cup {c}, tables'[c] = NoTable,
           \A k \in DOMAIN tables : tables'[k] = tables[k],
           UNCHANGED <<lastGiven, ids, objects, vmCall>>
    PROVE  VmInv'
<1>1. PICK n \in Nat : n = Len(handles) /\ DOMAIN handles = 1 .. n
  BY DEF VmInv, VmTypes
<1>2. handles \in Seq(Classes)
  BY DEF VmInv, VmTypes
<1>3. handles' \in Seq(Classes) /\ Len(handles') = n + 1 /\ handles'[n + 1] = c
      /\ \A i \in 1 .. n : handles'[i] = handles[i]
  BY <1>1, <1>2, AppendProperties
<1>4. \A i \in 1 .. n + 1 : i \in 1 .. n \/ i = n + 1
  OBVIOUS
<1>5. \A i \in 1 .. n : handles[i] # c
  BY <1>1 DEF Known
<1>6. \A i, j \in 1 .. Len(handles') : i # j => handles'[i] # handles'[j]
  <2> SUFFICES ASSUME NEW i \in 1 .. n + 1, NEW j \in 1 .. n + 1, i # j PROVE handles'[i] # handles'[j]
    BY <1>3
  <2>1. CASE i \in 1 .. n /\ j \in 1 .. n
    BY <2>1, <1>1, <1>3 DEF VmInv, TablesInv
  <2>2. CASE i = n + 1
    BY <2>2, <1>3, <1>4, <1>5
  <2>3. CASE j = n + 1
    BY <2>3, <1>3, <1>4, <1>5
  <2> QED
    BY <2>1, <2>2, <2>3, <1>4
<1>7. Range(handles') = Range(handles) \cup {c}
  <2>1. DOMAIN handles' = 1 .. n + 1
    BY <1>3
  <2>2. \A i \in 1 .. n : i \in 1 .. n + 1
    OBVIOUS
  <2>3. n + 1 \in 1 .. n + 1
    OBVIOUS
  <2> QED
    BY <2>1, <2>2, <2>3, <1>1, <1>3, <1>4 DEF Range
<1>8. c \notin DOMAIN tables
  BY <1>1, <1>5 DEF VmInv, TablesInv, Range
<1>9. DOMAIN tables' = Range(handles') /\ DOMAIN lastGiven' = Classes
  BY <1>7 DEF VmInv, TablesInv
<1>10. ASSUME NEW k \in DOMAIN tables' PROVE tables'[k] = lastGiven'[k]
  <2>1. CASE k \in DOMAIN tables
    BY <2>1 DEF VmInv, TablesInv
  <2>2. CASE k = c
    BY <2>2, <1>8 DEF VmInv, TablesInv
  <2> QED
    BY <2>1, <2>2
<1>11. \A k \in Classes : k \notin DOMAIN tables' => lastGiven'[k] = NoTable
  BY DEF VmInv, TablesInv
<1>12. ASSUME NEW k \in DOMAIN tables', NEW m \in DOMAIN tables'[k]
       PROVE  tables'[k][m] \in NativeFns /\ tables'[k][m].class = k /\ tables'[k][m].method = m
  <2>1. k # c
    BY <1>12 DEF NoTable
  <2>2. k \in DOMAIN tables /\ tables'[k] = tables[k]
    BY <2>1
  <2> QED
    BY <2>2, <1>12 DEF VmInv, TablesInv
<1>13. TablesInv'
  BY <1>6, <1>9, <1>10, <1>11, <1>12 DEF TablesInv
<1>14. VmTypes'
  BY <1>3 DEF VmInv, VmTypes
<1>15. IdsInv'
  BY IdsKeep
<1>16. ObjectsInv'
  BY DEF VmInv, ObjectsInv
<1> QED
  BY <1>13, <1>14, <1>15, <1>16 DEF VmInv

LEMMA FindClassKeeps ==
    ASSUME VmInv, NEW c \in Classes, FindClass(c)
    PROVE  VmInv'
<1>1. /\ Known(c) = {} /\ handles' = Append(handles, c)
      /\ tables' = Extended(tables, [k \in {c} |-> NoTable])
      /\ UNCHANGED <<lastGiven, ids, objects, vmCall>>
  BY DEF FindClass
<1>2. c \notin DOMAIN tables
  BY <1>1 DEF Known, VmInv, TablesInv, Range
<1>3. DOMAIN tables' = DOMAIN tables \cup {c} /\ tables'[c] = NoTable
      /\ \A k \in DOMAIN tables : tables'[k] = tables[k]
  BY <1>1, <1>2 DEF Extended
<1> QED
  BY <1>1, <1>3, ClassEntered

LEMMA GetObjectClassKeeps ==
    ASSUME VmInv, NEW o \in DOMAIN objects, GetObjectClass(o)
    PROVE  VmInv'
<1>1. PICK c : c = ClassOf(o)
  OBVIOUS
<1>2. /\ Known(c) = {} /\ handles' = Append(handles, c)
      /\ tables' = Extended([k \in {c} |-> NoTable], tables)
      /\ UNCHANGED <<lastGiven, ids, objects, vmCall>>
  BY <1>1 DEF GetObjectClass
<1>3. c \in Classes
  <2>1. objects[o] \in ObjectRecords
    BY DEF VmInv, VmTypes
  <2> QED
    BY <2>1, <1>1, VmAssumption DEF ClassOf, ObjectRecords
<1>4. c \notin DOMAIN tables
  BY <1>2 DEF Known, VmInv, TablesInv, Range
<1>5. DOMAIN tables' = DOMAIN tables \cup {c} /\ tables'[c] = NoTable
      /\ \A k \in DOMAIN tables : tables'[k] = tables[k]
  BY <1>2, <1>4 DEF Extended
<1> QED
  BY <1>2, <1>3, <1>5, ClassEntered

LEMMA RegisterNativesKeeps ==
    ASSUME VmInv, NEW h \in DOMAIN handles, NEW fs \in NativeTables, RegisterNativesOf(h, fs)
    PROVE  VmInv'
<1>1. PICK c : c = handles[h]
  OBVIOUS
<1>2. PICK new : new = TableOf(fs)
  OBVIOUS
<1>3. /\ \A f \in fs : f.class = c
      /\ tables' = [tables EXCEPT ![c] = Extended(tables[c], new)]
      /\ lastGiven' = [lastGiven EXCEPT ![c] = Extended(lastGiven[c], new)]
      /\ UNCHANGED <<handles, ids, objects, vmCall>>
  BY <1>1, <1>2 DEF RegisterNativesOf
<1>4. c \in DOMAIN tables /\ c \in Classes /\ tables[c] = lastGiven[c]
  <2>1. c \in Range(handles) /\ c \in Classes
    BY <1>1 DEF Range, VmInv, VmTypes
  <2> QED
    BY <2>1 DEF VmInv, TablesInv
<1>5. fs \subseteq NativeFns
  BY DEF NativeFns
<1>6. ASSUME NEW m \in DOMAIN new
      PROVE  new[m] \in NativeFns /\ new[m].class = c /\ new[m].method = m
  <2>1. new = [x \in {f.method : f \in fs} |-> CHOOSE f \in fs : f.method = x]
    BY <1>2 DEF TableOf
  <2>2. m \in {f.method : f \in fs}
    BY <2>1
  <2>3. \E f \in fs : f.method = m
    BY <2>2
  <2>4. new[m] = CHOOSE f \in fs : f.method = m
    BY <2>1, <2>2
  <2>5. new[m] \in fs /\ new[m].method = m
    BY <2>3, <2>4
  <2> QED
    BY <2>5, <1>3, <1>5
<1>7. PICK ext : ext = Extended(tables[c], new)
  OBVIOUS
<1>8. tables' = [tables EXCEPT ![c] = ext] /\ lastGiven' = [lastGiven EXCEPT ![c] = ext]
  BY <1>3, <1>4, <1>7
<1>9. DOMAIN ext = DOMAIN tables[c] \cup DOMAIN new
      /\ \A m \in DOMAIN ext : ext[m] = IF m \in DOMAIN new THEN new[m] ELSE tables[c][m]
  BY <1>7 DEF Extended
<1>10. DOMAIN tables' = DOMAIN tables /\ tables'[c] = ext /\ \A k \in DOMAIN tables : k # c => tables'[k] = tables[k]
  BY <1>4, <1>8
<1>11. DOMAIN lastGiven' = Classes /\ lastGiven'[c] = ext /\ \A k \in Classes : k # c => lastGiven'[k] = lastGiven[k]
  BY <1>4, <1>8 DEF VmInv, TablesInv
<1>12. DOMAIN tables \subseteq Classes
  BY DEF VmInv, VmTypes, TablesInv, Range
<1>13. ASSUME NEW m \in DOMAIN ext
       PROVE  ext[m] \in NativeFns /\ ext[m].class = c /\ ext[m].method = m
  <2>1. CASE m \in DOMAIN new
    BY <2>1, <1>6, <1>9
  <2>2. CASE m \notin DOMAIN new
    <3>1. m \in DOMAIN tables[c] /\ ext[m] = tables[c][m]
      BY <2>2, <1>9
    <3> QED
      BY <3>1, <1>4 DEF VmInv, TablesInv
  <2> QED
    BY <2>1, <2>2
<1>14. \A k \in DOMAIN tables' : tables'[k] = lastGiven'[k]
  BY <1>10, <1>11, <1>12 DEF VmInv, TablesInv
<1>15. \A k \in Classes : k \notin DOMAIN tables' => lastGiven'[k] = NoTable
  BY <1>4, <1>10, <1>11 DEF VmInv, TablesInv
<1>16. ASSUME NEW k \in DOMAIN tables', NEW m \in DOMAIN tables'[k]
       PROVE  tables'[k][m] \in NativeFns /\ tables'[k][m].class = k /\ tables'[k][m].method = m
  <2>1. CASE k = c
    BY <2>1, <1>10, <1>13, <1>16
  <2>2. CASE k # c
    <3>1. k \in DOMAIN tables /\ tables'[k] = tables[k]
      BY <2>2, <1>10
    <3> QED
      BY <3>1, <1>16 DEF VmInv, TablesInv
  <2> QED
    BY <2>1, <2>2
<1>17. TablesInv'
  BY <1>3, <1>10, <1>11, <1>14, <1>15, <1>16 DEF VmInv, TablesInv
<1>18. IdsInv'
  <2>1. \A k \in DOMAIN tables : k \in DOMAIN tables' /\ \A m \in DOMAIN tables[k] : m \in DOMAIN tables'[k]
    BY <1>9, <1>10
  <2> QED
    BY <2>1, <1>3, IdsKeep
<1>19. VmTypes' /\ ObjectsInv'
  BY <1>3 DEF VmInv, VmTypes, ObjectsInv
<1> QED
  BY <1>17, <1>18, <1>19 DEF VmInv

\* One more id.
LEMMA IdEntered ==
    ASSUME VmInv, NEW id \in IdRecords, IdKept(id), ids' = Append(ids, id),
           UNCHANGED <<handles, tables, lastGiven, objects>>
    PROVE  /\ ids' \in Seq(IdRecords) /\ TablesInv'
           /\ \A k \in 1 .. Len(ids') : IdKept(ids[k])'
<1>1. PICK n \in Nat : n = Len(ids)
  BY DEF VmInv, VmTypes
<1>2. ids \in Seq(IdRecords)
  BY DEF VmInv, VmTypes
<1>3. ids' \in Seq(IdRecords) /\ Len(ids') = n + 1 /\ ids'[n + 1] = id
      /\ \A k \in 1 .. n : ids'[k] = ids[k]
  BY <1>1, <1>2, AppendProperties
<1>4. \A k \in 1 .. n + 1 : k \in 1 .. n \/ k = n + 1
  OBVIOUS
<1>5. ASSUME NEW k \in 1 .. Len(ids') PROVE IdKept(ids[k])'
  <2>1. CASE k \in 1 .. n
    <3>1. IdKept(ids[k]) /\ ids'[k] = ids[k]
      BY <2>1, <1>1, <1>3 DEF VmInv, IdsInv
    <3> QED
      BY <3>1 DEF IdKept
  <2>2. CASE k = n + 1
    BY <2>2, <1>3 DEF IdKept
  <2> QED
    BY <2>1, <2>2, <1>3, <1>4
<1>6. TablesInv'
  BY DEF VmInv, TablesInv
<1> QED
  BY <1>3, <1>5, <1>6

LEMMA GetMethodIDKeeps ==
    ASSUME VmInv, NEW t \in VmThreads, NEW c \in Range(handles), NEW m \in Methods, GetMethodID(t, c, m)
    PROVE  VmInv'
<1>1. c \in Classes /\ UNCHANGED <<handles, tables, lastGiven, objects>> /\ vmCall[t].at = "game"
  BY DEF Range, VmInv, VmTypes, GetMethodID, MayUse
<1>2. CASE Having(m) # {}
  <2>1. PICK b : b = Best(c, m)
    OBVIOUS
  <2>2. b \in Having(m) /\ (c \in Having(m) => b = c)
    BY <1>2, <2>1, HavingIs DEF Best
  <2>3. b \in DOMAIN tables /\ m \in DOMAIN tables[b]
    BY <2>2 DEF Having
  <2>4. PICK f : f = tables[b][m]
    OBVIOUS
  <2>5. f \in NativeFns /\ f.class = b /\ f.method = m
    BY <2>3, <2>4 DEF VmInv, TablesInv
  <2>6. PICK id : id = MethodId(c, m, f)
    OBVIOUS
  <2>7. id.class = c /\ id.method = m /\ id.native = f /\ id.owned = (c \in Having(m))
    BY <2>6 DEF MethodId
  <2>8. id \in IdRecords
    BY <1>1, <2>5, <2>6 DEF MethodId, IdRecords, AnyNative
  <2>9. IdKept(id)
    BY <2>2, <2>3, <2>5, <2>7, NativeTypes DEF IdKept
  <2>10. ids' = Append(ids, id) /\ UNCHANGED vmCall
    BY <1>2, <2>1, <2>4, <2>6 DEF GetMethodID
  <2>11. ids' \in Seq(IdRecords) /\ TablesInv' /\ \A k \in 1 .. Len(ids') : IdKept(ids[k])'
    BY <1>1, <2>8, <2>9, <2>10, IdEntered
  <2>12. VmTypes'
    BY <1>1, <2>10, <2>11 DEF VmInv, VmTypes
  <2>13. IdsInv'
    BY <2>10, <2>11 DEF VmInv, IdsInv
  <2>14. ObjectsInv'
    BY <1>1, <2>10 DEF VmInv, ObjectsInv
  <2> QED
    BY <2>11, <2>12, <2>13, <2>14 DEF VmInv
<1>3. CASE Having(m) = {}
  <2>1. PICK id : id = MethodId(c, m, NoNative)
    OBVIOUS
  <2>2. id \in IdRecords /\ id.native = NoNative /\ ~id.owned
    <3>1. (c \in Having(m)) = FALSE
      BY <1>3
    <3>2. id = [class |-> c, method |-> m, native |-> NoNative, owned |-> FALSE]
      BY <2>1, <3>1 DEF MethodId
    <3> QED
      BY <1>1, <3>2 DEF IdRecords, AnyNative
  <2>3. PICK state : state = [at |-> "missed", id |-> id]
    OBVIOUS
  <2>4. state \in CallStates /\ state.at = "missed" /\ state.id = id
    BY <2>2, <2>3 DEF CallStates
  <2>5. vmCall' = [vmCall EXCEPT ![t] = state] /\ UNCHANGED ids
    BY <1>3, <2>1, <2>3 DEF GetMethodID
  <2>6. vmCall \in [VmThreads -> CallStates]
    BY DEF VmInv, VmTypes
  <2>7. vmCall'[t] = state /\ \A u \in VmThreads : u # t => vmCall'[u] = vmCall[u]
    BY <2>5, <2>6
  <2>8. VmTypes'
    BY <1>1, <2>4, <2>5, <2>6 DEF VmInv, VmTypes
  <2>9. ASSUME NEW k \in 1 .. Len(ids') PROVE IdKept(ids[k])'
    <3>1. IdKept(ids[k])
      BY <2>5 DEF VmInv, IdsInv
    <3> QED
      BY <3>1, <1>1, <2>5 DEF IdKept
  <2>10. ASSUME NEW u \in VmThreads, vmCall'[u].at = "missed"
         PROVE  vmCall'[u].id.native = NoNative /\ ~vmCall'[u].id.owned
    <3>1. CASE u = t
      BY <3>1, <2>2, <2>4, <2>7
    <3>2. CASE u # t
      BY <3>2, <2>7, <2>10 DEF VmInv, IdsInv
    <3> QED
      BY <3>1, <3>2
  <2>11. ASSUME NEW u \in VmThreads, vmCall'[u].at = "constructing"
         PROVE  vmCall'[u].object \in 1 .. Len(objects') /\ objects'[vmCall'[u].object].wanted # NoNative
    <3>1. u # t
      BY <2>4, <2>7, <2>11
    <3> QED
      BY <3>1, <1>1, <2>7, <2>11 DEF VmInv, ObjectsInv
  <2>12. IdsInv'
    BY <2>9, <2>10 DEF IdsInv
  <2>13. ObjectsInv'
    BY <1>1, <2>11 DEF VmInv, ObjectsInv
  <2>14. TablesInv'
    BY <1>1 DEF VmInv, TablesInv
  <2> QED
    BY <2>8, <2>12, <2>13, <2>14 DEF VmInv
<1> QED
  BY <1>2, <1>3

\* A thread that goes back to the game leaves what is said of the others.
LEMMA CallEnds ==
    ASSUME VmInv, NEW t \in VmThreads, vmCall' = [vmCall EXCEPT ![t] = Out]
    PROVE  /\ vmCall' \in [VmThreads -> CallStates] /\ vmCall'[t].at = "game"
           /\ \A u \in VmThreads : u # t => vmCall'[u] = vmCall[u]
<1>1. vmCall \in [VmThreads -> CallStates] /\ Out \in CallStates /\ Out.at = "game"
  BY DEF VmInv, VmTypes, CallStates, Out
<1> QED
  BY <1>1

LEMMA IssueTokenKeeps ==
    ASSUME VmInv, NEW t \in VmThreads, IssueToken(t)
    PROVE  VmInv'
<1>1. PICK id : id = vmCall[t].id
  OBVIOUS
<1>2. /\ vmCall[t].at = "missed" /\ ids' = Append(ids, id) /\ vmCall' = [vmCall EXCEPT ![t] = Out]
      /\ UNCHANGED <<handles, tables, lastGiven, objects>>
  BY <1>1 DEF IssueToken
<1>3. id \in IdRecords
  <2>1. vmCall[t] \in CallStates
    BY DEF VmInv, VmTypes
  <2>2. vmCall[t] \in [at : {"missed"}, id : IdRecords]
    BY <2>1, <1>2 DEF CallStates, Out
  <2> QED
    BY <2>2, <1>1
<1>4. IdKept(id)
  BY <1>1, <1>2 DEF VmInv, IdsInv, IdKept
<1>5. ids' \in Seq(IdRecords) /\ TablesInv' /\ \A k \in 1 .. Len(ids') : IdKept(ids[k])'
  BY <1>2, <1>3, <1>4, IdEntered
<1>6. vmCall' \in [VmThreads -> CallStates] /\ vmCall'[t].at = "game"
      /\ \A u \in VmThreads : u # t => vmCall'[u] = vmCall[u]
  BY <1>2, CallEnds
<1>7. VmTypes'
  BY <1>2, <1>5, <1>6 DEF VmInv, VmTypes
<1>8. ASSUME NEW u \in VmThreads, vmCall'[u].at \in {"missed", "constructing"} PROVE vmCall'[u] = vmCall[u]
  BY <1>6, <1>8
<1>9. IdsInv'
  BY <1>5, <1>8 DEF VmInv, IdsInv
<1>10. ObjectsInv'
  BY <1>2, <1>8 DEF VmInv, ObjectsInv
<1> QED
  BY <1>5, <1>7, <1>9, <1>10 DEF VmInv

LEMMA NewObjectKeeps ==
    ASSUME VmInv, NEW t \in VmThreads, NEW c \in Classes \cup {0}, NEW named \in AnyNative,
           NewObject(t, c, named)
    PROVE  VmInv'
<1>1. PICK o : o = [class |-> c, ran |-> NoNative, wanted |-> named]
  OBVIOUS
<1>2. o \in ObjectRecords /\ o.ran = NoNative /\ o.wanted = named
  BY <1>1 DEF ObjectRecords, AnyNative
<1>3. PICK n \in Nat : n = Len(objects)
  BY DEF VmInv, VmTypes
<1>4. PICK state : state = IF named = NoNative THEN vmCall[t] ELSE [at |-> "constructing", object |-> n + 1]
  OBVIOUS
<1>5. /\ vmCall[t].at = "game" /\ objects' = Append(objects, o) /\ vmCall' = [vmCall EXCEPT ![t] = state]
      /\ UNCHANGED <<handles, tables, lastGiven, ids>>
  BY <1>1, <1>3, <1>4 DEF NewObject, MayUse
<1>6. objects \in Seq(ObjectRecords) /\ vmCall \in [VmThreads -> CallStates]
  BY DEF VmInv, VmTypes
<1>7. objects' \in Seq(ObjectRecords) /\ Len(objects') = n + 1 /\ objects'[n + 1] = o
      /\ \A k \in 1 .. n : objects'[k] = objects[k]
  BY <1>2, <1>3, <1>5, <1>6, AppendProperties
<1>8. state \in CallStates
  <2>1. CASE named = NoNative
    BY <2>1, <1>4, <1>6
  <2>2. CASE named # NoNative
    BY <2>2, <1>4 DEF CallStates
  <2> QED
    BY <2>1, <2>2
<1>9. vmCall' \in [VmThreads -> CallStates] /\ vmCall'[t] = state
      /\ \A u \in VmThreads : u # t => vmCall'[u] = vmCall[u]
  BY <1>5, <1>6, <1>8
<1>10. VmTypes'
  BY <1>5, <1>7, <1>9 DEF VmInv, VmTypes
<1>11. state.at # "missed"
  BY <1>4, <1>5
<1>12. IdsInv'
  <2>1. \A k \in 1 .. Len(ids') : IdKept(ids[k])'
    BY <1>5 DEF VmInv, IdsInv, IdKept
  <2>2. ASSUME NEW u \in VmThreads, vmCall'[u].at = "missed"
        PROVE  vmCall'[u].id.native = NoNative /\ ~vmCall'[u].id.owned
    <3>1. u # t
      BY <1>9, <1>11, <2>2
    <3> QED
      BY <3>1, <1>9, <2>2 DEF VmInv, IdsInv
  <2> QED
    BY <2>1, <2>2 DEF IdsInv
<1>13. \A k \in 1 .. n + 1 : k \in 1 .. n \/ k = n + 1
  OBVIOUS
<1>14. \A k \in 1 .. n : k \in 1 .. n + 1
  OBVIOUS
<1>15. ASSUME NEW k \in 1 .. Len(objects'), objects'[k].ran # NoNative
       PROVE  objects'[k].ran.class = objects'[k].class /\ objects'[k].wanted # NoNative
  <2>1. k \in 1 .. n
    BY <1>2, <1>7, <1>13, <1>15
  <2> QED
    BY <2>1, <1>3, <1>7, <1>15 DEF VmInv, ObjectsInv
<1>16. ASSUME NEW u \in VmThreads, vmCall'[u].at = "constructing"
       PROVE  vmCall'[u].object \in 1 .. Len(objects') /\ objects'[vmCall'[u].object].wanted # NoNative
  <2>1. CASE u = t
    <3>1. named # NoNative
      BY <2>1, <1>4, <1>5, <1>9, <1>16
    <3>2. vmCall'[u].object = n + 1
      BY <2>1, <3>1, <1>4, <1>9
    <3> QED
      BY <3>1, <3>2, <1>2, <1>7
  <2>2. CASE u # t
    <3>1. PICK k : k = vmCall[u].object
      OBVIOUS
    <3>2. vmCall'[u].object = k /\ k \in 1 .. n /\ objects[k].wanted # NoNative
      BY <2>2, <3>1, <1>3, <1>9, <1>16 DEF VmInv, ObjectsInv
    <3> QED
      BY <3>2, <1>7, <1>14
  <2> QED
    BY <2>1, <2>2
<1>17. ObjectsInv'
  BY <1>15, <1>16 DEF ObjectsInv
<1>18. TablesInv'
  BY <1>5 DEF VmInv, TablesInv
<1> QED
  BY <1>10, <1>12, <1>17, <1>18 DEF VmInv

\* The constructors of a class are its natives.
LEMMA OwnConstructors ==
    ASSUME VmInv, NEW c, NEW f \in Constructors(c)
    PROVE  f = NoNative \/ (f \in NativeFns /\ f.class = c)
<1>1. CASE c \in DOMAIN tables
  <2>1. \A m \in DOMAIN tables[c] : tables[c][m] \in NativeFns /\ tables[c][m].class = c
    BY <1>1 DEF VmInv, TablesInv
  <2> QED
    BY <1>1, <2>1 DEF Constructors
<1>2. CASE c \notin DOMAIN tables
  BY <1>2 DEF Constructors, NoTable
<1> QED
  BY <1>1, <1>2

LEMMA InvokeInitKeeps ==
    ASSUME VmInv, NEW t \in VmThreads, invoke_init(t)
    PROVE  VmInv'
<1>1. PICK o : o = vmCall[t].object
  OBVIOUS
<1>2. o \in 1 .. Len(objects) /\ objects[o].wanted # NoNative
  BY <1>1 DEF invoke_init, VmInv, ObjectsInv
<1>3. PICK f \in Constructors(objects[o].class) : objects' = [objects EXCEPT ![o].ran = f]
  BY <1>1 DEF invoke_init, InitClass
<1>4. vmCall' = [vmCall EXCEPT ![t] = Out] /\ UNCHANGED <<handles, tables, lastGiven, ids>>
  BY DEF invoke_init
<1>5. f = NoNative \/ (f \in NativeFns /\ f.class = objects[o].class)
  BY <1>3, OwnConstructors
<1>6. PICK n \in Nat : n = Len(objects) /\ DOMAIN objects = 1 .. n
  BY DEF VmInv, VmTypes
<1>7. objects \in Seq(ObjectRecords) /\ objects[o] \in ObjectRecords
  BY <1>2 DEF VmInv, VmTypes
<1>8. PICK made : made = [objects[o] EXCEPT !.ran = f]
  OBVIOUS
<1>9. made \in ObjectRecords /\ made.ran = f /\ made.class = objects[o].class /\ made.wanted = objects[o].wanted
  BY <1>5, <1>7, <1>8 DEF ObjectRecords, AnyNative
<1>10. objects' = [objects EXCEPT ![o] = made]
  BY <1>3, <1>8
<1>11. objects' \in Seq(ObjectRecords) /\ Len(objects') = n /\ objects'[o] = made
       /\ \A k \in 1 .. n : k # o => objects'[k] = objects[k]
  BY <1>2, <1>6, <1>7, <1>9, <1>10
<1>12. vmCall' \in [VmThreads -> CallStates] /\ vmCall'[t].at = "game"
       /\ \A u \in VmThreads : u # t => vmCall'[u] = vmCall[u]
  BY <1>4, CallEnds
<1>13. VmTypes'
  BY <1>4, <1>11, <1>12 DEF VmInv, VmTypes
<1>14. TablesInv'
  BY <1>4 DEF VmInv, TablesInv
<1>15. ASSUME NEW u \in VmThreads, vmCall'[u].at \in {"missed", "constructing"} PROVE vmCall'[u] = vmCall[u]
  BY <1>12, <1>15
<1>16. IdsInv'
  <2>1. \A k \in 1 .. Len(ids') : IdKept(ids[k])'
    BY <1>4 DEF VmInv, IdsInv, IdKept
  <2> QED
    BY <2>1, <1>15 DEF VmInv, IdsInv
<1>17. ASSUME NEW k \in 1 .. Len(objects'), objects'[k].ran # NoNative
       PROVE  objects'[k].ran.class = objects'[k].class /\ objects'[k].wanted # NoNative
  <2>1. CASE k = o
    BY <2>1, <1>2, <1>5, <1>9, <1>11, <1>17
  <2>2. CASE k # o
    BY <2>2, <1>6, <1>11, <1>17 DEF VmInv, ObjectsInv
  <2> QED
    BY <2>1, <2>2
<1>18. ASSUME NEW u \in VmThreads, vmCall'[u].at = "constructing"
       PROVE  vmCall'[u].object \in 1 .. Len(objects') /\ objects'[vmCall'[u].object].wanted # NoNative
  <2>1. PICK k : k = vmCall[u].object
    OBVIOUS
  <2>2. vmCall'[u] = vmCall[u] /\ vmCall[u].at = "constructing"
    BY <1>15, <1>18
  <2>3. vmCall'[u].object = k /\ k \in 1 .. n /\ objects[k].wanted # NoNative
    BY <2>1, <2>2, <1>6 DEF VmInv, ObjectsInv
  <2>4. objects'[k].wanted # NoNative
    BY <2>3, <1>2, <1>9, <1>11
  <2> QED
    BY <2>3, <2>4, <1>11
<1>19. ObjectsInv'
  BY <1>17, <1>18 DEF ObjectsInv
<1> QED
  BY <1>13, <1>14, <1>16, <1>19 DEF VmInv

LEMMA VmKeeps == VmInv /\ [VmNext]_vmVars => VmInv'
<1> SUFFICES ASSUME VmInv, [VmNext]_vmVars PROVE VmInv'
  OBVIOUS
<1>1. \A c \in Range(handles) : c \in Classes
  BY DEF Range, VmInv, VmTypes
<1>2. CASE \E c \in Classes : FindClass(c)
  BY <1>2, FindClassKeeps
<1>3. CASE \E o \in DOMAIN objects : GetObjectClass(o)
  BY <1>3, GetObjectClassKeeps
<1>4. CASE \E h \in DOMAIN handles : \E fs \in NativeTables : RegisterNativesOf(h, fs)
  BY <1>4, RegisterNativesKeeps
<1>5. CASE \E t \in VmThreads : IssueToken(t)
  BY <1>5, IssueTokenKeeps
<1>6. CASE \E t \in VmThreads : invoke_init(t)
  BY <1>6, InvokeInitKeeps
<1>7. CASE \E t \in VmThreads : \E c \in Range(handles) : \E m \in Methods : GetMethodID(t, c, m)
  BY <1>7, GetMethodIDKeeps
<1>8. CASE \E t \in VmThreads : \E c \in Range(handles) : \E f \in NativeFns :
              f.class = c /\ f.method \in ArgInits \cup {NoArgInit} /\ NewObject(t, c, f)
  <2>1. PICK t \in VmThreads, c \in Range(handles), f \in NativeFns : NewObject(t, c, f)
    BY <1>8
  <2>2. c \in Classes \cup {0} /\ f \in AnyNative
    BY <1>1 DEF AnyNative
  <2> QED
    BY <2>1, <2>2, NewObjectKeeps
<1>9. CASE \E t \in VmThreads : \E c \in Range(handles) \cup {0} : NewObject(t, c, NoNative)
  <2>1. PICK t \in VmThreads, c \in Range(handles) \cup {0} : NewObject(t, c, NoNative)
    BY <1>9
  <2>2. c \in Classes \cup {0} /\ NoNative \in AnyNative
    BY <1>1 DEF AnyNative
  <2> QED
    BY <2>1, <2>2, NewObjectKeeps
<1>10. CASE UNCHANGED vmVars
  <2>1. UNCHANGED <<handles, tables, lastGiven, ids, objects, vmCall>>
    BY <1>10 DEF vmVars
  <2>2. VmTypes' /\ TablesInv'
    BY <2>1 DEF VmInv, VmTypes, TablesInv
  <2>3. \A k \in 1 .. Len(ids') : IdKept(ids[k])'
    BY <2>1 DEF VmInv, IdsInv, IdKept
  <2>4. IdsInv' /\ ObjectsInv'
    BY <2>1, <2>3 DEF VmInv, IdsInv, ObjectsInv
  <2> QED
    BY <2>2, <2>4 DEF VmInv
<1> QED
  BY <1>2, <1>3, <1>4, <1>5, <1>6, <1>7, <1>8, <1>9, <1>10 DEF VmNext

\* What the game relies on when it calls Java holds whatever classes and natives
\* there are, from however many threads: a class has one handle and one table,
\* and nothing registered is lost but to a later native of its name; an id calls a
\* native of its own name and class, or none; no constructor of another class runs
\* on an object; and the arguments, strings and arrays arrive whole.
THEOREM JavaStaysSound == VmSpec => []JavaSound
<1>1. VmInv /\ [VmNext]_vmVars => VmInv'
  BY VmKeeps
<1> QED
  BY <1>1, VmStarts, VmEnds, PTL DEF VmSpec
=============================================================================
