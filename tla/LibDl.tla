------------------------------- MODULE LibDl -------------------------------
(***************************************************************************)
(* libdl.rs, the dl* functions the game is given, over a registry of       *)
(* libraries behind std's RwLock: the error and the name of dladdr are per *)
(* thread, and dl_iterate_phdr calls back with the read lock held.         *)
(***************************************************************************)
EXTENDS Integers, FiniteSets

CONSTANTS DlThreads, Loadable,    \* libraries dlopen finds
          Missing,                \* and one it does not
          MaxDlCalls              \* calls that reach the lock, for TLC

ASSUME LibDlAssumption == Missing \notin Loadable

VARIABLES dlOpened,    \* handles in the registry, a handle per library
          dlError,     \* DL_ERROR of each thread: what failed, or Quiet
          addrName,    \* DLADDR_NAME of each thread
          iterating,   \* per thread: the handles dl_iterate_phdr has still to show
          waitsIn,     \* per thread: the call that waits for the registry's lock, or Quiet
          dlCalls      \* ghost: calls that asked for the lock

dlVars == <<dlOpened, dlError, addrName, iterating, waitsIn, dlCalls>>

Quiet == "none"
NotIterating == {Missing}
InCallback(t) == iterating[t] # NotIterating
WriteCalls == {"dlopen", "dlclose"}
ReadCalls == {"dlsym", "dladdr", "dl_iterate_phdr"}

LibDlInit ==
    /\ dlOpened = {}
    /\ dlError = [t \in DlThreads |-> Quiet]
    /\ addrName = [t \in DlThreads |-> Quiet]
    /\ iterating = [t \in DlThreads |-> NotIterating]
    /\ waitsIn = [t \in DlThreads |-> Quiet]
    /\ dlCalls = 0

Failure(t, f, good) == dlError' = IF good THEN dlError ELSE [dlError EXCEPT ![t] = f]

\* A call with good arguments asks for the lock, from a callback too.
Ask(t, f) ==
    /\ waitsIn[t] = Quiet /\ dlCalls < MaxDlCalls
    /\ waitsIn' = [waitsIn EXCEPT ![t] = f] /\ dlCalls' = dlCalls + 1
    /\ UNCHANGED <<dlOpened, dlError, addrName, iterating>>

\* A writer waits for every reader, its own thread's walk included; a reader
\* waits behind a writer that waits.
Served(t, f) ==
    /\ waitsIn[t] = f
    /\ f \in WriteCalls => \A u \in DlThreads : ~InCallback(u)
    /\ f \in ReadCalls => \A u \in DlThreads : waitsIn[u] \notin WriteCalls
    /\ waitsIn' = [waitsIn EXCEPT ![t] = Quiet]

\* dlopen_impl and android_dlopen_ext_impl.
DlOpen(t, l) ==
    /\ Served(t, "dlopen")
    /\ dlOpened' = dlOpened \cup ({l} \cap Loadable)
    /\ Failure(t, "dlopen", l \in Loadable)
    /\ UNCHANGED <<addrName, iterating, dlCalls>>

\* crate::dlclose is 0 when the handle was known, and dlclose_impl takes
\* that 0 for a failure.
DlClose(t, l) ==
    /\ Served(t, "dlclose")
    /\ dlOpened' = dlOpened \ {l}
    /\ Failure(t, "dlclose", l \notin dlOpened)
    /\ UNCHANGED <<addrName, iterating, dlCalls>>

\* Calls with arguments refused before the registry is looked at.  The
\* extended dlopen and dladdr report nothing.
Refused(t) ==
    /\ waitsIn[t] = Quiet
    /\ \E f \in {"dlopen", "dlsym", "dlclose", "dladdr", "dlopen_ext"} :
          Failure(t, f, f \in {"dladdr", "dlopen_ext"})
    /\ UNCHANGED <<dlOpened, addrName, iterating, waitsIn, dlCalls>>

\* dlsym_impl and dlvsym_impl; the symbol exists or not.
DlSym(t, l) ==
    /\ Served(t, "dlsym")
    /\ \E good \in {(l \in dlOpened), FALSE} : Failure(t, "dlsym", good)
    /\ UNCHANGED <<dlOpened, addrName, iterating, dlCalls>>

\* dladdr_impl: the name replaces the one the thread was shown before.
DlAddr(t, l) ==
    /\ Served(t, "dladdr")
    /\ addrName' = IF l \in dlOpened THEN [addrName EXCEPT ![t] = l] ELSE addrName
    /\ UNCHANGED <<dlOpened, dlError, iterating, dlCalls>>

\* get_dlerror takes the message.
DlErrorOf(t) ==
    /\ waitsIn[t] = Quiet /\ dlError[t] # Quiet
    /\ dlError' = [dlError EXCEPT ![t] = Quiet]
    /\ UNCHANGED <<dlOpened, addrName, iterating, waitsIn, dlCalls>>

\* dl_iterate_phdr_impl: the guard lives until the walk is over.  A walk
\* inside a callback of a walk is like one more read.
DlIterate(t) ==
    /\ Served(t, "dl_iterate_phdr")
    /\ iterating' = IF dlOpened = {} \/ InCallback(t) THEN iterating
                    ELSE [iterating EXCEPT ![t] = dlOpened]
    /\ UNCHANGED <<dlOpened, dlError, addrName, dlCalls>>

ToShow(t, l) == iterating[t] \ {l}

\* The callback returns: non-zero stops the walk, as does the last library.
CallbackReturns(t) ==
    /\ InCallback(t) /\ waitsIn[t] = Quiet
    /\ \E l \in iterating[t], stop \in BOOLEAN :
          iterating' = [iterating EXCEPT ![t] = IF stop \/ ToShow(t, l) = {} THEN NotIterating
                                                ELSE ToShow(t, l)]
    /\ UNCHANGED <<dlOpened, dlError, addrName, waitsIn, dlCalls>>

Answered(t) ==
    \/ DlIterate(t)
    \/ \E l \in Loadable \cup {Missing} : DlOpen(t, l) \/ DlClose(t, l) \/ DlSym(t, l) \/ DlAddr(t, l)

LibDlNext ==
    \E t \in DlThreads :
       \/ \E f \in WriteCalls \cup ReadCalls : Ask(t, f)
       \/ Refused(t) \/ DlErrorOf(t) \/ CallbackReturns(t) \/ Answered(t)

\* The lock is given to whoever may have it, and a callback returns: what the
\* game's callbacks do is collect addresses.
LibDlFairness ==
    \A t \in DlThreads : WF_dlVars(Answered(t)) /\ WF_dlVars(CallbackReturns(t))

LibDlSpec == LibDlInit /\ [][LibDlNext]_dlVars /\ LibDlFairness

-----------------------------------------------------------------------------
\* A callback asks for the lock its own thread's walk holds: to write, or to
\* read when a writer of any thread is queued.
WaitsForItself ==
    \E u \in DlThreads :
        /\ InCallback(u) /\ waitsIn[u] # Quiet
        /\ \E w \in DlThreads : waitsIn[w] \in WriteCalls

=============================================================================
