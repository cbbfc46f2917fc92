----------------------------- MODULE ThreadLife -----------------------------
(***************************************************************************)
(* The life of the game's threads in crates/libc-shim: pthread_create with *)
(* the thread mover, pthread_once (pthreads.rs) and the destructors of     *)
(* thread locals (misc.rs).                                                *)
(*                                                                         *)
(* The thread mover moves the first thread that the start thread makes to  *)
(* the main thread of the process: thread_mover_arm is called by the start *)
(* thread, thread_mover_take_captured by the main thread.                  *)
(***************************************************************************)
EXTENDS Naturals, SequencesExt

CONSTANTS
    Creators,     \* threads that call pthread_create
    StartThread,  \* the one that arms the mover
    MaxCreates,   \* bound: calls of pthread_create
    Onces,        \* pthread_once_t controls
    MaxDtors      \* bound: destructors a thread registers

ASSUME ThreadLifeAssumption ==
    /\ StartThread \in Creators /\ MaxCreates \in Nat /\ MaxDtors \in Nat

NoFn == 0

VARIABLES
    \* the thread mover
    arming,     \* stores of thread_mover_arm made so far
    moverArmed, moverTid, moverDone, captured,
    creating,   \* creator -> "idle", "armed", "done", "tid", "claim",
                \* "send", "host"
    fn,         \* creator -> the start routine of its call
    created,    \* start routines given out
    firstFn,    \* history: the first one of the start thread after arming
    ownThread,  \* start routines run on a thread of their own
    mainFn,     \* what the main thread runs
    \* pthread_once
    control, onceAt, onceRan,
    \* THREAD_DTORS of one thread
    dtors,      \* the list, newest first
    finalizer,  \* "no", "running", "ended"
    current,    \* rest of the list that is walked
    dtorsRun, registered, known

moverVars == <<arming, moverArmed, moverTid, moverDone, captured, creating,
               fn, created, firstFn, ownThread, mainFn>>
onceVars == <<control, onceAt, onceRan>>
dtorVars == <<dtors, finalizer, current, dtorsRun, registered, known>>
threadLifeVars == <<moverVars, onceVars, dtorVars>>

ThreadLifeInit ==
    /\ arming = 0 /\ moverArmed = FALSE /\ moverTid = NoFn
    /\ moverDone = FALSE /\ captured = <<>>
    /\ creating = [t \in Creators |-> "idle"]
    /\ fn = [t \in Creators |-> NoFn] /\ created = 0 /\ firstFn = NoFn
    /\ ownThread = {} /\ mainFn = NoFn
    /\ control = [o \in Onces |-> 0] /\ onceRan = [o \in Onces |-> 0]
    /\ onceAt = [t \in Creators |-> [o \in Onces |-> "never"]]
    /\ dtors = <<>> /\ finalizer = "no" /\ current = <<>>
    /\ dtorsRun = <<>> /\ registered = 0 /\ known = 0

(***************************************************************************)
(* The thread mover                                                        *)
(***************************************************************************)
(* thread_mover_arm: the id, MOVER_DONE and MOVER_ARMED, in this order.    *)
Arm ==
    /\ arming < 3 /\ creating[StartThread] = "idle" /\ arming' = arming + 1
    /\ CASE arming = 0 -> moverTid' = StartThread /\ UNCHANGED <<moverDone, moverArmed>>
         [] arming = 1 -> moverDone' = FALSE /\ UNCHANGED <<moverTid, moverArmed>>
         [] arming = 2 -> moverArmed' = TRUE /\ UNCHANGED <<moverTid, moverDone>>
    /\ UNCHANGED <<captured, creating, fn, created, firstFn, ownThread, mainFn>>

Step(t, from, to) ==
    creating[t] = from /\ creating' = [creating EXCEPT ![t] = to]

Create(t) ==
    /\ created < MaxCreates /\ created' = created + 1
    /\ t = StartThread => arming \in {0, 3}
    /\ Step(t, "idle", "armed") /\ fn' = [fn EXCEPT ![t] = created + 1]
    /\ firstFn' = IF t = StartThread /\ arming = 3 /\ firstFn = NoFn
                  THEN created + 1 ELSE firstFn
    /\ UNCHANGED <<arming, moverArmed, moverTid, moverDone, captured,
                   ownThread, mainFn>>

FromStarter(t) == t = moverTid

(* thread_mover_try_capture, one access of the shared words at a time.     *)
TryCapture(t) ==
    /\ \/ Step(t, "armed", IF moverArmed THEN "done" ELSE "host")
       \/ Step(t, "done", IF moverDone THEN "host" ELSE "tid")
       \/ Step(t, "tid", IF FromStarter(t) THEN "claim" ELSE "host")
    /\ UNCHANGED <<arming, moverArmed, moverTid, moverDone, captured, fn,
                   created, firstFn, ownThread, mainFn>>

Claim(t) ==
    /\ Step(t, "claim", IF moverDone THEN "host" ELSE "send")
    /\ moverDone' = TRUE
    /\ UNCHANGED <<arming, moverArmed, moverTid, captured, fn, created,
                   firstFn, ownThread, mainFn>>

Send(t) ==
    /\ Step(t, "send", "idle") /\ captured' = Append(captured, fn[t])
    /\ UNCHANGED <<arming, moverArmed, moverTid, moverDone, fn, created,
                   firstFn, ownThread, mainFn>>

(* The host's pthread_create.                                              *)
HostCreate(t) ==
    /\ Step(t, "host", "idle") /\ ownThread' = ownThread \cup {fn[t]}
    /\ UNCHANGED <<arming, moverArmed, moverTid, moverDone, captured, fn,
                   created, firstFn, mainFn>>

(* fake_thread_mover_execute_main_thread: the receiver is taken once.      *)
TakeCaptured ==
    /\ mainFn = NoFn /\ captured # <<>>
    /\ mainFn' = Head(captured) /\ captured' = Tail(captured)
    /\ UNCHANGED <<arming, moverArmed, moverTid, moverDone, creating, fn,
                   created, firstFn, ownThread>>

(***************************************************************************)
(* pthread_once                                                            *)
(***************************************************************************)
Goes(t, o, place) == onceAt' = [onceAt EXCEPT ![t][o] = place]

(* Mutant: whoever finds the control word set returns. *)
FoundSetReturns(t, o) == Goes(t, o, "returned")
FoundSet(t, o) == Goes(t, o, "check")

OnceEnters(t, o) ==
    /\ onceAt[t][o] \in {"never", "returned"}
    /\ IF control[o] = 0
       THEN control' = [control EXCEPT ![o] = 1] /\ Goes(t, o, "running")
       ELSE FoundSet(t, o) /\ UNCHANGED control
    /\ UNCHANGED onceRan

OnceRuns(t, o) ==
    /\ onceAt[t][o] = "running" /\ Goes(t, o, "returned")
    /\ onceRan' = [onceRan EXCEPT ![o] = @ + 1]
    /\ control' = [control EXCEPT ![o] = 2]

OnceChecks(t, o) ==
    /\ onceAt[t][o] = "check"
    /\ Goes(t, o, IF control[o] = 2 THEN "returned" ELSE "spin")
    /\ UNCHANGED <<control, onceRan>>

OnceSpins(t, o) ==
    /\ onceAt[t][o] = "spin" /\ control[o] # 1 /\ Goes(t, o, "returned")
    /\ UNCHANGED <<control, onceRan>>

(***************************************************************************)
(* Destructors of thread locals                                            *)
(***************************************************************************)

(* __cxa_thread_atexit_impl, also from a destructor that is running.       *)
RegisterDtor ==
    /\ registered < MaxDtors /\ finalizer # "ended"
    /\ registered' = registered + 1 /\ dtors' = <<registered + 1>> \o dtors
    /\ known' = IF finalizer = "no" THEN registered + 1 ELSE known
    /\ UNCHANGED <<finalizer, current, dtorsRun>>

(* __cxa_thread_finalize walks the list as it found it and then forgets    *)
(* it, with what was put in front meanwhile.                               *)
BeginFinalize ==
    /\ finalizer = "no" /\ finalizer' = "running" /\ current' = dtors
    /\ UNCHANGED <<dtors, dtorsRun, registered, known>>

RunDtor ==
    /\ finalizer = "running" /\ current # <<>>
    /\ dtorsRun' = Append(dtorsRun, Head(current)) /\ current' = Tail(current)
    /\ UNCHANGED <<dtors, finalizer, registered, known>>

EndFinalize ==
    /\ finalizer = "running" /\ current = <<>>
    /\ finalizer' = "ended" /\ dtors' = <<>>
    /\ UNCHANGED <<current, dtorsRun, registered, known>>

MoverNext ==
    /\ \/ Arm \/ TakeCaptured
       \/ \E t \in Creators : \/ Create(t) \/ TryCapture(t) \/ Claim(t)
                              \/ Send(t) \/ HostCreate(t)
    /\ UNCHANGED <<onceVars, dtorVars>>

OnceNext ==
    /\ \E t \in Creators, o \in Onces :
          OnceEnters(t, o) \/ OnceRuns(t, o) \/ OnceChecks(t, o)
          \/ OnceSpins(t, o)
    /\ UNCHANGED <<moverVars, dtorVars>>

DtorNext ==
    /\ RegisterDtor \/ BeginFinalize \/ RunDtor \/ EndFinalize
    /\ UNCHANGED <<moverVars, onceVars>>

ThreadLifeNext == MoverNext \/ OnceNext \/ DtorNext
ThreadLifeSpec == ThreadLifeInit /\ [][ThreadLifeNext]_threadLifeVars

-----------------------------------------------------------------------------
(* Properties *)

(* A start routine, an initialisation routine and a destructor of a thread *)
(* local are each run once and where they belong.  The main thread runs    *)
(* the first thread that the start thread made after it armed the mover,   *)
(* no other one, and that thread runs nowhere else; nobody returns from    *)
(* pthread_once before its routine ended; a thread that ends runs the      *)
(* destructors it registered before, the newest first.                     *)
MainRunsFirst ==
    /\ mainFn # NoFn => mainFn = firstFn
    /\ ToSet(captured) \subseteq {firstFn} \ {mainFn}
    /\ firstFn # NoFn => firstFn \notin ownThread

OnceDone ==
    \A o \in Onces :
        /\ onceRan[o] <= 1
        /\ (\E t \in Creators : onceAt[t][o] = "returned") => onceRan[o] = 1

DtorsRunOnce ==
    finalizer = "ended" =>
        dtorsRun = [k \in 1 .. known |-> known + 1 - k]

RoutinesRunOnce == MainRunsFirst /\ OnceDone /\ DtorsRunOnce
=============================================================================
