------------------------------- MODULE Looper -------------------------------
(***************************************************************************)
(* fake_looper.rs and fake_inputqueue.rs: the looper of a game thread, the *)
(* queue of input events it hands to the game as an AInputQueue, and the   *)
(* one GameWindowHandle of core_patches.rs, through which mods register    *)
(* with the looper's WindowCallbacks.  The launcher has one thread that    *)
(* prepares a looper.                                                      *)
(***************************************************************************)
EXTENDS Integers, Sequences, FiniteSets, SequencesExt

CONSTANTS LooperThreads, Mods,
          RingCapacity,    \* events a VecDeque holds before it grows
          MaxEvents        \* bound: events

ASSUME LooperAssumption ==
    RingCapacity \in Nat \ {0, 1} /\ "null" \notin LooperThreads

VARIABLES looper,      \* LooperState of each thread: how far it is prepared, and what it holds
          windowFrom,  \* who created the window, "startup" or "fallback"
          support,     \* JniSupport: is it set, does it run, was it told of the window
          handle,      \* GameWindowHandle's WindowCallbacks
          onCreated,   \* ON_WINDOW_CREATED_CALLBACKS
          registered,  \* keyboard_callbacks of each thread's WindowCallbacks
          asked,       \* ghost: the mods waiting when each thread's callbacks were set
          rings,       \* key_events and motion_events
          handed,      \* the pointer getEvent gave out last, with the event it was to
          sawEvents,   \* ghost: events the game has been given, by kind
          taken        \* ghost: events finishEvent removed, by kind, oldest first

queueVars == <<rings, handed, sawEvents, taken>>
looperVars == <<looper, windowFrom, support, handle, onCreated, registered, asked, queueVars>>

Kinds == <<"key", "motion">>
Nowhere == "null"
NoEntry == [valid |-> FALSE, ready |-> FALSE]
FreshRing == [cap |-> RingCapacity, at |-> 0, head |-> 0, events |-> <<>>, added |-> 0]

LooperInit ==
    /\ looper = [t \in LooperThreads |->
                    [phase |-> "none", android |-> NoEntry, input |-> NoEntry, text |-> FALSE, last |-> Nowhere]]
    /\ windowFrom = Nowhere
    /\ support = [set |-> FALSE, running |-> FALSE, window |-> FALSE]
    /\ handle = Nowhere
    /\ onCreated = <<>>
    /\ registered = [t \in LooperThreads |-> <<>>] /\ asked = [t \in LooperThreads |-> <<>>]
    /\ rings = [t \in LooperThreads |-> [k \in ToSet(Kinds) |-> FreshRing]]
    /\ handed = [t \in LooperThreads |-> [at |-> Nowhere, event |-> 0]]
    /\ sawEvents = [t \in LooperThreads |-> [k \in ToSet(Kinds) |-> {}]]
    /\ taken = [t \in LooperThreads |-> [k \in ToSet(Kinds) |-> <<>>]]

---------------------------------------------------------------------------
(* Startup, and the symbols of libmcpelauncher_gamewindow.so *)

\* Startup sets the JniSupport and creates the window, or leaves the window to prepare.
Startup(made) ==
    /\ ~support.set
    /\ support' = [support EXCEPT !.set = TRUE]
    /\ windowFrom' = IF made THEN "startup" ELSE windowFrom
    /\ UNCHANGED <<looper, handle, onCreated, registered, asked, queueVars>>

AddCreationCallback(m) ==
    /\ m \notin ToSet(onCreated)
    /\ onCreated' = Append(onCreated, m)
    /\ UNCHANGED <<looper, windowFrom, support, handle, registered, asked, queueVars>>

\* core_patches_set_game_window_callbacks stores the token and then calls the
\* mods back, each of which registers through the stored token.
\* Mutant: the mods are called before the token is stored.
StoresAfterwards(c) ==
    /\ handle' = c
    /\ registered' = IF handle = Nowhere THEN registered
                     ELSE [registered EXCEPT ![handle] = @ \o onCreated]
SetCallbacks(c) ==
    /\ handle' = c
    /\ registered' = IF c = Nowhere THEN registered
                     ELSE [registered EXCEPT ![c] = @ \o onCreated]

---------------------------------------------------------------------------
(* The looper *)

\* prepare_impl: a state, a window (the startup's, or a default one), and the
\* game told of it.  A second prepare panics, which ends the program.
Prepare(t) ==
    /\ looper[t].phase = "none"
    /\ looper' = [looper EXCEPT ![t].phase = "window"]
    /\ windowFrom' = IF windowFrom = Nowhere THEN "fallback" ELSE windowFrom
    /\ support' = IF support.set THEN [support EXCEPT !.running = TRUE, !.window = TRUE] ELSE support
    /\ UNCHANGED <<handle, onCreated, registered, asked, queueVars>>
PrepareCallbacks(t) ==
    /\ looper[t].phase = "window"
    /\ looper' = [looper EXCEPT ![t].phase = "prepared"]
    /\ SetCallbacks(t)
    /\ asked' = [asked EXCEPT ![t] = onCreated]
    /\ UNCHANGED <<windowFrom, support, onCreated, queueVars>>

\* addFd takes one descriptor, attachInputQueue one queue.
AddFd(t) ==
    /\ looper[t].phase = "prepared" /\ ~looper[t].android.valid
    /\ looper' = [looper EXCEPT ![t].android = [valid |-> TRUE, ready |-> FALSE]]
    /\ UNCHANGED <<windowFrom, support, handle, onCreated, registered, asked, queueVars>>
AttachInputQueue(t) ==
    /\ looper[t].phase = "prepared" /\ ~looper[t].input.valid
    /\ looper' = [looper EXCEPT ![t].input = [valid |-> TRUE, ready |-> TRUE]]
    /\ UNCHANGED <<windowFrom, support, handle, onCreated, registered, asked, queueVars>>
\* Something is written to the descriptor the game polls for, or read from it.
DescriptorReady(t, r) ==
    /\ looper[t].android.valid /\ looper[t].android.ready # r
    /\ looper' = [looper EXCEPT ![t].android.ready = r]
    /\ UNCHANGED <<windowFrom, support, handle, onCreated, registered, asked, queueVars>>

HasEvents(t) == \E k \in ToSet(Kinds) : rings[t][k].events # <<>>

\* poll_all_impl: the latch of text input first, then the descriptor, the
\* queue, and only with neither the events of the window.
PollAll(t, text) ==
    /\ looper[t].phase = "prepared"
    /\ looper' = [looper EXCEPT ![t].text = text,
          ![t].last = IF looper[t].android.ready THEN "android"
                      ELSE IF looper[t].input.valid /\ HasEvents(t) THEN "input" ELSE "timeout"]
    /\ UNCHANGED <<windowFrom, support, handle, onCreated, registered, asked, queueVars>>

\* The drop of LooperState when its thread ends.  Clearing the token calls
\* the mods once more, who find none.
LooperGone(t) ==
    /\ looper[t].phase = "prepared"
    /\ looper' = [looper EXCEPT ![t].phase = "gone"]
    /\ SetCallbacks(Nowhere)
    /\ UNCHANGED <<windowFrom, support, onCreated, asked, queueVars>>

---------------------------------------------------------------------------
(* The queue: pointers are addresses in a VecDeque's buffer. *)

FrontOf(t, k) == <<k, rings[t][k].at, rings[t][k].head>>

\* A full VecDeque doubles: its buffer may move, and events that wrapped
\* round go to the new end or stay.
Grown(r, moves) ==
    LET tail == r.head
        front == r.cap - r.head
    IN [r EXCEPT !.cap = 2 * r.cap, !.at = @ + moves,
                 !.head = IF tail = 0 \/ front > tail THEN @ ELSE 2 * r.cap - front]
Pushed(r, moves) ==
    LET room == IF Len(r.events) = r.cap THEN Grown(r, moves) ELSE r
    IN [room EXCEPT !.events = Append(@, r.added + 1), !.added = @ + 1]
Popped(r) == [r EXCEPT !.events = Tail(@), !.head = (@ + 1) % r.cap]

\* add_key_event and add_motion_event, which the exports call.
AddEvent(t, k, moves) ==
    /\ looper[t].phase = "prepared" /\ rings[t].key.added + rings[t].motion.added < MaxEvents
    /\ rings' = [rings EXCEPT ![t][k] = Pushed(@, moves)]
    /\ UNCHANGED <<looper, windowFrom, support, handle, onCreated, registered, asked, handed, sawEvents, taken>>

\* get_event: keys before motions, and the event stays in the queue.
GetEvent(t) ==
    /\ looper[t].phase = "prepared" /\ HasEvents(t)
    /\ LET k == IF rings[t].key.events # <<>> THEN "key" ELSE "motion"
           e == Head(rings[t][k].events)
       IN /\ handed' = [handed EXCEPT ![t] = [at |-> FrontOf(t, k), event |-> e]]
          /\ sawEvents' = [sawEvents EXCEPT ![t][k] = @ \cup {e}]
    /\ UNCHANGED <<looper, windowFrom, support, handle, onCreated, registered, asked, rings, taken>>

\* finish_event pops the queue whose front is where the pointer points.
\* Mutant: it pops the queue getEvent would read.
FirstQueue(t, k) == rings[t].key.events = <<>> \/ k = "key"
PointsAt(t, k) == handed[t].at = FrontOf(t, k)
FinishEvent(t) ==
    /\ looper[t].phase = "prepared" /\ handed[t].at # Nowhere
    /\ LET at == {k \in ToSet(Kinds) : rings[t][k].events # <<>> /\ PointsAt(t, k)}
           key == "key" \in at
       IN IF at = {} THEN UNCHANGED <<rings, taken>>
          ELSE LET k == IF key THEN "key" ELSE "motion" IN
               /\ taken' = [taken EXCEPT ![t][k] = Append(@, Head(rings[t][k].events))]
               /\ rings' = [rings EXCEPT ![t][k] = Popped(@)]
    /\ UNCHANGED <<looper, windowFrom, support, handle, onCreated, registered, asked, handed, sawEvents>>

LooperNext ==
    \/ \E made \in BOOLEAN : Startup(made)
    \/ \E m \in Mods : AddCreationCallback(m)
    \/ \E t \in LooperThreads :
        \/ Prepare(t) \/ PrepareCallbacks(t) \/ AddFd(t) \/ AttachInputQueue(t) \/ LooperGone(t)
        \/ \E r \in BOOLEAN : DescriptorReady(t, r) \/ PollAll(t, r)
        \/ \E k \in ToSet(Kinds), moves \in 0 .. 1 : AddEvent(t, k, moves)
        \/ GetEvent(t) \/ FinishEvent(t)

LooperSpec == LooperInit /\ [][LooperNext]_looperVars

---------------------------------------------------------------------------
(* Correctness *)

\* The token mods and patches go through is that of a looper that lives.
TokenLives == handle # Nowhere => looper[handle].phase = "prepared"

\* A looper's callbacks hold every mod that asked for the window before it
\* was there, once and in order.
ModsRegistered == \A t \in LooperThreads :
    looper[t].phase \in {"prepared", "gone"} => registered[t] = asked[t]

\* Every event the queue gave up is one the game has seen, and of each kind
\* they go in the order they came, none twice and none left out: a pointer
\* into a buffer that moved, or an event of the other kind that came in
\* between, takes nothing away.
EventsInOrder == \A t \in LooperThreads, k \in ToSet(Kinds) :
    /\ \A i \in DOMAIN taken[t][k] : taken[t][k][i] = i
    /\ ToSet(taken[t][k]) \subseteq sawEvents[t][k]
    /\ taken[t][k] \o rings[t][k].events = [i \in 1 .. rings[t][k].added |-> i]

\* The looper, the handle and the queue agree (fake_looper.rs, core_patches.rs
\* and fake_inputqueue.rs).
LooperSound == TokenLives /\ ModsRegistered /\ EventsInOrder
=============================================================================
