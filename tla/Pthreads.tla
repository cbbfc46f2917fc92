------------------------------ MODULE Pthreads ------------------------------
(***************************************************************************)
(* The pthread objects of crates/libc-shim/src/pthreads.rs.                *)
(*                                                                         *)
(* A bionic mutex, condition or rwlock has a payload word that points to a *)
(* host object, 0 until the first use of a statically initialised one.     *)
(* Every operation converts its objects (to_host_mutex, to_host_cond,      *)
(* to_host_rwlock: load, make a host object, compare and exchange, free    *)
(* the loser) and then calls the host.  The program keeps the rules of     *)
(* POSIX: it unlocks what it locked, destroys nothing that is in use and   *)
(* initialises nothing twice.  Memory is sequentially consistent.          *)
(***************************************************************************)
EXTENDS Naturals, FiniteSets, Sequences

CONSTANTS
    Threads,
    Mutexes, Conds, RwLocks,   \* the program's objects
    StaticKind,  \* mutex -> the kind its initial value means
    InitKinds,   \* kinds the program gives to pthread_mutex_init
    Raw,         \* objects that begin without an initial value
    Hosts,       \* addresses of host objects
    MaxDepth,    \* bound: how often a recursive mutex is locked
    MaxObjects   \* bound: objects in use at a time

Objects == Mutexes \cup Conds \cup RwLocks
Kinds == {"normal", "recursive", "errorcheck"}
Null == 0

ASSUME PthreadAssumption ==
    /\ StaticKind \in [Mutexes -> Kinds] /\ Raw \subseteq Objects
    /\ InitKinds \subseteq Kinds /\ InitKinds # {}
    /\ IsFiniteSet(Objects) /\ IsFiniteSet(Threads)
    /\ Null \notin Hosts /\ MaxDepth \in Nat \ {0} /\ MaxObjects \in Nat
    /\ Cardinality(Hosts) >= Cardinality(Objects) + Cardinality(Threads)
    /\ Mutexes \cap Conds = {} /\ RwLocks \cap (Mutexes \cup Conds) = {}

VARIABLES
    payload,    \* object -> host object or Null
    declared,   \* mutex -> kind its initialisation gave it
    usable,     \* objects initialised and not destroyed
    \* host objects
    live,       \* malloc'ed and not freed
    hostKind, held, excl,  \* kind, thread -> depth, held exclusively
    \* calls in progress
    stage,      \* "idle", "load", "make", "cas", "reload", "host",
                \* "waiting", "relock"
    op, args,   \* the call and its objects
    hosts, mine, \* host objects found so far, and the one just made
    \* what the program may rely on
    claims, exclusive

pthreadVars == <<payload, declared, usable, live, hostKind, held, excl, stage,
                 op, args, hosts, mine, claims, exclusive>>
objectVars == <<payload, declared, usable>>
hostVars == <<live, hostKind, held, excl>>
callVars == <<stage, op, args, hosts, mine>>
claimVars == <<claims, exclusive>>

LockOps == {"lock", "trylock", "rdlock", "wrlock"}
Ops == LockOps \cup {"unlock", "wait", "timedwait", "signal", "broadcast"}
Nobody == [t \in Threads |-> 0]

PthreadTypeOK ==
    /\ payload \in [Objects -> Hosts \cup {Null}]
    /\ declared \in [Mutexes -> Kinds] /\ usable \subseteq Objects
    /\ live \subseteq Hosts /\ hostKind \in [Hosts -> Kinds]
    /\ held \in [Hosts -> [Threads -> 0 .. MaxDepth]]
    /\ excl \in [Hosts -> BOOLEAN]
    /\ stage \in [Threads -> {"idle", "load", "make", "cas", "reload", "host",
                              "waiting", "relock"}]
    /\ op \in [Threads -> Ops \cup {"none"}]
    /\ args \in [Threads -> Seq(Objects)] /\ hosts \in [Threads -> Seq(Hosts)]
    /\ mine \in [Threads -> Hosts \cup {Null}]
    /\ claims \in [Objects -> [Threads -> 0 .. MaxDepth]]
    /\ exclusive \in [Objects -> BOOLEAN]

PthreadInit ==
    /\ payload = [o \in Objects |-> Null] /\ declared = StaticKind
    /\ usable = Objects \ Raw
    /\ live = {} /\ hostKind = [h \in Hosts |-> "normal"]
    /\ held = [h \in Hosts |-> Nobody] /\ excl = [h \in Hosts |-> FALSE]
    /\ stage = [t \in Threads |-> "idle"] /\ op = [t \in Threads |-> "none"]
    /\ args = [t \in Threads |-> <<>>] /\ hosts = [t \in Threads |-> <<>>]
    /\ mine = [t \in Threads |-> Null]
    /\ claims = [o \in Objects |-> Nobody]
    /\ exclusive = [o \in Objects |-> FALSE]

(***************************************************************************)
(* What a correct program calls                                            *)
(***************************************************************************)
Relocks(t, o) ==
    /\ o \in Mutexes
    /\ \/ declared[o] = "errorcheck"
       \/ declared[o] = "recursive" /\ claims[o][t] < MaxDepth

Legal(t, call, o) ==
    CASE call \in {"lock", "trylock"} ->
            o \in Mutexes /\ (claims[o][t] = 0 \/ Relocks(t, o))
      [] call \in {"rdlock", "wrlock"} -> o \in RwLocks /\ claims[o][t] = 0
      [] call = "unlock" -> o \notin Conds /\ claims[o][t] > 0
      [] OTHER -> o \in Conds

Start(t, call, objects) ==
    /\ stage[t] = "idle" /\ {objects[k] : k \in DOMAIN objects} \subseteq usable
    /\ stage' = [stage EXCEPT ![t] = "load"]
    /\ op' = [op EXCEPT ![t] = call]
    /\ args' = [args EXCEPT ![t] = objects]
    /\ hosts' = [hosts EXCEPT ![t] = <<>>]
    /\ UNCHANGED mine /\ UNCHANGED objectVars /\ UNCHANGED hostVars
    /\ UNCHANGED claimVars

CallOn(t, o) ==
    \E call \in Ops \ {"wait", "timedwait"} :
        Legal(t, call, o) /\ Start(t, call, <<o>>)

(* pthread_cond_wait converts the condition first.                         *)
CallWait(t, c, m) ==
    \E call \in {"wait", "timedwait"} :
        claims[m][t] = 1 /\ Start(t, call, <<c, m>>)

(***************************************************************************)
(* to_host_mutex, to_host_cond, to_host_rwlock                             *)
(***************************************************************************)
Converting(t) == args[t][Len(hosts[t]) + 1]

Converted(t, host) ==
    /\ hosts' = [hosts EXCEPT ![t] = Append(@, host)]
    /\ stage' = [stage EXCEPT ![t] =
                    IF Len(hosts[t]) + 1 = Len(args[t]) THEN "host" ELSE "load"]

LoadPayload(t) ==
    /\ stage[t] = "load"
    /\ LET found == payload[Converting(t)]
       IN  IF found # Null THEN Converted(t, found)
           ELSE stage' = [stage EXCEPT ![t] = "make"] /\ UNCHANGED hosts
    /\ UNCHANGED <<op, args, mine>> /\ UNCHANGED objectVars /\ UNCHANGED hostVars
    /\ UNCHANGED claimVars

(* malloc and the host's own initialisation, of the kind in the tag.       *)
NewHost(h, o) ==
    /\ h \notin live /\ live' = live \cup {h}
    /\ hostKind' = [hostKind EXCEPT ![h] =
                        IF o \in Mutexes THEN declared'[o] ELSE "normal"]
    /\ held' = [held EXCEPT ![h] = Nobody]
    /\ excl' = [excl EXCEPT ![h] = FALSE]

FreeHost == CHOOSE h \in Hosts : h \notin live

MakeHost(t) ==
    /\ stage[t] = "make"
    /\ UNCHANGED objectVars /\ NewHost(FreeHost, Converting(t))
    /\ mine' = [mine EXCEPT ![t] = FreeHost]
    /\ stage' = [stage EXCEPT ![t] = "cas"]
    /\ UNCHANGED <<op, args, hosts>> /\ UNCHANGED claimVars
   

(* Mutant: the payload is stored, not compared and exchanged. *)
TakesSlotAlways(o) == TRUE
TakesSlot(o) == payload[o] = Null

TryInitPayload(t) ==
    LET o == Converting(t)
    IN  /\ stage[t] = "cas"
        /\ IF TakesSlot(o)
           THEN /\ payload' = [payload EXCEPT ![o] = mine[t]]
                /\ Converted(t, mine[t])
                /\ mine' = [mine EXCEPT ![t] = Null]
           ELSE /\ stage' = [stage EXCEPT ![t] = "reload"]
                /\ UNCHANGED <<payload, hosts, mine>>
        /\ UNCHANGED <<op, args, declared, usable>> /\ UNCHANGED hostVars
        /\ UNCHANGED claimVars

(* Mutant: the host object that lost the race is not freed. *)
FreedNothing(t) == live
Freed(t) == live \ {mine[t]}

(* The loser takes the winner's object and frees its own.                  *)
Reload(t) ==
    /\ stage[t] = "reload"
    /\ Converted(t, payload[Converting(t)])
    /\ live' = Freed(t) /\ mine' = [mine EXCEPT ![t] = Null]
    /\ UNCHANGED <<op, args, hostKind, held, excl>> /\ UNCHANGED objectVars
    /\ UNCHANGED claimVars

(***************************************************************************)
(* The host's operations                                                   *)
(***************************************************************************)
Others(t, h) == {u \in Threads \ {t} : held[h][u] > 0}

Grants(t, h, call) ==
    IF call = "rdlock" THEN ~excl[h]
    ELSE Others(t, h) = {} /\ (held[h][t] > 0 => hostKind[h] = "recursive")

Returns(t) ==
    /\ stage' = [stage EXCEPT ![t] = "idle"]
    /\ op' = [op EXCEPT ![t] = "none"]
    /\ hosts' = [hosts EXCEPT ![t] = <<>>]
    /\ args' = [args EXCEPT ![t] = <<>>]
    /\ UNCHANGED mine

Take(t, o, h, shared) ==
    /\ held' = [held EXCEPT ![h][t] = @ + 1]
    /\ excl' = [excl EXCEPT ![h] = ~shared]
    /\ claims' = [claims EXCEPT ![o][t] = @ + 1]
    /\ exclusive' = [exclusive EXCEPT ![o] = ~shared]

Drop(t, o, h) ==
    /\ held' = [held EXCEPT ![h][t] = @ - 1]
    /\ excl' = [excl EXCEPT ![h] = @ /\ held[h][t] > 1]
    /\ claims' = [claims EXCEPT ![o][t] = @ - 1]
    /\ exclusive' = [exclusive EXCEPT ![o] = @ /\ claims[o][t] > 1]

HostLocks(t) ==
    LET o == args[t][1]
        h == hosts[t][1]
    IN  /\ stage[t] = "host" /\ op[t] \in LockOps
        /\ \/ /\ Grants(t, h, op[t]) /\ Take(t, o, h, op[t] = "rdlock")
           \/ /\ ~Grants(t, h, op[t])
              /\ \/ op[t] = "trylock"
                 \/ hostKind[h] = "errorcheck" /\ held[h][t] > 0
              /\ UNCHANGED <<held, excl>> /\ UNCHANGED claimVars
        /\ Returns(t)
        /\ UNCHANGED <<live, hostKind>> /\ UNCHANGED objectVars
       

HostUnlocks(t) ==
    /\ stage[t] = "host" /\ op[t] = "unlock"
    /\ Drop(t, args[t][1], hosts[t][1]) /\ Returns(t)
    /\ UNCHANGED <<live, hostKind>> /\ UNCHANGED objectVars

HostWaits(t) ==
    /\ stage[t] = "host" /\ op[t] \in {"wait", "timedwait"}
    /\ Drop(t, args[t][2], hosts[t][2])
    /\ stage' = [stage EXCEPT ![t] = "waiting"]
    /\ UNCHANGED <<op, args, hosts, mine, live, hostKind>>
    /\ UNCHANGED objectVars

Waiters(h) == {t \in Threads : stage[t] = "waiting" /\ hosts[t][1] = h}

HostSignals(t) ==
    /\ stage[t] = "host" /\ op[t] \in {"signal", "broadcast"}
    /\ \E woken \in SUBSET Waiters(hosts[t][1]) :
          /\ op[t] = "broadcast" => woken = Waiters(hosts[t][1])
          /\ op[t] = "signal" /\ Waiters(hosts[t][1]) # {}
                => Cardinality(woken) = 1
          /\ stage' = [u \in Threads |-> IF u = t THEN "idle"
                          ELSE IF u \in woken THEN "relock" ELSE stage[u]]
    /\ op' = [op EXCEPT ![t] = "none"] /\ hosts' = [hosts EXCEPT ![t] = <<>>]
    /\ args' = [args EXCEPT ![t] = <<>>]
    /\ UNCHANGED mine /\ UNCHANGED hostVars /\ UNCHANGED objectVars
    /\ UNCHANGED claimVars

TimesOut(t) ==
    /\ stage[t] = "waiting" /\ op[t] = "timedwait"
    /\ stage' = [stage EXCEPT ![t] = "relock"]
    /\ UNCHANGED <<op, args, hosts, mine>> /\ UNCHANGED hostVars
    /\ UNCHANGED objectVars /\ UNCHANGED claimVars

WaitRelocks(t) ==
    /\ stage[t] = "relock" /\ Grants(t, hosts[t][2], "lock")
    /\ Take(t, args[t][2], hosts[t][2], FALSE) /\ Returns(t)
    /\ UNCHANGED <<live, hostKind>> /\ UNCHANGED objectVars

(***************************************************************************)
(* pthread_mutex_init and _destroy, and those of the others                *)
(***************************************************************************)
InUse(o) ==
    \/ \E t \in Threads : claims[o][t] > 0
    \/ \E t \in Threads :
          /\ stage[t] # "idle"
          /\ \E k \in DOMAIN args[t] : args[t][k] = o

InitObject(o) ==
    /\ o \notin usable /\ Cardinality(usable) < MaxObjects
    /\ usable' = usable \cup {o}
    /\ \E kind \in InitKinds :
          declared' = IF o \in Mutexes THEN [declared EXCEPT ![o] = kind]
                      ELSE declared
    /\ NewHost(FreeHost, o)
    /\ payload' = [payload EXCEPT ![o] = FreeHost]
    /\ UNCHANGED callVars /\ UNCHANGED claimVars

DestroyObject(o) ==
    /\ o \in usable /\ ~InUse(o) /\ usable' = usable \ {o}
    /\ payload' = [payload EXCEPT ![o] = Null]
    /\ live' = live \ {payload[o]}
    /\ UNCHANGED <<declared, hostKind, held, excl>> /\ UNCHANGED callVars
    /\ UNCHANGED claimVars

ShimStep(t) == LoadPayload(t) \/ MakeHost(t) \/ TryInitPayload(t) \/ Reload(t)

HostStep(t) ==
    HostLocks(t) \/ HostUnlocks(t) \/ HostWaits(t) \/ WaitRelocks(t)
    \/ HostSignals(t)

PthreadNext ==
    \/ \E t \in Threads :
          \/ \E o \in Objects : CallOn(t, o)
          \/ \E c \in Conds, m \in Mutexes : CallWait(t, c, m)
          \/ ShimStep(t) \/ HostStep(t) \/ TimesOut(t)
    \/ \E o \in Objects : InitObject(o) \/ DestroyObject(o)

PthreadSpec == PthreadInit /\ [][PthreadNext]_pthreadVars

-----------------------------------------------------------------------------
(* Properties *)

(* What the program is promised: a mutex, or a rwlock locked for writing,  *)
(* is held by one thread, although two threads may have made host objects  *)
(* for it at the same time.                                                *)
LockExclusive ==
    \A o \in Objects :
        exclusive[o] => Cardinality({t \in Threads : claims[o][t] > 0}) = 1

(* Every host object belongs to one bionic object or to a thread that has  *)
(* just made it, is of the kind that was asked for, and is where the locks *)
(* and the waiters of its object are: so nothing leaks, and a signal finds *)
(* those who wait.                                                         *)
HostsOwned ==
    /\ \A h \in live :
          Cardinality({o \in Objects : payload[o] = h})
          + Cardinality({t \in Threads : mine[t] = h}) = 1
    /\ \A o \in Objects : payload[o] # Null =>
          /\ payload[o] \in live /\ held[payload[o]] = claims[o]
          /\ o \in Mutexes => hostKind[payload[o]] = declared[o]
    /\ \A t \in Threads : \A k \in DOMAIN hosts[t] :
          hosts[t][k] = payload[args[t][k]]

(* Both: one thread at a time in a lock, on a host object that is its own. *)
LocksSound == LockExclusive /\ HostsOwned
=============================================================================
