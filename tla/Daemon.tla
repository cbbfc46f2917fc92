------------------------------- MODULE Daemon -------------------------------
(***************************************************************************)
(* Starting the account daemon and talking to it: launch_and_connect of    *)
(* client/src/xbox_auth.rs, DaemonLauncher, LaunchableServiceClient and    *)
(* AutoShutdownService of crates/daemon-utils, and Server::bind of         *)
(* crates/simple-ipc, which is how a daemon appears at its path.           *)
(*                                                                         *)
(* Launchers are threads that log in.  Daemons are processes; the socket   *)
(* file names the process that made it and outlives that process.          *)
(***************************************************************************)
EXTENDS Naturals, FiniteSets

CONSTANTS
    Launchers,    \* threads calling launch_and_connect
    MaxDaemons,   \* bound: processes ever spawned
    StaleAtStart, \* a daemon that died left its socket file
    MayDie,       \* daemons can be killed
    Policy        \* "NoConnections" or "Never"

ASSUME DaemonAssumption ==
    /\ MaxDaemons \in Nat /\ StaleAtStart \in BOOLEAN /\ MayDie \in BOOLEAN
    /\ Policy \in {"NoConnections", "Never"}

Daemons == 1 .. MaxDaemons
NoFile == 0
Dead == MaxDaemons + 1        \* owner of the file found at the start
NoDaemon == 0

Refused == {"refused", "timeout", "bad"}

VARIABLES
    file,     \* whose socket is at service_path
    daemon,   \* "off", "spawned", "removed", "bound", "listening", "gone"
    made,     \* processes spawned so far
    at,       \* launcher: "idle", "first", "spawn", "wait", "second",
              \* "up", or a member of Refused
    conn,     \* launcher: daemon its cached Client was made for
    \* AutoShutdownService of each daemon
    clients,  \* the launchers counted in connections
    stop,     \* shutdown_requested
    woken,    \* notify_waiters found the waiter
    service   \* run(): "new", "waiting", "done"

daemonVars == <<file, daemon, made, at, conn, clients, stop, woken,
                service>>
launcherVars == <<at, conn>>
serviceVars == <<clients, stop, woken, service>>

DaemonTypeOK ==
    /\ file \in 0 .. Dead
    /\ daemon \in [Daemons -> {"off", "spawned", "removed", "bound",
                               "listening", "gone"}]
    /\ made \in 0 .. MaxDaemons
    /\ at \in [Launchers -> {"idle", "first", "spawn", "wait", "second", "up"}
                            \cup Refused]
    /\ conn \in [Launchers -> Daemons \cup {NoDaemon}]
    /\ clients \in [Daemons -> SUBSET Launchers]
    /\ stop \in [Daemons -> BOOLEAN] /\ woken \in [Daemons -> BOOLEAN]
    /\ service \in [Daemons -> {"new", "waiting", "done"}]

DaemonInit ==
    /\ file = IF StaleAtStart THEN Dead ELSE NoFile
    /\ daemon = [d \in Daemons |-> "off"] /\ made = 0
    /\ at = [l \in Launchers |-> "idle"]
    /\ conn = [l \in Launchers |-> NoDaemon]
    /\ clients = [d \in Daemons |-> {}]
    /\ stop = [d \in Daemons |-> FALSE] /\ woken = [d \in Daemons |-> FALSE]
    /\ service = [d \in Daemons |-> "new"]

Serves(d) == d \in Daemons /\ daemon[d] = "listening"

Go(l, place) == at' = [at EXCEPT ![l] = place]

(***************************************************************************)
(* The launcher                                                            *)
(***************************************************************************)
Begin(l) ==
    /\ at[l] = "idle" /\ Go(l, "first")
    /\ UNCHANGED <<file, daemon, made, conn>> /\ UNCHANGED serviceVars

(* A client that connects; LaunchableServiceClient keeps it for good.      *)
Connected(l, d) ==
    /\ Go(l, "up")
    /\ conn' = [conn EXCEPT ![l] = d]
    /\ clients' = [clients EXCEPT ![d] = @ \cup {l}]
    /\ UNCHANGED <<stop, woken, service>>

FirstConnect(l) ==
    /\ at[l] = "first"
    /\ IF Serves(file) THEN Connected(l, file)
       ELSE Go(l, "spawn") /\ UNCHANGED conn /\ UNCHANGED serviceVars
    /\ UNCHANGED <<file, daemon, made>>

(* DaemonLauncher.start *)
Spawn(l) ==
    /\ at[l] = "spawn" /\ made < MaxDaemons
    /\ made' = made + 1
    /\ daemon' = [daemon EXCEPT ![made + 1] = "spawned"]
    /\ Go(l, "wait")
    /\ UNCHANGED <<file, conn>> /\ UNCHANGED serviceVars

SpawnFails(l) ==
    /\ at[l] = "spawn" /\ Go(l, "bad")
    /\ UNCHANGED <<file, daemon, made, conn>> /\ UNCHANGED serviceVars

Seen == file # NoFile

(* The loop asks only whether a file is there.  It gives up after ten      *)
(* seconds, which pass while no file is.                                   *)
Poll(l) ==
    /\ at[l] = "wait"
    /\ \/ Seen /\ Go(l, "second")
       \/ ~Seen /\ Go(l, "timeout")
    /\ UNCHANGED <<file, daemon, made, conn>> /\ UNCHANGED serviceVars

SecondConnect(l) ==
    /\ at[l] = "second"
    /\ IF Serves(file) THEN Connected(l, file)
       ELSE Go(l, "refused") /\ UNCHANGED conn /\ UNCHANGED serviceVars
    /\ UNCHANGED <<file, daemon, made>>

(* Mutant: the last client is recognised by the count after it is taken off. *)
LeavesLate(before) == Cardinality(before) = 0
LeavesLast(before) == Cardinality(before) = 1

RequestStop(d) ==
    /\ stop' = [stop EXCEPT ![d] = TRUE]
    /\ woken' = [woken EXCEPT ![d] = @ \/ service[d] = "waiting"]

(* The client is dropped at the end of the request.                        *)
Disconnect(l) ==
    LET d == conn[l]
    IN  /\ at[l] = "up" /\ Go(l, "idle")
        /\ conn' = [conn EXCEPT ![l] = NoDaemon]
        /\ clients' = [clients EXCEPT ![d] = @ \ {l}]
        /\ IF LeavesLast(clients[d]) /\ Policy = "NoConnections"
              /\ daemon[d] = "listening"
           THEN RequestStop(d) ELSE UNCHANGED <<stop, woken>>
        /\ UNCHANGED <<file, daemon, made, service>>

(***************************************************************************)
(* The daemon                                                              *)
(***************************************************************************)
Become(d, state) == daemon' = [daemon EXCEPT ![d] = state]

RemoveStale(d) ==
    /\ daemon[d] = "spawned" /\ Become(d, "removed")
    /\ file' = NoFile
    /\ UNCHANGED made /\ UNCHANGED launcherVars /\ UNCHANGED serviceVars

(* bind(2): it fails when the path exists, and the daemon ends.            *)
Bind(d) ==
    /\ daemon[d] = "removed"
    /\ IF file = NoFile THEN file' = d /\ Become(d, "bound")
       ELSE UNCHANGED file /\ Become(d, "gone")
    /\ UNCHANGED made /\ UNCHANGED launcherVars /\ UNCHANGED serviceVars

Listen(d) ==
    /\ daemon[d] = "bound" /\ Become(d, "listening")
    /\ UNCHANGED <<file, made>> /\ UNCHANGED launcherVars
    /\ UNCHANGED serviceVars

(* AutoShutdownService.run: the waiter is registered, and only then heard. *)
RunWaits(d) ==
    /\ daemon[d] = "listening" /\ service[d] = "new"
    /\ service' = [service EXCEPT ![d] = "waiting"]
    /\ UNCHANGED <<file, daemon, made, clients, stop, woken>>
    /\ UNCHANGED launcherVars

RunWakes(d) ==
    /\ daemon[d] = "listening" /\ service[d] = "waiting" /\ woken[d]
    /\ woken' = [woken EXCEPT ![d] = FALSE]
    /\ IF stop[d] THEN /\ service' = [service EXCEPT ![d] = "done"]
                       /\ Become(d, "gone")
       ELSE UNCHANGED <<service, daemon>>
    /\ UNCHANGED <<file, made, clients, stop>> /\ UNCHANGED launcherVars

Dies(d) ==
    /\ MayDie /\ daemon[d] \notin {"off", "gone"} /\ Become(d, "gone")
    /\ UNCHANGED <<file, made>> /\ UNCHANGED launcherVars
    /\ UNCHANGED serviceVars

LauncherStep(l) ==
    FirstConnect(l) \/ Spawn(l) \/ SpawnFails(l) \/ Poll(l) \/ SecondConnect(l)
DaemonStep(d) ==
    RemoveStale(d) \/ Bind(d) \/ Listen(d) \/ RunWaits(d) \/ RunWakes(d)

DaemonNext ==
    \/ \E l \in Launchers : Begin(l) \/ LauncherStep(l) \/ Disconnect(l)
    \/ \E d \in Daemons : DaemonStep(d) \/ Dies(d)

DaemonSpec == DaemonInit /\ [][DaemonNext]_daemonVars
(* Processes and threads run on.                                           *)
DaemonFairSpec ==
    /\ DaemonSpec
    /\ \A l \in Launchers : WF_daemonVars(LauncherStep(l))
    /\ \A d \in Daemons : WF_daemonVars(DaemonStep(d))

-----------------------------------------------------------------------------
(* Properties *)

(* A stop was asked for before run() waited: notify_waiters woke nobody,   *)
(* and run() does not look at shutdown_requested before it waits.          *)
Missed(d) == stop[d] /\ ~woken[d] /\ service[d] # "done"

(* A daemon under NoConnections that has had clients stops after the last  *)
(* of them left, whatever comes and goes meanwhile; unless the last one    *)
(* left before run() waited, when the daemon stays until a later client    *)
(* leaves (Missed).                                                        *)
LastClientStops ==
    \A d \in Daemons :
        Policy = "NoConnections" /\ daemon[d] = "listening" /\ clients[d] # {}
        ~> [](clients[d] # {}) \/ daemon[d] = "gone" \/ Missed(d)
=============================================================================
