----------------------------- MODULE MCServices -----------------------------
(***************************************************************************)
(* Instances of the components that talk to other processes.  The          *)
(* components share no state, so they are checked one at a time: component *)
(* says whose turn it is, and the others keep their initial state.         *)
(***************************************************************************)
EXTENDS Ipc, Framing, Daemon, Telemetry

CONSTANTS t1, t2

\* Two values to a byte and at most two bytes of length: a document of four
\* bytes is too long for its prefix.
SmallPayloads == {<<>>, <<3>>, <<2, 1>>, <<0, 3, 2>>, <<1, 1, 0, 2>>}

\* One settings document.
Settings == <<"android">>

(* Nothing in the service stack hangs: a daemon without clients stops, a   *)
(* pass of the telemetry thread ends and its timer stops (server.rs of     *)
(* daemon-utils, manager.rs, task.rs), with the exceptions the three name. *)
ServicesEnd == LastClientStops /\ FlushEnds /\ TaskStops

VARIABLE component     \* the component this behaviour is about

allVars == <<component, ipcVars, framingVars, daemonVars, telemetryVars,
             delayVars>>

Components == {"ipc", "framing", "daemon", "telemetry", "task"}

SuiteInit ==
    /\ component \in Components
    /\ IpcInit
    /\ FramingInit
    /\ DaemonInit
    /\ TelemetryInit
    /\ DelayInit

OnlyIpc == component = "ipc" /\ UNCHANGED <<component, framingVars,
             daemonVars, telemetryVars, delayVars>>
OnlyFraming == component = "framing" /\ UNCHANGED <<component, ipcVars,
             daemonVars, telemetryVars, delayVars>>
OnlyDaemon == component = "daemon" /\ UNCHANGED <<component, ipcVars,
             framingVars, telemetryVars, delayVars>>
OnlyTelemetry == component = "telemetry" /\ UNCHANGED <<component, ipcVars,
             framingVars, daemonVars, delayVars>>
OnlyTask == component = "task" /\ UNCHANGED <<component, ipcVars,
             framingVars, daemonVars, telemetryVars>>

SuiteNext ==
    \/ OnlyIpc /\ IpcNext
    \/ OnlyFraming /\ FramingNext
    \/ OnlyDaemon /\ DaemonNext
    \/ OnlyTelemetry /\ TelemetryNext
    \/ OnlyTask /\ DelayNext

SuiteSpec ==
    /\ SuiteInit /\ [][SuiteNext]_allVars
    /\ WF_allVars(OnlyIpc /\ ReaderStep)
    /\ WF_allVars(OnlyIpc /\ ServerStep)
    /\ WF_allVars(OnlyIpc /\ HelloReturns)
    /\ WF_allVars(OnlyIpc /\ (\E i \in Ids : Insert(i) \/ Write(i)))
    /\ WF_allVars(OnlyFraming /\ (FrameRead \/ FrameDecode))
    /\ \A l \in Launchers : WF_allVars(OnlyDaemon /\ LauncherStep(l))
    /\ \A d \in Daemons : WF_allVars(OnlyDaemon /\ DaemonStep(d))
    /\ WF_allVars(OnlyTelemetry /\ FlushStep)
    /\ WF_allVars(OnlyTask /\ LoopStep)
=============================================================================
