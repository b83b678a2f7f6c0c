--------------------------- MODULE ProcessControl ---------------------------
(***************************************************************************)
(* How the agent replaces the running Xray: ProcessController              *)
(* (RestartAndWait, StopAndWait, runningPID) in the agent process, and     *)
(* RunManagedProcess in the supervisor process that the service manager    *)
(* keeps alive.  They share two files, the link current.json and xray.pid, *)
(* and nothing else: neither holds a lock.                                 *)
(*                                                                         *)
(* The caller switches current.json before it restarts Xray and removes it *)
(* before it stops Xray (Manager.Apply and Manager.rollback).  Two polls   *)
(* of waitForReplacement that see the same process are the stable period.  *)
(* Not modelled: the Xray binary behind the process (it does not change    *)
(* here) and the reuse of a process number by another program.             *)
(***************************************************************************)
EXTENDS Naturals

CONSTANTS
    Configs,    \* configuration files current.json may name
    Unhealthy,  \* configurations with which Xray ends by itself
    Pids,       \* process numbers
    MaxFaults,  \* bound: crashes and I/O errors
    None

ASSUME ProcessAssumption ==
    /\ Unhealthy \subseteq Configs
    /\ None \notin Configs
    /\ Pids \subseteq Nat \ {0}
    /\ MaxFaults \in Nat

VARIABLES
    current,    \* current.json
    sup, target,    \* RunManagedProcess: where it is, and what it read
    xray,       \* the Xray process
    termed,     \* it was sent SIGTERM
    pidFile,    \* xray.pid, 0 when missing
    ctl,        \* where the controller's caller is
    oldPID, candidatePID,
    outcome,    \* what the last call returned
    faults

supervisor == <<sup, target>>
process    == <<xray, termed>>
controller == <<ctl, oldPID, candidatePID, outcome>>
vars       == <<current, supervisor, process, pidFile, controller, faults>>

NoXray == [pid |-> 0, cfg |-> None]

TypeOK ==
    /\ current \in Configs \cup {None}
    /\ sup \in {"off", "read", "start", "pid", "run"}
    /\ target \in Configs \cup {None}
    /\ xray \in [pid : Pids, cfg : Configs] \cup {NoXray}
    /\ termed \in BOOLEAN
    /\ pidFile \in Pids \cup {0}
    /\ ctl \in {"idle", "old", "marker", "signal", "wait", "stop", "stop_signal", "stop_wait"}
    /\ oldPID \in Pids \cup {0} /\ candidatePID \in Pids \cup {0}
    /\ outcome \in {"none", "ok", "stopped", "error"}
    /\ faults \in 0..MaxFaults

\* A host on which no configuration was applied yet.
Init ==
    /\ current = None
    /\ sup = "off" /\ target = None
    /\ xray = NoXray /\ termed = FALSE
    /\ pidFile = 0
    /\ ctl = "idle" /\ oldPID = 0 /\ candidatePID = 0 /\ outcome = "none"
    /\ faults = 0

Fault == faults < MaxFaults /\ faults' = faults + 1

\* runningPID: a process number without a process counts as none.
RunningPID == IF pidFile = xray.pid THEN pidFile ELSE 0

-----------------------------------------------------------------------------
(* RunManagedProcess, restarted by systemd or supervise-daemon *)

\* The service starts only while current.json exists.
SupervisorStart ==
    /\ sup = "off" /\ current # None
    /\ sup' = "read"
    /\ UNCHANGED <<current, target, process, pidFile, controller, faults>>

\* Readlink of current.json.
SupervisorRead ==
    /\ sup = "read"
    /\ target' = current
    /\ sup' = (IF current = None THEN "off" ELSE "start")
    /\ UNCHANGED <<current, process, pidFile, controller, faults>>

\* command.Start, or an error before it.
SupervisorLaunch ==
    /\ sup = "start"
    /\ \/ /\ \E p \in Pids \ {pidFile, oldPID, candidatePID} :
                xray' = [pid |-> p, cfg |-> target]
          /\ termed' = FALSE /\ sup' = "pid" /\ UNCHANGED faults
       \/ Fault /\ sup' = "off" /\ UNCHANGED process
    /\ UNCHANGED <<current, target, pidFile, controller>>

\* Mutant: the file gets the configuration instead of the process number.
SupervisorWritePIDConfig ==
    /\ sup = "pid"
    /\ pidFile' = xray.cfg /\ sup' = "run"
    /\ UNCHANGED <<current, target, process, controller, faults>>

\* xray.pid is written; an error kills Xray again.  The number of an Xray
\* that has already ended is as good as none.
SupervisorWritePID ==
    /\ sup = "pid"
    /\ \/ /\ pidFile' = (IF xray = NoXray THEN pidFile ELSE xray.pid)
          /\ sup' = "run" /\ UNCHANGED <<process, faults>>
       \/ /\ Fault /\ sup' = "off"
          /\ xray' = NoXray /\ termed' = FALSE /\ UNCHANGED pidFile
    /\ UNCHANGED <<current, target, controller>>

\* Mutant: the supervisor does not notice that its child is gone.
SupervisorReapNever == sup = "run" /\ xray = NoXray /\ UNCHANGED vars

\* Xray has ended: xray.pid is removed and the supervisor ends with an error.
SupervisorReap ==
    /\ sup = "run" /\ xray = NoXray
    /\ pidFile' = 0 /\ sup' = "off"
    /\ UNCHANGED <<current, target, process, controller, faults>>

\* The service is stopped: Xray is stopped first and xray.pid removed.
SupervisorStop ==
    /\ sup = "run" /\ Fault
    /\ xray' = NoXray /\ termed' = FALSE
    /\ pidFile' = 0 /\ sup' = "off"
    /\ UNCHANGED <<current, target, controller>>

\* The service is killed with its control group; xray.pid stays behind.
SupervisorKilled ==
    /\ sup # "off" /\ Fault
    /\ sup' = "off" /\ xray' = NoXray /\ termed' = FALSE
    /\ UNCHANGED <<current, target, pidFile, controller>>

\* External: Xray ends, on SIGTERM, with a bad configuration, or by a crash.
XrayExit ==
    /\ xray # NoXray
    /\ \/ (termed \/ xray.cfg \in Unhealthy) /\ UNCHANGED faults
       \/ Fault
    /\ xray' = NoXray /\ termed' = FALSE
    /\ UNCHANGED <<current, supervisor, pidFile, controller>>

-----------------------------------------------------------------------------
(* ProcessController, and its callers in Manager *)

Finish(o) == ctl' = "idle" /\ outcome' = o

\* Apply and rollback switch current.json, then call RestartAndWait.
SwitchAndRestart(c) ==
    /\ ctl = "idle" /\ c # current
    /\ current' = c
    /\ ctl' = "old" /\ outcome' = "none"
    /\ UNCHANGED <<supervisor, process, pidFile, oldPID, candidatePID, faults>>

\* rollback of a first configuration removes current.json, then calls
\* StopAndWait.
RemoveAndStop ==
    /\ ctl = "idle" /\ current # None
    /\ current' = None
    /\ ctl' = "stop" /\ outcome' = "none"
    /\ UNCHANGED <<supervisor, process, pidFile, oldPID, candidatePID, faults>>

\* RestartAndWait: oldPID.
ReadOldPID ==
    /\ ctl = "old"
    /\ oldPID' = RunningPID /\ candidatePID' = 0
    /\ ctl' = "marker"
    /\ UNCHANGED <<current, supervisor, process, pidFile, outcome, faults>>

\* The restart marker; the service is started if it is not running.
WriteMarker ==
    /\ ctl = "marker"
    /\ \/ ctl' = "signal" /\ UNCHANGED <<outcome, faults>>
       \/ Fault /\ Finish("error")
    /\ UNCHANGED <<current, supervisor, process, pidFile, oldPID, candidatePID>>

\* signalProcess: a process that is gone is not an error.
SignalOld(from, to) ==
    /\ ctl = from
    /\ termed' = (termed \/ (oldPID # 0 /\ xray.pid = oldPID))
    /\ ctl' = to
    /\ UNCHANGED <<current, supervisor, xray, pidFile, oldPID, candidatePID,
                   outcome, faults>>

\* Mutant: any running process counts as the replacement.
PollAny ==
    /\ ctl = "wait"
    /\ \/ /\ RunningPID # 0 /\ RunningPID = candidatePID
          /\ Finish("ok") /\ UNCHANGED candidatePID
       \/ /\ RunningPID # candidatePID
          /\ candidatePID' = RunningPID /\ UNCHANGED <<ctl, outcome>>
    /\ UNCHANGED <<current, supervisor, process, pidFile, oldPID, faults>>

\* One turn of waitForReplacement.
PollReplacement ==
    /\ ctl = "wait"
    /\ LET fresh == RunningPID # 0 /\ RunningPID # oldPID
       IN  \/ /\ fresh /\ RunningPID = candidatePID
              /\ Finish("ok") /\ UNCHANGED candidatePID
           \/ /\ ~(fresh /\ RunningPID = candidatePID)
              /\ candidatePID' = (IF fresh THEN RunningPID ELSE 0)
              /\ UNCHANGED <<ctl, outcome>>
    /\ UNCHANGED <<current, supervisor, process, pidFile, oldPID, faults>>

\* StopAndWait: without a process there is nothing to do.
ReadStopPID ==
    /\ ctl = "stop"
    /\ oldPID' = RunningPID
    /\ IF RunningPID = 0 THEN Finish("stopped")
       ELSE ctl' = "stop_signal" /\ UNCHANGED outcome
    /\ UNCHANGED <<current, supervisor, process, pidFile, candidatePID, faults>>

\* Mutant: the first poll does not look at the process.
PollStoppedUnseen ==
    /\ ctl = "stop_wait"
    /\ Finish("stopped")
    /\ UNCHANGED <<current, supervisor, process, pidFile, oldPID, candidatePID, faults>>

\* One turn of StopAndWait's loop: it ends when no process is left.
PollStopped ==
    /\ ctl = "stop_wait" /\ RunningPID = 0
    /\ Finish("stopped")
    /\ UNCHANGED <<current, supervisor, process, pidFile, oldPID, candidatePID, faults>>

\* Mutant: the wait has no deadline.
DeadlineNever == ctl \in {"wait", "stop_wait"} /\ UNCHANGED vars

\* The deadline of either wait.
Deadline ==
    /\ ctl \in {"wait", "stop_wait"}
    /\ Finish("error")
    /\ UNCHANGED <<current, supervisor, process, pidFile, oldPID, candidatePID, faults>>

\* The agent ends in the middle of a call.
AgentCrash ==
    /\ ctl # "idle" /\ Fault
    /\ ctl' = "idle" /\ outcome' = "none"
    /\ UNCHANGED <<current, supervisor, process, pidFile, oldPID, candidatePID>>

-----------------------------------------------------------------------------
Supervise ==
    SupervisorStart \/ SupervisorRead \/ SupervisorLaunch \/ SupervisorWritePID \/ SupervisorReap

Call ==
    \/ ReadOldPID \/ WriteMarker \/ SignalOld("signal", "wait") \/ PollReplacement
    \/ ReadStopPID \/ SignalOld("stop_signal", "stop_wait") \/ PollStopped \/ Deadline

Next ==
    \/ Supervise \/ SupervisorStop \/ SupervisorKilled \/ XrayExit
    \/ (\E c \in Configs : SwitchAndRestart(c)) \/ RemoveAndStop
    \/ Call \/ AgentCrash

Spec == Init /\ [][Next]_vars

\* The service manager restarts the supervisor, which keeps executing; the
\* controller's deadline passes.
FairSpec ==
    /\ Spec /\ WF_vars(Supervise)
    /\ WF_vars(ReadOldPID \/ WriteMarker \/ ReadStopPID)
    /\ WF_vars(SignalOld("signal", "wait") \/ SignalOld("stop_signal", "stop_wait"))
    /\ WF_vars(Deadline)

-----------------------------------------------------------------------------
(* Properties *)

\* When RestartAndWait saw the old process, its success means that Xray was
\* started from the link as it was switched: whatever runs now runs current.
ReplacementRunsCurrent ==
    (outcome = "ok" /\ oldPID # 0) => xray.cfg \in {current, None}

\* When StopAndWait saw a process, its success means that nothing runs and
\* that nothing starts again from the removed link.
StoppedStaysStopped ==
    (outcome = "stopped" /\ oldPID # 0) => xray = NoXray

\* A successful RestartAndWait means that Xray runs the candidate ("A
\* candidate is confirmed only after the replacement Xray process remains
\* healthy").
ConfirmedRunsCurrent == outcome = "ok" => xray.cfg \in {current, None}

\* Every call of the controller returns, with an answer or an error.
CallReturns == ctl # "idle" ~> ctl = "idle"

\* While there is a configuration, Xray is started again and again.
XrayReturns == []<>(current = None \/ xray # NoXray)
=============================================================================
