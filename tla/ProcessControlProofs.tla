------------------------ MODULE ProcessControlProofs ------------------------
(***************************************************************************)
(* Proofs about ProcessControl, for every set of configurations and        *)
(* process numbers and every number of faults: a restart or a stop that    *)
(* saw the old process cannot be fooled by the supervisor.                 *)
(***************************************************************************)
EXTENDS ProcessControl, TLAPS

-----------------------------------------------------------------------------
(* The inductive invariant *)

\* Xray is the child of the supervisor and runs what the supervisor read.
ChildInv ==
    /\ xray # NoXray => sup \in {"pid", "run"} /\ xray.cfg = target
    /\ sup \in {"start", "pid"} => target # None

\* A call that is under way has no answer yet.
CallInv == ctl # "idle" => outcome = "none"

\* Once the old process was seen, the supervisor reads the link only after
\* it was switched, so any other process runs the new configuration.
RestartInv ==
    (oldPID # 0 /\ (ctl \in {"marker", "signal", "wait"} \/ outcome = "ok")) =>
        /\ sup = "start" => target = current
        /\ xray # NoXray => xray.cfg = current \/ (xray.pid = oldPID /\ outcome # "ok")

\* Once a process was seen, the supervisor cannot start another one without
\* the link, and the file names the process until it is gone.
StopInv ==
    /\ ctl \in {"stop", "stop_signal", "stop_wait"} => current = None
    /\ ctl \in {"stop_signal", "stop_wait"} =>
          /\ oldPID # 0 /\ sup # "start"
          /\ xray # NoXray => xray.pid = oldPID /\ pidFile = oldPID
    /\ (outcome = "stopped" /\ oldPID # 0) =>
          current = None /\ sup # "start" /\ xray = NoXray

Inv == TypeOK /\ ChildInv /\ CallInv /\ RestartInv /\ StopInv

\* Every step keeps the files, processes and locals well formed.
LEMMA TypeStep ==
    ASSUME TypeOK, ChildInv, [Next]_vars
    PROVE  TypeOK'
<1> USE ProcessAssumption DEF TypeOK, ChildInv, NoXray, supervisor, process, controller
<1>1. CASE SupervisorStart
  BY <1>1 DEF SupervisorStart
<1>2. CASE SupervisorRead
  BY <1>2 DEF SupervisorRead
<1>3. CASE SupervisorLaunch
  <2>1. termed' \in BOOLEAN
    BY <1>3, Zenon DEF SupervisorLaunch, Fault
  <2>2. faults' \in 0..MaxFaults
    BY <1>3 DEF SupervisorLaunch, Fault
  <2>3. xray' \in [pid : Pids, cfg : Configs] \cup {NoXray}
    BY <1>3 DEF SupervisorLaunch, Fault
  <2> QED
    BY <1>3, <2>1, <2>2, <2>3 DEF SupervisorLaunch
<1>4. CASE SupervisorWritePID
  <2>1. termed' \in BOOLEAN
    BY <1>4, Zenon DEF SupervisorWritePID, Fault
  <2>2. faults' \in 0..MaxFaults
    BY <1>4 DEF SupervisorWritePID, Fault
  <2>3. xray' \in [pid : Pids, cfg : Configs] \cup {NoXray}
    BY <1>4 DEF SupervisorWritePID, Fault
  <2> QED
    BY <1>4, <2>1, <2>2, <2>3 DEF SupervisorWritePID
<1>5. CASE SupervisorReap
  BY <1>5 DEF SupervisorReap
<1>6. CASE SupervisorStop
  <2>1. termed' \in BOOLEAN
    BY <1>6, Zenon DEF SupervisorStop, Fault
  <2>2. faults' \in 0..MaxFaults
    BY <1>6 DEF SupervisorStop, Fault
  <2>3. xray' \in [pid : Pids, cfg : Configs] \cup {NoXray}
    BY <1>6 DEF SupervisorStop, Fault
  <2> QED
    BY <1>6, <2>1, <2>2, <2>3 DEF SupervisorStop
<1>7. CASE SupervisorKilled
  <2>1. termed' \in BOOLEAN
    BY <1>7, Zenon DEF SupervisorKilled, Fault
  <2>2. faults' \in 0..MaxFaults
    BY <1>7 DEF SupervisorKilled, Fault
  <2>3. xray' \in [pid : Pids, cfg : Configs] \cup {NoXray}
    BY <1>7 DEF SupervisorKilled, Fault
  <2> QED
    BY <1>7, <2>1, <2>2, <2>3 DEF SupervisorKilled
<1>8. CASE XrayExit
  <2>1. termed' \in BOOLEAN
    BY <1>8, Zenon DEF XrayExit, Fault
  <2>2. faults' \in 0..MaxFaults
    BY <1>8 DEF XrayExit, Fault
  <2>3. xray' \in [pid : Pids, cfg : Configs] \cup {NoXray}
    BY <1>8 DEF XrayExit, Fault
  <2> QED
    BY <1>8, <2>1, <2>2, <2>3 DEF XrayExit
<1>9. ASSUME NEW c \in Configs, SwitchAndRestart(c) PROVE TypeOK'
  BY <1>9 DEF SwitchAndRestart
<1>10. CASE RemoveAndStop
  BY <1>10 DEF RemoveAndStop
<1>11. CASE ReadOldPID
  BY <1>11 DEF ReadOldPID, RunningPID
<1>12. CASE WriteMarker
  BY <1>12 DEF WriteMarker, Fault, Finish
<1>13. CASE SignalOld("signal", "wait")
  BY <1>13 DEF SignalOld
<1>14. CASE PollReplacement
  BY <1>14 DEF PollReplacement, RunningPID, Finish
<1>15. CASE ReadStopPID
  BY <1>15 DEF ReadStopPID, RunningPID, Finish
<1>16. CASE SignalOld("stop_signal", "stop_wait")
  BY <1>16 DEF SignalOld
<1>17. CASE PollStopped
  BY <1>17 DEF PollStopped, RunningPID, Finish
<1>18. CASE Deadline
  BY <1>18 DEF Deadline, Finish
<1>19. CASE AgentCrash
  BY <1>19 DEF AgentCrash, Fault
<1>20. CASE UNCHANGED vars
  BY <1>20 DEF vars
<1> QED
  BY <1>1, <1>2, <1>3, <1>4, <1>5, <1>6, <1>7, <1>8, <1>9, <1>10,
     <1>11, <1>12, <1>13, <1>14, <1>15, <1>16, <1>17, <1>18, <1>19, <1>20
     DEF Next, Supervise, Call

\* Every step keeps what the calls rely on.
LEMMA InvStep ==
    ASSUME Inv, TypeOK', [Next]_vars
    PROVE  (ChildInv /\ CallInv /\ RestartInv /\ StopInv)'
<1> USE ProcessAssumption
    DEF Inv, TypeOK, ChildInv, CallInv, RestartInv, StopInv, NoXray,
        supervisor, process, controller
<1>1. CASE SupervisorStart
  BY <1>1 DEF SupervisorStart
<1>2. CASE SupervisorRead
  BY <1>2 DEF SupervisorRead
<1>3. CASE SupervisorLaunch
  BY <1>3 DEF SupervisorLaunch, Fault
<1>4. CASE SupervisorWritePID
  BY <1>4 DEF SupervisorWritePID, Fault
<1>5. CASE SupervisorReap
  BY <1>5 DEF SupervisorReap
<1>6. CASE SupervisorStop
  BY <1>6 DEF SupervisorStop, Fault
<1>7. CASE SupervisorKilled
  BY <1>7 DEF SupervisorKilled, Fault
<1>8. CASE XrayExit
  BY <1>8 DEF XrayExit, Fault
<1>9. ASSUME NEW c \in Configs, SwitchAndRestart(c)
      PROVE  (ChildInv /\ CallInv /\ RestartInv /\ StopInv)'
  BY <1>9 DEF SwitchAndRestart
<1>10. CASE RemoveAndStop
  BY <1>10 DEF RemoveAndStop
<1>11. CASE ReadOldPID
  BY <1>11 DEF ReadOldPID, RunningPID
<1>12. CASE WriteMarker
  BY <1>12 DEF WriteMarker, Fault, Finish
<1>13. CASE SignalOld("signal", "wait")
  BY <1>13 DEF SignalOld
<1>14. CASE PollReplacement
  BY <1>14 DEF PollReplacement, RunningPID, Finish
<1>15. CASE ReadStopPID
  BY <1>15 DEF ReadStopPID, RunningPID, Finish
<1>16. CASE SignalOld("stop_signal", "stop_wait")
  BY <1>16 DEF SignalOld
<1>17. CASE PollStopped
  BY <1>17 DEF PollStopped, RunningPID, Finish
<1>18. CASE Deadline
  BY <1>18 DEF Deadline, Finish
<1>19. CASE AgentCrash
  BY <1>19 DEF AgentCrash, Fault
<1>20. CASE UNCHANGED vars
  BY <1>20 DEF vars
<1> QED
  BY <1>1, <1>2, <1>3, <1>4, <1>5, <1>6, <1>7, <1>8, <1>9, <1>10,
     <1>11, <1>12, <1>13, <1>14, <1>15, <1>16, <1>17, <1>18, <1>19, <1>20
     DEF Next, Supervise, Call

-----------------------------------------------------------------------------
(* Theorems *)

\* Every reachable state, whatever crashed in between, satisfies the
\* inductive invariant.
THEOREM Invariance == Spec => []Inv
<1>1. Init => Inv
  <2> SUFFICES ASSUME Init PROVE Inv
    OBVIOUS
  <2>1. termed \in BOOLEAN
    BY Zenon DEF Init
  <2>2. faults \in 0..MaxFaults
    BY ProcessAssumption DEF Init
  <2>3. TypeOK
    BY <2>1, <2>2 DEF Init, TypeOK
  <2> QED
    BY <2>3 DEF Init, Inv, ChildInv, CallInv, RestartInv, StopInv
<1>2. Inv /\ [Next]_vars => Inv'
  BY TypeStep, InvStep DEF Inv
<1> QED
  BY <1>1, <1>2, PTL DEF Spec

\* Files, processes and locals stay well formed: a process number is only
\* ever that of an Xray the supervisor started.
THEOREM TypeCorrect == Spec => []TypeOK
<1>1. Inv => TypeOK
  BY DEF Inv
<1> QED
  BY <1>1, Invariance, PTL

\* RestartAndWait, when it saw the process it replaces, succeeds only with an
\* Xray that was started from the switched link.
THEOREM ReplacementIsCurrent == Spec => []ReplacementRunsCurrent
<1>1. Inv => ReplacementRunsCurrent
  BY DEF Inv, TypeOK, RestartInv, ReplacementRunsCurrent, NoXray
<1> QED
  BY <1>1, Invariance, PTL

\* StopAndWait, when it saw a process, succeeds only when Xray is gone for
\* good.
THEOREM StopIsFinal == Spec => []StoppedStaysStopped
<1>1. Inv => StoppedStaysStopped
  BY DEF Inv, StopInv, StoppedStaysStopped
<1> QED
  BY <1>1, Invariance, PTL
=============================================================================
