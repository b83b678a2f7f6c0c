---------------------------- MODULE AgentUpdate ----------------------------
(***************************************************************************)
(* The agent's own update: update.Manager (install, Confirm,               *)
(* pruneVersions), its use by Client and main, the launcher script that    *)
(* supervises the agent and rolls back, and the release installer, which   *)
(* runs the same install in a process of its own, without a lock.          *)
(*                                                                         *)
(* Three processes share the state directory: the agent, the launcher and  *)
(* the installer.  Each file operation is one step.  A binary is a model   *)
(* value with a version string; two builds may share one.  Whether a       *)
(* binary can reach the center is a fact about it (Healthy); a healthy one *)
(* may still be too slow for its deadline.  Not modelled: download and     *)
(* checksums (a command names the binary its release holds), and the first *)
(* installation on an empty host.                                          *)
(***************************************************************************)
EXTENDS Integers, FiniteSets

CONSTANTS
    Binaries,       \* version directories: version and digest
    Version,        \* the version string of a binary
    Healthy,        \* binaries that start and reach the center
    Installed,      \* the binary the node starts from
    Commands,       \* ids of update commands from the center
    CommandBinary,  \* the binary a command's release holds
    Package,        \* the binary the release installer brings, or None
    Retained,       \* retainedVersions
    MaxFaults,      \* bound: crashes, I/O errors, lost results
    None

ASSUME UpdateAssumption ==
    /\ None \notin Binaries \cup Commands
    /\ Healthy \subseteq Binaries /\ Installed \in Healthy
    /\ CommandBinary \in [Commands -> Binaries]
    /\ DOMAIN Version = Binaries
    /\ Package \in Binaries \cup {None}
    /\ Retained \in Nat \ {0} /\ MaxFaults \in Nat

Agent     == "agent"
Installer == "installer"
Actors    == {Agent, Installer}

\* The id the installer gives its command.
PackageId == "installer"

VARIABLES
    mtime,      \* rank of every version directory by modification time
    current, previous,      \* the two links
    pending,    \* update-pending.json
    failed,     \* update-failed.json: its command
    launcher,   \* where the launcher script is
    status,     \* exit status of the last agent process
    bin,        \* the binary of the agent process
    validating, \* Client.validatePendingUpdate
    at,         \* where the agent and the installer are
    cmd, cand, old,     \* install's command, target and previousTarget
    faults,
    good        \* history: binaries that have proved their health

links == <<current, previous>>
vars  == <<mtime, links, pending, failed, launcher, status, bin, validating,
           at, cmd, cand, old, faults, good>>

NoPending == [cmd |-> None, prev |-> None, target |-> None]

InstallLabels == {"check", "prune", "write", "read", "prev", "pend", "switch", "sync"}

TypeOK ==
    /\ DOMAIN mtime \subseteq Binaries /\ mtime \in [DOMAIN mtime -> Nat]
    /\ current \in Binaries /\ previous \in Binaries \cup {None}
    /\ pending \in [cmd : Commands \cup {PackageId, None},
                    prev : Binaries \cup {None}, target : Binaries \cup {None}]
    /\ failed \in Commands \cup {PackageId, None}
    /\ launcher \in {"down", "loop", "run", "check", "mv"}
    /\ status \in {0, 1, 75}
    /\ bin \in Binaries \cup {None}
    /\ validating \in BOOLEAN
    /\ at \in [Actors -> InstallLabels \cup
                  {"off", "boot", "session", "report", "idle", "restart", "wait", "ok", "failed"}]
    /\ cmd \in [Actors -> Commands \cup {PackageId, None}]
    /\ cand \in [Actors -> Binaries \cup {None}]
    /\ old \in [Actors -> Binaries \cup {None}]
    /\ faults \in 0..MaxFaults
    /\ good \subseteq Binaries

Init ==
    /\ mtime = [b \in {Installed} |-> 0]
    /\ current = Installed /\ previous = None
    /\ pending = NoPending /\ failed = None
    /\ launcher = "down" /\ status = 0
    /\ bin = None /\ validating = FALSE
    /\ at = [a \in Actors |-> IF a = Agent THEN "off" ELSE "idle"]
    /\ cmd = [a \in Actors |-> None]
    /\ cand = [a \in Actors |-> None]
    /\ old = [a \in Actors |-> None]
    /\ faults = 0
    /\ good = {Installed}

-----------------------------------------------------------------------------
(* Helpers *)

Goto(a, l) == at' = [at EXCEPT ![a] = l]

Fault == faults < MaxFaults /\ faults' = faults + 1
NoFault == UNCHANGED faults

\* install returned: the agent reports and restarts, or goes on; the
\* installer restarts the service, or gives up.
Succeed(a) == Goto(a, IF a = Agent THEN "report" ELSE "restart")
Fail(a)    == Goto(a, IF a = Agent THEN "session" ELSE "failed")

\* Modification times matter by their order only, so they are kept as ranks.
Rank(f) == [b \in DOMAIN f |-> Cardinality({c \in DOMAIN f : f[c] < f[b]})]

\* The directories left, and their order, after some are removed.
Without(S) == Rank([b \in DOMAIN mtime \ S |-> mtime[b]])

\* Mutant: the rollback target is not protected.
KeptCurrentOnly ==
    {b \in DOMAIN mtime :
        \/ b = current
        \/ Cardinality({c \in DOMAIN mtime : mtime[c] > mtime[b]}) < Retained}

\* pruneVersions: the newest directories and the two linked ones stay.
Kept ==
    {b \in DOMAIN mtime :
        \/ b \in {current, previous}
        \/ Cardinality({c \in DOMAIN mtime : mtime[c] > mtime[b]}) < Retained}

\* The agent process ends and the launcher's wait returns.
Exit(s) ==
    /\ at' = [at EXCEPT ![Agent] = "off"]
    /\ bin' = None /\ validating' = FALSE
    /\ launcher' = "check" /\ status' = s

-----------------------------------------------------------------------------
(* update.Manager.install, run by the agent or by the installer *)

InstallCheck(a) ==
    /\ at[a] = "check"
    /\ \/ pending # NoPending /\ Fail(a)
       \/ pending = NoPending /\ Goto(a, "prune")
    /\ UNCHANGED <<mtime, links, pending, failed, launcher, status, bin,
                   validating, cmd, cand, old, faults, good>>

InstallPrune(a) ==
    /\ at[a] = "prune"
    /\ \/ mtime' = Without(DOMAIN mtime \ Kept) /\ Goto(a, "write") /\ NoFault
       \/ /\ \E S \in SUBSET (DOMAIN mtime \ Kept) : mtime' = Without(S)
          /\ Fault /\ Fail(a)
    /\ UNCHANGED <<links, pending, failed, launcher, status, bin, validating,
                   cmd, cand, old, good>>

\* The candidate is written, asked for its version and renamed into place.
InstallWrite(a) ==
    /\ at[a] = "write"
    /\ \/ /\ mtime' = Rank([b \in DOMAIN mtime \cup {cand[a]} |->
                         IF b = cand[a] THEN Cardinality(DOMAIN mtime) ELSE mtime[b]])
          /\ \/ Goto(a, "read") /\ NoFault
             \/ Fail(a) /\ Fault
       \/ Fail(a) /\ Fault /\ UNCHANGED mtime
    /\ UNCHANGED <<links, pending, failed, launcher, status, bin, validating,
                   cmd, cand, old, good>>

\* The current link is read; the same target needs no update.
InstallRead(a) ==
    /\ at[a] = "read"
    /\ old' = [old EXCEPT ![a] = current]
    /\ IF current = cand[a] THEN Succeed(a) ELSE Goto(a, "prev")
    /\ UNCHANGED <<mtime, links, pending, failed, launcher, status, bin,
                   validating, cmd, cand, faults, good>>

\* Mutant: an existing rollback link is kept.
InstallPreviousOnce(a) ==
    /\ at[a] = "prev" /\ Goto(a, "pend") /\ NoFault
    /\ previous' = (IF previous = None THEN old[a] ELSE previous)
    /\ UNCHANGED <<mtime, current, pending, failed, launcher, status, bin,
                   validating, cmd, cand, old, good>>

InstallPrevious(a) ==
    /\ at[a] = "prev"
    /\ \/ previous' = old[a] /\ Goto(a, "pend") /\ NoFault
       \/ UNCHANGED previous /\ Fail(a) /\ Fault
    /\ UNCHANGED <<mtime, current, pending, failed, launcher, status, bin,
                   validating, cmd, cand, old, good>>

InstallPending(a) ==
    /\ at[a] = "pend"
    /\ failed' = None
    /\ \/ /\ pending' = [cmd |-> cmd[a], prev |-> old[a], target |-> cand[a]]
          /\ Goto(a, "switch") /\ NoFault
       \/ UNCHANGED pending /\ Fail(a) /\ Fault
    /\ UNCHANGED <<mtime, links, launcher, status, bin, validating, cmd, cand,
                   old, good>>

\* When the link cannot be switched the record is removed, if that works.
InstallSwitch(a) ==
    /\ at[a] = "switch"
    /\ \/ current' = cand[a] /\ Goto(a, "sync") /\ NoFault /\ UNCHANGED pending
       \/ UNCHANGED current /\ pending' \in {pending, NoPending} /\ Fail(a) /\ Fault
    /\ UNCHANGED <<mtime, previous, failed, launcher, status, bin, validating,
                   cmd, cand, old, good>>

InstallSync(a) ==
    /\ at[a] = "sync"
    /\ \/ Succeed(a) /\ NoFault
       \/ Fail(a) /\ Fault
    /\ UNCHANGED <<mtime, links, pending, failed, launcher, status, bin,
                   validating, cmd, cand, old, good>>

Install(a) ==
    \/ InstallCheck(a) \/ InstallPrune(a) \/ InstallWrite(a) \/ InstallRead(a)
    \/ InstallPrevious(a) \/ InstallPending(a) \/ InstallSwitch(a) \/ InstallSync(a)

-----------------------------------------------------------------------------
(* The agent process *)

\* The running binary is not the one the pending record is about, as far as
\* version strings tell.
Mismatch == pending # NoPending /\ Version[pending.target] # Version[bin]

\* NewClient.
Boot ==
    /\ at[Agent] = "boot"
    /\ \/ Mismatch /\ Exit(1)
       \/ /\ ~Mismatch
          /\ Goto(Agent, "session") /\ validating' = (pending # NoPending)
          /\ UNCHANGED <<launcher, status, bin>>
    /\ UNCHANGED <<mtime, links, pending, failed, cmd, cand, old, faults, good>>

\* A heartbeat is acknowledged; the first one confirms a pending update
\* (Manager.Confirm, whose error ends the session but not the agent).
Heartbeat ==
    /\ at[Agent] = "session" /\ bin \in Healthy
    /\ \/ /\ ~validating /\ NoFault
          /\ UNCHANGED <<pending, validating, launcher, status, bin, at>>
       \/ /\ validating /\ ~Mismatch
          /\ \/ pending' = NoPending /\ validating' = FALSE /\ NoFault
             \/ pending' \in {pending, NoPending} /\ UNCHANGED validating /\ Fault
          /\ UNCHANGED <<launcher, status, bin, at>>
       \/ validating /\ Mismatch /\ Exit(1) /\ NoFault /\ UNCHANGED pending
    /\ good' = good \cup {bin}
    /\ UNCHANGED <<mtime, links, failed, cmd, cand, old>>

\* A control session ends; Run looks at the pending record.
SessionEnds ==
    /\ at[Agent] = "session" /\ Mismatch
    /\ Exit(1)
    /\ UNCHANGED <<mtime, links, pending, failed, cmd, cand, old, faults, good>>

\* The update did not prove its health in time, or the binary does not run.
HealthTimeout ==
    /\ at[Agent] = "session" /\ (validating \/ bin \notin Healthy)
    /\ Exit(1)
    /\ UNCHANGED <<mtime, links, pending, failed, cmd, cand, old, faults, good>>

\* executeAgentUpdate, for a command that came with an acknowledgement.
UpdateCommand(c) ==
    /\ at[Agent] = "session" /\ ~validating /\ bin \in Healthy
    /\ \/ pending.cmd = c /\ Goto(Agent, "report") /\ UNCHANGED <<cmd, cand>>
       \/ /\ pending.cmd # c /\ failed # c
          /\ Goto(Agent, "check")
          /\ cmd' = [cmd EXCEPT ![Agent] = c]
          /\ cand' = [cand EXCEPT ![Agent] = CommandBinary[c]]
    /\ UNCHANGED <<mtime, links, pending, failed, launcher, status, bin,
                   validating, old, faults, good>>

\* writeCommandResult: only an acknowledged result lets the agent restart.
Report ==
    /\ at[Agent] = "report"
    /\ \/ Exit(75) /\ NoFault
       \/ /\ Fault
          /\ IF Mismatch THEN Exit(1)
             ELSE Goto(Agent, "session") /\ UNCHANGED <<launcher, status, bin, validating>>
    /\ UNCHANGED <<mtime, links, pending, failed, cmd, cand, old, good>>

AgentCrash ==
    /\ at[Agent] # "off" /\ Fault
    /\ Exit(1)
    /\ UNCHANGED <<mtime, links, pending, failed, cmd, cand, old, good>>

-----------------------------------------------------------------------------
(* The launcher *)

LauncherStart ==
    /\ launcher \in {"down", "loop"}
    /\ launcher' = "run" /\ bin' = current
    /\ Goto(Agent, "boot")
    /\ UNCHANGED <<mtime, links, pending, failed, status, validating, cmd, cand,
                   old, faults, good>>

\* Mutant: the record is moved away but the link stays.
LauncherCheckNoSwitch ==
    /\ launcher = "check"
    /\ launcher' = (CASE pending = NoPending -> "down"
                      [] pending # NoPending /\ status = 75 -> "loop"
                      [] OTHER -> "mv")
    /\ UNCHANGED <<mtime, links, pending, failed, status, bin, validating, at,
                   cmd, cand, old, faults, good>>

\* After the agent's exit: restart, roll back, or leave it to the service
\* manager.
LauncherCheck ==
    /\ launcher = "check"
    /\ \/ pending = NoPending /\ launcher' = "down" /\ UNCHANGED current
       \/ /\ pending # NoPending /\ status = 75
          /\ launcher' = "loop" /\ UNCHANGED current
       \/ /\ pending # NoPending /\ status # 75
          /\ IF previous = None THEN launcher' = "down" /\ UNCHANGED current
             ELSE launcher' = "mv" /\ current' = previous
    /\ UNCHANGED <<mtime, previous, pending, failed, status, bin, validating,
                   at, cmd, cand, old, faults, good>>

\* Mutant: the failed record names the binary instead of the command.
LauncherRecordTarget ==
    /\ launcher = "mv"
    /\ failed' = pending.target /\ pending' = NoPending /\ launcher' = "loop"
    /\ UNCHANGED <<mtime, links, status, bin, validating, at, cmd, cand, old,
                   faults, good>>

LauncherRecord ==
    /\ launcher = "mv"
    /\ failed' = (IF pending = NoPending THEN failed ELSE pending.cmd)
    /\ pending' = NoPending
    /\ launcher' = "loop"
    /\ UNCHANGED <<mtime, links, status, bin, validating, at, cmd, cand, old, faults, good>>

\* The service is stopped, killed or the host goes down, the agent with it.
Stop ==
    /\ launcher' = "down" /\ bin' = None /\ validating' = FALSE

Kill ==
    /\ launcher # "down" /\ Fault /\ Stop
    /\ Goto(Agent, "off")
    /\ UNCHANGED <<mtime, links, pending, failed, status, cmd, cand, old, good>>

-----------------------------------------------------------------------------
(* The release installer, on an existing installation *)

InstallerStart ==
    /\ at[Installer] = "idle" /\ Package # None
    /\ \/ pending # NoPending /\ Goto(Installer, "failed")
       \/ pending = NoPending /\ Goto(Installer, "check")
    /\ cmd' = [cmd EXCEPT ![Installer] = PackageId]
    /\ cand' = [cand EXCEPT ![Installer] = Package]
    /\ UNCHANGED <<mtime, links, pending, failed, launcher, status, bin,
                   validating, old, faults, good>>

\* systemctl restart.
InstallerRestart ==
    /\ at[Installer] = "restart"
    /\ Stop
    /\ at' = [at EXCEPT ![Installer] = "wait", ![Agent] = "off"]
    /\ UNCHANGED <<mtime, links, pending, failed, status, cmd, cand, old,
                   faults, good>>

\* The installer's verdict, once the record is gone or it waited too long.
InstallerVerdict ==
    /\ at[Installer] = "wait"
    /\ \/ /\ pending = NoPending
          /\ Goto(Installer, IF current = Package /\ launcher # "down"
                             THEN "ok" ELSE "failed")
       \/ pending # NoPending /\ Goto(Installer, "failed")
    /\ UNCHANGED <<mtime, links, pending, failed, launcher, status, bin,
                   validating, cmd, cand, old, faults, good>>

-----------------------------------------------------------------------------
AgentStep == Boot \/ Heartbeat \/ SessionEnds \/ HealthTimeout \/ Report \/ AgentCrash

LauncherStep == LauncherStart \/ LauncherCheck \/ LauncherRecord

InstallerStep ==
    InstallerStart \/ Install(Installer) \/ InstallerRestart \/ InstallerVerdict

Next ==
    \/ AgentStep \/ LauncherStep \/ InstallerStep \/ Kill
    \/ Install(Agent) \/ \E c \in Commands : UpdateCommand(c)

Spec == Init /\ [][Next]_vars

\* Processes run and the service manager restarts the launcher.  A control
\* session does not last for ever, whatever commands it carries meanwhile:
\* the connection breaks (strong fairness, since a command takes the agent
\* out of the state in which Run can look at the pending record).  A
\* candidate is confirmed or its deadline passes.
FairSpec ==
    /\ Spec
    /\ WF_vars(LauncherStep) /\ WF_vars(Install(Agent)) /\ WF_vars(Boot)
    /\ WF_vars(Report) /\ SF_vars(SessionEnds)
    /\ WF_vars(Heartbeat \/ HealthTimeout)

-----------------------------------------------------------------------------
(* Properties *)

\* Without a pending record the launcher does not roll back, so the selected
\* binary must have proved its health; pruneVersions has kept what the links
\* name.  (What the installer does to a running agent is the subject of
\* InstallerSuccessIsProven.)
UnprotectedIsProven ==
    at[Installer] = "idle" /\ pending = NoPending =>
        current \in good /\ {current, previous} \ {None} \subseteq DOMAIN mtime

\* What the launcher would restore has proved its health and is on disk, so
\* that a failed update costs nothing; so is the candidate it would start.
RollbackTargetIsProven ==
    at[Installer] = "idle" /\ pending # NoPending =>
        /\ previous = pending.prev /\ previous \in good \cap DOMAIN mtime
        /\ current \in DOMAIN mtime

\* The installer reports success only for a binary that has proved its
\* health ("waits for the new Agent's first authenticated heartbeat").
InstallerSuccessIsProven == at[Installer] = "ok" => Package \in good

\* Every update is confirmed or rolled back, the installer's too; and whatever
\* the center sends and whatever fails, the node comes back to an agent that
\* reaches the center, as long as no installer works beside it.  (Run does not
\* notice an update that was not activated when it is another build of the
\* running version.)
NodeReturns ==
    []<>(/\ \/ pending = NoPending
            \/ bin # None /\ Version[pending.target] = Version[bin]
         /\ at[Installer] = "idle" => at[Agent] = "session" /\ bin \in Healthy)
=============================================================================
