---------------------------- MODULE BinaryUpdate ----------------------------
(***************************************************************************)
(* The managed Xray bundle of one node: internal/xrayupdate (Manager.Apply *)
(* from installPrepared on, Recover, rollback, pruneVersions) and the      *)
(* resolver that tells everyone which executable is active                 *)
(* (internal/xraybinary, ActivePath).                                      *)
(*                                                                         *)
(* Every durable write is a step of its own; each may report an error, and *)
(* since all of them end in a directory fsync the error may come after the *)
(* new state is visible.  The supervisor (RunManagedProcess) starts Xray   *)
(* whenever current.json exists, in steps that fall between any two of the *)
(* agent.  The process controller knows a process by xray.pid, and accepts *)
(* it only if it runs the active executable (runningPID); any other one is *)
(* an error.  One call of the controller is one step.                      *)
(*                                                                         *)
(* A bundle stands for its version, Xray version and archive digest, which *)
(* its directory name and state file carry; applied.json and the two       *)
(* halves of the pending record are the bundles they name.  Not modelled:  *)
(* manifest, download and archive checks (a command brings a bundle).  Of  *)
(* the configuration only its first apply is here, with its rollback; an   *)
(* update of an applied one is the subject of ConfigApply, and what it     *)
(* means for a bundle that of ManagedRuntime.                              *)
(***************************************************************************)
EXTENDS Integers, FiniteSets

CONSTANTS
    Bundles,    \* releases the center may ask for
    Unhealthy,  \* bundles that fail a check or with which Xray does not stay up
    Bootstrap,  \* the configured executable, used before the first bundle
    Retained,   \* retainedVersions
    MaxFaults,  \* bound: crashes, I/O errors and damaged bundles
    MaxDrifts,  \* bound: bundles damaged from outside, of these
    None

ASSUME BundleAssumption ==
    /\ Unhealthy \subseteq Bundles
    /\ None \notin Bundles \cup {Bootstrap} /\ Bootstrap \notin Bundles
    /\ Retained \in Nat \ {0}
    /\ MaxFaults \in Nat /\ MaxDrifts \in Nat

VARIABLES
    mtime,      \* rank of every bundle directory by modification time
    broken,     \* bundle directories that do not verify
    current, previous,      \* the two links
    applied,    \* applied.json
    pending,    \* update-pending.json
    failed,     \* update-failed.json: its recovery status
    config,     \* the configuration: see Configuration below
    xray,       \* the executable the supervisor starts or has started
    stage,      \* how far it got: Xray started, then seen in xray.pid
    stale,      \* history: an update was decided that left this Xray alone
    pc, req, tgt, prev, hasConfig, mode,    \* locals
    result,     \* what the last command returned
    faults, drifts

files  == <<mtime, broken>>
state  == <<current, previous, applied, pending, failed>>
process == <<xray, stage, stale>>
locals == <<req, tgt, prev, hasConfig, mode>>
vars   == <<files, state, config, process, pc, locals, result, faults, drifts>>

Link      == Bundles \cup {None}
NoPending == [target |-> None, prev |-> None]

\* Result.Status and RecoveryStatus, together.
Results == {"none", "installed", "not_required", "unknown", "rolled_back", "failed"}

\* No configuration; a first one that is switched to but not applied
\* (current.json without applied.json); its rollback, with current.json
\* removed and the record still there; an applied one.
Configuration == {"none", "begun", "undone", "applied"}

Labels ==
    {"idle", "down", "recover", "check", "prune", "install", "load", "pend", "stop",
     "switch", "restart", "previous", "persist", "confirm", "clear", "prune_end",
     "rb", "rb_stop", "rb_current", "rb_applied", "rb_rmapplied", "rb_restart",
     "rb_failed", "rb_clear", "rb_error", "cfg_restart", "cfg_rb"}

TypeOK ==
    /\ DOMAIN mtime \subseteq Bundles /\ mtime \in [DOMAIN mtime -> Nat]
    /\ broken \subseteq DOMAIN mtime
    /\ current \in Link /\ previous \in Link /\ applied \in Link
    /\ pending \in [target : Link, prev : Link]
    /\ failed \in {"none", "rolled_back", "failed"}
    /\ config \in Configuration /\ hasConfig \in BOOLEAN
    /\ xray \in Link \cup {Bootstrap}
    /\ stage \in {"none", "started", "seen"}
    /\ stale \in BOOLEAN
    /\ pc \in Labels
    /\ req \in Link /\ tgt \in Link /\ prev \in Link
    /\ mode \in {"apply", "again", "recover"}
    /\ result \in Results
    /\ faults \in 0..MaxFaults /\ drifts \in 0..MaxDrifts

-----------------------------------------------------------------------------
(* Helpers *)

Goto(l) == pc' = l /\ UNCHANGED faults

Fault(l) == faults < MaxFaults /\ faults' = faults + 1 /\ pc' = l

Return(r) == result' = r

\* loadVerifiedTarget: a whole bundle.
Verified(b) == b \in DOMAIN mtime \ broken

\* verifyApplied.
VerifyApplied == current = applied /\ Verified(applied)

\* ActivePath: with an applied marker a missing link is an error, not the
\* bootstrap executable.
Active ==
    CASE current # None -> current
      [] current = None /\ applied # None -> None
      [] OTHER -> Bootstrap

\* What a start attempt of RunManagedProcess can bring up at all; of that, what
\* may stay up (a damaged bundle may or may not), and whether it must.
Startable == {Active} \cap (DOMAIN mtime \cup {Bootstrap})
Lasting   == {x \in Startable : x \in broken \/ x \notin Unhealthy}
Stays     == Lasting # {} /\ Active \notin broken

\* runningPID does not fail: xray.pid names no process, or the right one.
Recognised == stage = "seen" => xray = Active

\* appliedConfigPath: a configuration is applied.
HasConfig == config = "applied"

Protected == {current, previous, applied, pending.target, pending.prev} \ {None}

\* Ranks start at 0 without gaps.
Rank(f) == [b \in DOMAIN f |-> Cardinality({c \in DOMAIN f : f[c] < f[b]})]

Without(S) == mtime' = Rank([b \in DOMAIN mtime \ S |-> mtime[b]])

\* Mutant: only the current bundle and the candidate are protected.
KeptNoPrevious ==
    {b \in DOMAIN mtime :
        \/ b \in broken \/ b \in {current, pending.target}
        \/ Cardinality({c \in DOMAIN mtime \ broken : mtime[c] > mtime[b]}) < Retained}

\* pruneVersions looks only at bundles that verify: the newest and the
\* protected ones stay, broken ones are never touched.
Kept ==
    {b \in DOMAIN mtime :
        \/ b \in broken \/ b \in Protected
        \/ Cardinality({c \in DOMAIN mtime \ broken : mtime[c] > mtime[b]}) < Retained}

\* Every surplus bundle is removed; an error or a crash cuts the loop short
\* and may leave one bundle with some of its files.
PruneVersions(next, ok, r) ==
    \/ Without(DOMAIN mtime \ Kept) /\ UNCHANGED broken /\ Goto(next) /\ Return(ok)
    \/ \E S \in SUBSET (DOMAIN mtime \ Kept) :
         /\ Without(S)
         /\ \/ UNCHANGED broken
            \/ \E b \in DOMAIN mtime \ (Kept \cup S) : broken' = broken \cup {b}
         /\ \/ Fault("idle") /\ Return(r)
            \/ Fault("down") /\ Return("none")

-----------------------------------------------------------------------------
\* A managed node that has no bundle yet, with or without a configuration.
Init ==
    /\ mtime = [b \in {} |-> 0] /\ broken = {}
    /\ current = None /\ previous = None /\ applied = None
    /\ pending = NoPending /\ failed = "none"
    /\ config \in {"none", "applied"}
    /\ xray = None /\ stage = "none" /\ stale = FALSE
    /\ pc = "recover"
    /\ req = None /\ tgt = None /\ prev = None
    /\ hasConfig = FALSE /\ mode = "recover"
    /\ result = "none" /\ faults = 0 /\ drifts = 0

(* installPrepared *)

\* executeXrayUpdate, for a release that passed download and archive checks.
Apply(b) ==
    /\ pc = "idle"
    /\ req' = b /\ tgt' = None /\ prev' = None /\ hasConfig' = FALSE /\ mode' = "apply"
    /\ Goto("check") /\ Return("none")
    /\ UNCHANGED <<files, state, config, process, drifts>>

Check ==
    /\ pc = "check"
    /\ \/ pending # NoPending /\ Goto("idle") /\ Return("unknown")
       \/ pending = NoPending /\ Goto("prune") /\ UNCHANGED result
    /\ UNCHANGED <<files, state, config, process, locals, drifts>>

Prune ==
    /\ pc = "prune"
    /\ PruneVersions("install", "none", "not_required")
    /\ UNCHANGED <<state, config, process, locals, drifts>>

\* installBundleFiles (a directory is built aside and renamed) and
\* ValidateVersion.
InstallBundle ==
    /\ pc = "install"
    /\ tgt' = req
    /\ \/ req \in broken /\ Goto("idle") /\ Return("not_required") /\ UNCHANGED mtime
       \/ /\ req \notin broken
          /\ LET added == Rank([b \in DOMAIN mtime \cup {req} |->
                     IF b \in DOMAIN mtime THEN mtime[b] ELSE Cardinality(DOMAIN mtime)])
             IN  \/ mtime' = added /\ Goto("load") /\ UNCHANGED result
                 \/ req \in Unhealthy /\ mtime' = added /\ Goto("idle") /\ Return("not_required")
                 \/ mtime' \in {mtime, added} /\ Fault("idle") /\ Return("not_required")
    /\ UNCHANGED <<broken, state, config, process, req, prev, hasConfig, mode, drifts>>

\* Mutant: the applied bundle is not recorded as the rollback target.
LoadAppliedFresh ==
    /\ pc = "load"
    /\ prev' = None /\ hasConfig' = HasConfig /\ Goto("pend")
    /\ UNCHANGED <<files, state, config, process, req, tgt, mode, result, drifts>>

\* The applied state, ValidateConfig with the candidate, and Preflight.
LoadApplied ==
    /\ pc = "load"
    /\ prev' = applied /\ hasConfig' = HasConfig
    /\ LET refuse == IF applied = None THEN current # None ELSE ~VerifyApplied
       IN  \/ refuse /\ Goto("idle") /\ Return("not_required") /\ UNCHANGED mode
           \/ /\ ~refuse /\ applied = tgt
              /\ mode' = "again" /\ Goto("clear") /\ UNCHANGED result
           \/ /\ ~refuse /\ applied # tgt /\ UNCHANGED mode
              /\ \/ HasConfig /\ Goto("idle") /\ Return("not_required")
                 \/ (HasConfig => Recognised) /\ Goto("pend") /\ UNCHANGED result
    /\ UNCHANGED <<files, state, config, process, req, tgt, drifts>>

\* Mutant: the bundle is activated without a record.
PersistPendingSkipped ==
    /\ pc = "pend" /\ Goto("stop")
    /\ UNCHANGED <<files, state, config, process, locals, result, drifts>>

PersistPending ==
    /\ pc = "pend"
    /\ LET record == [target |-> tgt, prev |-> prev]
       IN  \/ pending' = record /\ Goto("stop") /\ UNCHANGED result
           \/ pending' \in {pending, record} /\ Fault("idle") /\ Return("not_required")
    /\ UNCHANGED <<files, current, previous, applied, failed, config, process,
                   locals, drifts>>

\* StopAndWait: the process in xray.pid ends; without one there is nothing to
\* do, also while Xray is being started.
StopAndWait(next, err) ==
    \/ /\ stage = "seen" /\ Recognised
       /\ xray' = None /\ stage' = "none" /\ stale' = FALSE /\ Goto(next)
    \/ stage # "seen" /\ UNCHANGED process /\ Goto(next)
    \/ ~Recognised /\ UNCHANGED process /\ Goto(err)
    \/ Recognised /\ UNCHANGED process /\ Fault(err)

\* RestartAndWait: a process that runs the active executable is replaced, or
\* appears, and stays; any other one is an error as soon as xray.pid names it.
\* After an error Xray is where the steps of the supervisor leave it.
RestartAndWait(next, err) ==
    \/ /\ Recognised /\ xray' \in Lasting /\ stage' = "seen" /\ stale' = FALSE
       /\ Goto(next)
    \/ /\ xray \notin {None, Active}
       /\ stage' = "seen" /\ UNCHANGED <<xray, stale>> /\ Goto(err)
    \/ /\ UNCHANGED process
       /\ IF Stays /\ Recognised THEN Fault(err) ELSE Goto(err)

\* Without an applied configuration there is no process to handle.
StopCurrent ==
    /\ pc = "stop"
    /\ IF hasConfig THEN StopAndWait("switch", "rb")
       ELSE Goto("switch") /\ UNCHANGED process
    /\ UNCHANGED <<files, state, config, locals, result, drifts>>

SwitchCurrent ==
    /\ pc = "switch"
    /\ \/ current' = tgt /\ Goto("restart")
       \/ current' \in {current, tgt} /\ Fault("rb")
    /\ UNCHANGED <<files, previous, applied, pending, failed, config, process,
                   locals, result, drifts>>

Activate ==
    /\ pc = "restart"
    /\ IF hasConfig THEN RestartAndWait("previous", "rb")
       ELSE Goto("previous") /\ UNCHANGED process
    /\ UNCHANGED <<files, state, config, locals, result, drifts>>

\* Mutant: the link gets the record.
RecordPreviousRecord ==
    /\ pc = "previous"
    /\ previous' = pending /\ Goto("persist")
    /\ UNCHANGED <<files, current, applied, pending, failed, config, process,
                   locals, result, drifts>>

RecordPrevious ==
    /\ pc = "previous"
    /\ \/ previous' = (IF prev # None THEN prev ELSE previous) /\ Goto("persist")
       \/ prev # None /\ previous' \in {previous, prev} /\ Fault("rb")
    /\ UNCHANGED <<files, current, applied, pending, failed, config, process,
                   locals, result, drifts>>

PersistApplied ==
    /\ pc = "persist"
    /\ \/ applied' = tgt /\ Goto("confirm")
       \/ applied' \in {applied, tgt} /\ Fault("rb")
    /\ UNCHANGED <<files, current, previous, pending, failed, config, process,
                   locals, result, drifts>>

\* What follows Recover: the configuration's own, which has something to do
\* only if a first configuration is undecided.
Recovered == IF config \in {"begun", "undone"} THEN "cfg_rb" ELSE "idle"

\* An error of the last steps: a command answers, Recover's ends the process.
Failing ==
    /\ Fault(IF mode = "recover" THEN "down" ELSE "idle")
    /\ Return(CASE mode = "apply" -> "unknown"
                [] mode = "again" -> "not_required"
                [] mode = "recover" -> "none")

\* An update that is decided while no configuration is applied leaves alone
\* whatever Xray the supervisor runs.
Decided ==
    /\ UNCHANGED <<xray, stage>>
    /\ stale' = (stale \/ (pending' = NoPending /\ ~hasConfig /\ xray \notin {None, Active}))

RemovePending ==
    /\ pc = "confirm"
    /\ \/ pending' = NoPending /\ Goto("clear") /\ UNCHANGED result
       \/ pending' \in {pending, NoPending} /\ Failing
    /\ Decided
    /\ UNCHANGED <<files, current, previous, applied, failed, config, locals, drifts>>

RemoveFailed ==
    /\ pc = "clear"
    /\ \/ /\ failed' = "none" /\ UNCHANGED result
          /\ Goto(IF mode = "recover" THEN Recovered ELSE "prune_end")
       \/ failed' \in {failed, "none"} /\ Failing
    /\ UNCHANGED <<files, current, previous, applied, pending, config, process,
                   locals, drifts>>

PruneAndReturn ==
    /\ pc = "prune_end"
    /\ PruneVersions("idle", "installed", "not_required")
    /\ UNCHANGED <<state, config, process, locals, drifts>>

-----------------------------------------------------------------------------
(* rollback *)

\* Mutant: prepareRollbackController does nothing.
PrepareRollbackSkipped ==
    /\ pc = "rb"
    /\ Goto(IF hasConfig THEN "rb_stop" ELSE "rb_current")
    /\ UNCHANGED <<files, state, config, process, locals, result, drifts>>

\* prepareRollbackController: a half-done rollback of the first bundle may
\* have removed the link of a candidate that is already applied.
PrepareRollback ==
    /\ pc = "rb"
    /\ IF hasConfig /\ applied = tgt /\ current = None
       THEN \/ Verified(tgt) /\ current' = tgt /\ Goto("rb_stop")
            \/ Verified(tgt) /\ current' \in {current, tgt} /\ Fault("rb_error")
            \/ ~Verified(tgt) /\ UNCHANGED current /\ Goto("rb_error")
       ELSE UNCHANGED current /\ Goto(IF hasConfig THEN "rb_stop" ELSE "rb_current")
    /\ UNCHANGED <<files, previous, applied, pending, failed, config, process,
                   locals, result, drifts>>

RollbackStop ==
    /\ pc = "rb_stop"
    /\ StopAndWait("rb_current", "rb_error")
    /\ UNCHANGED <<files, state, config, locals, result, drifts>>

\* Back to the previous bundle; to the bootstrap executable when there was
\* none; a previous bundle that does not verify leaves no bundle selected.
RollbackCurrent ==
    /\ pc = "rb_current"
    /\ \/ /\ prev = None
          /\ \/ current' = None /\ Goto("rb_rmapplied")
             \/ current' \in {current, None} /\ Fault("rb_error")
       \/ /\ prev # None /\ Verified(prev)
          /\ \/ current' = prev /\ Goto("rb_applied")
             \/ current' \in {current, prev} /\ Fault("rb_error")
       \/ /\ prev # None /\ ~Verified(prev)
          /\ \/ current' = None /\ Goto("rb_error")
             \/ UNCHANGED current /\ Fault("rb_error")
    /\ UNCHANGED <<files, previous, applied, pending, failed, config, process,
                   locals, result, drifts>>

\* Mutant: applied.json keeps the failed bundle.
RollbackAppliedSkipped ==
    /\ pc = "rb_applied" /\ Goto("rb_restart")
    /\ UNCHANGED <<files, state, config, process, locals, result, drifts>>

RollbackApplied ==
    /\ \/ pc = "rb_applied" /\ applied' = prev /\ Goto("rb_restart")
       \/ pc = "rb_applied" /\ applied' \in {applied, prev} /\ Fault("rb_error")
       \/ pc = "rb_rmapplied" /\ applied' = None /\ Goto("rb_restart")
       \/ pc = "rb_rmapplied" /\ applied' \in {applied, None} /\ Fault("rb_error")
    /\ UNCHANGED <<files, current, previous, pending, failed, config, process,
                   locals, result, drifts>>

RollbackRestart ==
    /\ pc = "rb_restart"
    /\ IF hasConfig THEN RestartAndWait("rb_failed", "rb_error")
       ELSE Goto("rb_failed") /\ UNCHANGED process
    /\ UNCHANGED <<files, state, config, locals, result, drifts>>

RollbackPersistFailed ==
    /\ pc = "rb_failed"
    /\ \/ failed' = "rolled_back" /\ Goto("rb_clear")
       \/ failed' \in {failed, "rolled_back"} /\ Fault("rb_error")
    /\ UNCHANGED <<files, current, previous, applied, pending, config, process,
                   locals, result, drifts>>

RollbackClearPending ==
    /\ pc = "rb_clear"
    /\ \/ /\ pending' = NoPending
          /\ IF mode = "recover" THEN Goto(Recovered) /\ Return("none")
             ELSE Goto("idle") /\ Return("rolled_back")
       \/ pending' \in {pending, NoPending} /\ Fault("rb_error") /\ UNCHANGED result
    /\ Decided
    /\ UNCHANGED <<files, current, previous, applied, failed, config, locals, drifts>>

\* rollbackResult and the end of Recover: the failure is recorded if it can
\* be, and an error of that is ignored.
RollbackFailed ==
    /\ pc = "rb_error"
    /\ LET out == IF mode = "recover" THEN "down" ELSE "idle"
       IN  \/ failed' = "failed" /\ Goto(out)
           \/ failed' \in {failed, "failed"} /\ Fault(out)
    /\ Return(IF mode = "recover" THEN "none" ELSE "failed")
    /\ UNCHANGED <<files, current, previous, applied, pending, config, process,
                   locals, drifts>>

-----------------------------------------------------------------------------
(* Recover, crashes, the supervisor, and changes from outside *)

\* Mutant: a record of an earlier process is taken as confirmed.
RecoverConfirms ==
    /\ pc = "recover" /\ mode' = "recover"
    /\ req' = None /\ tgt' = pending.target /\ prev' = pending.prev
    /\ hasConfig' = HasConfig
    /\ Goto(IF pending = NoPending THEN "idle" ELSE "confirm")
    /\ UNCHANGED <<files, state, config, process, result, drifts>>

\* Recover, after the stale downloads are removed.
Recover ==
    /\ pc = "recover" /\ mode' = "recover"
    /\ req' = None /\ tgt' = pending.target /\ prev' = pending.prev
    /\ hasConfig' = HasConfig
    /\ \/ pending = NoPending /\ Goto(Recovered)
       \/ /\ pending # NoPending
          /\ Goto(IF pending.target = applied /\ VerifyApplied THEN "confirm" ELSE "rb")
       \/ Fault("down")
    /\ UNCHANGED <<files, state, config, process, result, drifts>>

\* The agent process ends at any point; the service manager starts it again.
Crash ==
    /\ pc # "down" /\ Fault("down") /\ Return("none")
    /\ req' = None /\ tgt' = None /\ prev' = None
    /\ hasConfig' = FALSE /\ mode' = "recover"
    /\ UNCHANGED <<files, state, config, process, drifts>>

Restart ==
    /\ pc = "down" /\ Goto("recover")
    /\ UNCHANGED <<files, state, config, process, locals, result, drifts>>

\* RunManagedProcess up to command.Start, while current.json is there:
\* ActivePath chooses the bootstrap executable for good, or the link of the
\* bundle, which command.Start follows.
SupervisorStart ==
    /\ stage = "none" /\ config \in {"begun", "applied"}
    /\ xray' \in Startable /\ stage' = "started"
    /\ UNCHANGED <<files, state, config, stale, pc, locals, result, faults, drifts>>

\* xray.pid.
SupervisorWritePID ==
    /\ stage = "started" /\ stage' = "seen"
    /\ UNCHANGED <<files, state, config, xray, stale, pc, locals, result, faults, drifts>>

\* Xray ends, by itself or on a signal, or an error ends the supervisor.
XrayExit ==
    /\ stage # "none"
    /\ xray' = None /\ stage' = "none" /\ stale' = FALSE
    /\ UNCHANGED <<files, state, config, pc, locals, result, faults, drifts>>

\* Apply of xrayruntime, for a first configuration: Preflight, the record and
\* current.json.
ConfigSwitch ==
    /\ pc = "idle" /\ config = "none" /\ Recognised
    /\ config' = "begun" /\ mode' = "apply"
    /\ req' = None /\ tgt' = None /\ prev' = None /\ hasConfig' = FALSE
    /\ Goto("cfg_restart") /\ Return("none")
    /\ UNCHANGED <<files, state, process, drifts>>

\* Its activation, and applied.json.
ConfigRestart ==
    /\ pc = "cfg_restart"
    /\ RestartAndWait("idle", "cfg_rb")
    /\ config' = (IF pc' = "idle" THEN "applied" ELSE config)
    /\ UNCHANGED <<files, state, locals, result, drifts>>

\* Its rollback, at once or in Recover: current.json is removed, Xray stopped,
\* and the record removed.
ConfigRollback ==
    /\ pc = "cfg_rb"
    /\ LET out == IF mode = "recover" THEN "down" ELSE "idle"
       IN  \/ /\ StopAndWait("idle", out)
              /\ config' = (IF faults' = faults /\ Recognised THEN "none" ELSE "undone")
           \/ Fault(out) /\ UNCHANGED <<config, process>>
    /\ UNCHANGED <<files, state, locals, result, drifts>>

\* External: a bundle is damaged.
Drift ==
    /\ drifts < MaxDrifts /\ drifts' = drifts + 1
    /\ \E b \in DOMAIN mtime : broken' = broken \cup {b}
    /\ Fault(pc) /\ Return("none")
    /\ UNCHANGED <<mtime, state, config, process, locals>>

-----------------------------------------------------------------------------
ApplyStep ==
    \/ Check \/ Prune \/ InstallBundle \/ LoadApplied \/ PersistPending
    \/ StopCurrent \/ SwitchCurrent \/ Activate \/ RecordPrevious
    \/ PersistApplied \/ RemovePending \/ RemoveFailed \/ PruneAndReturn

RollbackStep ==
    \/ PrepareRollback \/ RollbackStop \/ RollbackCurrent \/ RollbackApplied
    \/ RollbackRestart \/ RollbackPersistFailed \/ RollbackClearPending
    \/ RollbackFailed

ConfigStep == ConfigRestart \/ ConfigRollback

Next ==
    \/ (\E b \in Bundles : Apply(b)) \/ ApplyStep \/ RollbackStep
    \/ Recover \/ Crash \/ Restart
    \/ ConfigSwitch \/ ConfigStep
    \/ SupervisorStart \/ SupervisorWritePID \/ XrayExit \/ Drift

Spec == Init /\ [][Next]_vars

\* The agent keeps executing, and its service is restarted when it ends; the
\* supervisor writes xray.pid once Xray is started.
FairSpec ==
    /\ Spec
    /\ WF_vars(ApplyStep \/ RollbackStep \/ ConfigStep \/ Recover \/ Restart)
    /\ WF_vars(SupervisorWritePID)

-----------------------------------------------------------------------------
(* Properties *)

\* Crash consistency: without a pending record the selected bundle is the
\* applied one, whatever step the agent stopped at.
NoRecordMeansConsistent == pending = NoPending => current = applied

\* Xray runs, and is being started with, only what the durable state accounts
\* for: the active executable, or during an update the candidate or what the
\* rollback restores.  Two exceptions: with a damaged rollback target the
\* previous process may outlive the record; and an update that is decided while
\* no configuration is applied (a first one may be undecided, with Xray up)
\* leaves the process alone, which then keeps its executable until it ends.
RunningIsAccountedFor ==
    (drifts = 0 /\ ~stale) =>
        xray \in {None} \cup
            IF pending = NoPending THEN {Active}
            ELSE {pending.target, IF pending.prev = None THEN Bootstrap ELSE pending.prev}

\* Unless someone damages a bundle, every bundle a link or state file names is
\* on disk and whole: neither pruning nor a crash within it touches one.
ReferencesAreWhole == drifts = 0 => \A b \in Protected : Verified(b)

\* An answer "installed" leaves the release asked for selected, applied and
\* without a record; "rolled_back" leaves what was selected before.
AnswerIsTrue ==
    /\ result = "installed" =>
         pending = NoPending /\ failed = "none" /\ current = req /\ applied = req
    /\ result = "rolled_back" =>
         pending = NoPending /\ current = prev /\ applied = prev

\* Once a bundle is confirmed the bootstrap executable is never started again
\* ("after that bundle is confirmed, the Agent uses only the selected managed
\* runtime"); only an Xray that a bundle confirmed without an applied
\* configuration left alone still runs it, until it ends.
ConfirmedForGood ==
    [](pending = NoPending /\ applied # None => [](xray = Bootstrap => stale))

\* A restarted agent decides a half-done update and serves commands again,
\* unless a bundle was damaged or Xray runs another executable than the
\* selected one (then StopAndWait refuses for as long as it runs).
Recovers ==
    pc = "down" ~> \/ pc = "idle" /\ pending = NoPending
                   \/ Active # None /\ ~Recognised
                   \/ drifts > 0

\* A failed activation restores what ran before: without any crash or error
\* the rollback succeeds ("Failure restores the previous managed bundle").
FailureIsRestored == faults = 0 /\ drifts = 0 => result # "failed"
=============================================================================
