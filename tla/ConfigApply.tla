---------------------------- MODULE ConfigApply ----------------------------
(***************************************************************************)
(* The managed Xray configuration of one node: internal/xrayruntime        *)
(* (Manager.Apply, Recover, rollback, pruneVersions) together with the     *)
(* durable validator it calls first (internal/xrayconfig, Validate).       *)
(*                                                                         *)
(* Every durable write of the code is a step of its own, so that a crash   *)
(* may fall between any two of them, and every write may report an error.  *)
(* A write that ends in a directory fsync can report an error after the    *)
(* new state is already visible; atomicSymlink does not fsync, so its      *)
(* error always leaves the old link.                                       *)
(*                                                                         *)
(* Simplifications.  A configuration is its digest.  The file name of a    *)
(* version carries its version and digest (configTargetMetadata), so       *)
(* applied.json and the two halves of apply-pending.json are represented   *)
(* by the targets they name.  The supervisor (RunManagedProcess) reads     *)
(* current.json, starts Xray and writes xray.pid in three steps, between   *)
(* any two steps of the agent; a call of the process controller, which     *)
(* knows Xray by xray.pid alone, is one step (ProcessControl has its own). *)
(* At most one command runs at a time, as in runSession.                   *)
(***************************************************************************)
EXTENDS Integers, FiniteSets

CONSTANTS
    Versions,   \* config versions the center may send
    Digests,    \* config contents
    Unhealthy,  \* contents with which Xray never stays up
    Retained,   \* retainedVersions
    MaxFaults,  \* bound: crashes, I/O errors and spurious restart failures
    MaxDrifts,  \* bound: changes made to the state directory from outside
    None        \* a missing file or link

ASSUME ConstantsAssumption ==
    /\ Versions \subseteq Nat \ {0}
    /\ Unhealthy \subseteq Digests
    /\ Retained \in Nat \ {0}
    /\ MaxFaults \in Nat
    /\ MaxDrifts \in Nat

\* The file names below versions/; rep is 0, or the time stamp of a repair.
Targets == [ver : Versions, dig : Digests, rep : Nat]

ASSUME NoneAssumption == None \notin Targets

VARIABLES
    mtime,      \* modification time of every file below versions/
    corrupt,    \* names whose file was changed or removed from outside
    current,    \* link current.json
    previous,   \* link previous.json
    applied,    \* applied.json
    pending,    \* apply-pending.json
    failed,     \* apply-failed.json: its recovery status
    validation, \* validation.json of the validator
    xray,       \* the file the supervisor read, to start Xray with it
    stage,      \* how far it got: Xray started, then seen in xray.pid
    stale,      \* history: the controller confirmed a call that this Xray escaped
    pc, req, repair, tgt, prev, mode,   \* locals of Apply, Recover, rollback
    result,     \* what the last command returned
    clock,      \* last modification time handed out
    faults, drifts,
    disturbed,  \* history: a drift happened since the command began
    relinked    \* history: a drift ever changed a link or applied.json

durable  == <<mtime, corrupt, current, previous, applied, pending, failed, validation>>
locals   == <<req, repair, tgt, prev, mode>>
process  == <<xray, stage, stale>>
outside  == <<drifts, disturbed, relinked>>
vars     == <<durable, process, pc, locals, result, clock, faults, outside>>

Link        == Targets \cup {None}
NoPending   == [target |-> None, prev |-> None]
NoResult    == [ver |-> 0, dig |-> None, ok |-> FALSE]

\* What a command returns: Result.Status and RecoveryStatus, together.
Results == {"none", "applied", "invalid", "not_required", "unknown",
            "rolled_back", "failed"}

Labels ==
    {"idle", "down", "recover", "load", "prune", "install", "pend", "switch",
     "cleanup", "restart", "previous", "persist", "confirm", "clear", "prune_end",
     "rb", "rb_applied", "rb_restart", "rb_rmapplied", "rb_stop", "rb_failed",
     "rb_clear", "rb_error"}

TypeOK ==
    /\ DOMAIN mtime \subseteq Targets
    /\ mtime \in [DOMAIN mtime -> Nat]
    /\ corrupt \subseteq Targets
    /\ current \in Link /\ previous \in Link /\ applied \in Link
    /\ pending \in [target : Link, prev : Link]
    /\ failed \in {"none", "rolled_back", "failed"}
    /\ validation \in [ver : Nat, dig : Digests \cup {None}, ok : BOOLEAN]
    /\ xray \in Link
    /\ stage \in {"none", "read", "started", "seen"}
    /\ stale \in BOOLEAN
    /\ pc \in Labels
    /\ req \in [ver : Nat, dig : Digests \cup {None}]
    /\ pc \in {"load", "prune", "install"} => req \in [ver : Versions, dig : Digests]
    /\ repair \in BOOLEAN
    /\ tgt \in Link /\ prev \in Link
    /\ mode \in {"apply", "again", "recover"}
    /\ result \in Results
    /\ clock \in Nat /\ faults \in Nat /\ drifts \in Nat
    /\ disturbed \in BOOLEAN /\ relinked \in BOOLEAN

-----------------------------------------------------------------------------
(* Helpers *)

\* verifyConfigTarget: the file is there, with its mode and digest.
Verified(t) == t \in DOMAIN mtime /\ t \notin corrupt

\* verifyApplied: current.json names the applied target, which verifies.
VerifyApplied == current = applied /\ Verified(applied)

Goto(l) == pc' = l /\ UNCHANGED faults

\* One step reports an error, within the budget of faults.
Fault(l) == faults < MaxFaults /\ faults' = faults + 1 /\ pc' = l

\* A command returns.
Return(r) == result' = r

\* protectedTargets.
Protected == {current, previous, applied, pending.target, pending.prev} \ {None}

\* Mutant: only age decides what is pruned.
KeptByAge ==
    {t \in DOMAIN mtime :
        Cardinality({u \in DOMAIN mtime : mtime[u] > mtime[t]}) < Retained}

\* pruneVersions: the Retained newest files and the protected ones stay.
Kept ==
    {t \in DOMAIN mtime :
        \/ t \in Protected
        \/ Cardinality({u \in DOMAIN mtime : mtime[u] > mtime[t]}) < Retained}

KeepFiles(S) == mtime' = [t \in S |-> mtime[t]]

\* All of the surplus is removed, or an error cuts the loop short.
PruneVersions(next, err, ok, r) ==
    \/ KeepFiles(Kept) /\ Goto(next) /\ Return(ok)
    \/ /\ \E S \in SUBSET (DOMAIN mtime \ Kept) : KeepFiles(DOMAIN mtime \ S)
       /\ Fault(err) /\ Return(r)

\* writeAtomic of a version file.
WriteFile(t) ==
    /\ mtime' = [u \in DOMAIN mtime \cup {t} |->
                    IF u = t THEN clock + 1 ELSE mtime[u]]
    /\ corrupt' = corrupt \ {t}
    /\ clock' = clock + 1

-----------------------------------------------------------------------------
Init ==
    /\ mtime = [t \in {} |-> 0]
    /\ corrupt = {}
    /\ current = None /\ previous = None /\ applied = None
    /\ pending = NoPending
    /\ failed = "none"
    /\ validation = NoResult
    /\ xray = None /\ stage = "none" /\ stale = FALSE
    /\ pc = "recover"
    /\ req = [ver |-> 0, dig |-> None]
    /\ repair = FALSE
    /\ tgt = None /\ prev = None
    /\ mode = "recover"
    /\ result = "none"
    /\ clock = 0 /\ faults = 0 /\ drifts = 0
    /\ disturbed = FALSE /\ relinked = FALSE

(***************************************************************************)
(* xrayconfig.Validate: the last result is durable; a version may not go   *)
(* back, keeps its digest, and is answered from the record when repeated,  *)
(* a failed one too.  Xray's own verdict is external.                      *)
(***************************************************************************)
Stale(v, d) ==
    \/ v < validation.ver
    \/ v = validation.ver /\ d # validation.dig

\* The validator's record after Validate(v, d) with Xray's verdict ok.
Validated(v, d, ok) ==
    IF v = validation.ver THEN validation
    ELSE [ver |-> v, dig |-> d, ok |-> ok]

\* A validate command of the center: Validate alone.
ValidateCommand(v, d, ok) ==
    /\ pc = "idle"
    /\ ~Stale(v, d)
    /\ \/ Goto("idle") /\ validation' = Validated(v, d, ok)
       \/ /\ v > validation.ver
          /\ Fault("idle") /\ validation' \in {validation, Validated(v, d, ok)}
    /\ result' = "none"
    /\ UNCHANGED <<mtime, corrupt, current, previous, applied, pending, failed,
                   process, locals, clock, outside>>

\* Apply up to m.mu.Lock().
Apply(v, d, ok) ==
    /\ pc = "idle"
    /\ req' = [ver |-> v, dig |-> d]
    /\ mode' = "apply"
    /\ disturbed' = FALSE
    /\ \/ /\ Stale(v, d)
          /\ Goto("idle") /\ Return("not_required") /\ UNCHANGED validation
       \/ /\ ~Stale(v, d)
          /\ validation' = Validated(v, d, ok)
          /\ IF validation'.ok THEN Goto("load") /\ Return("none")
                               ELSE Goto("idle") /\ Return("invalid")
       \/ /\ v > validation.ver
          /\ validation' \in {validation, Validated(v, d, ok)}
          /\ Fault("idle") /\ Return("not_required")
    /\ UNCHANGED <<mtime, corrupt, current, previous, applied, pending, failed,
                   process, repair, tgt, prev, clock, drifts, relinked>>

-----------------------------------------------------------------------------
(* Apply, under the mutex *)

\* The rollback target is the applied version, or for a repair the version
\* previous.json names.
RollbackTarget(rep) == IF rep THEN previous ELSE applied

\* The checks of Apply before its first write.
LoadApplied ==
    /\ pc = "load"
    /\ LET same == applied # None /\ applied.ver = req.ver
           rep  == same /\ ~VerifyApplied
           back == RollbackTarget(rep)
           refuse ==
               \/ applied # None /\ req.ver < applied.ver
               \/ same /\ req.dig # applied.dig
               \/ applied = None /\ current # None
               \/ back # None /\ ~Verified(back)
       IN  \/ /\ same /\ req.dig = applied.dig /\ ~rep    \* already applied
              /\ \/ pending.target = applied /\ Goto("confirm") /\ UNCHANGED result
                 \/ pending = NoPending /\ Goto("clear") /\ UNCHANGED result
                 \/ /\ pending # NoPending /\ pending.target # applied
                    /\ Goto("idle") /\ Return("not_required")
              /\ tgt' = applied /\ mode' = "again"
              /\ UNCHANGED <<repair, prev>>
           \/ /\ ~(same /\ req.dig = applied.dig /\ ~rep)
              /\ repair' = rep /\ prev' = back /\ tgt' = None
              /\ UNCHANGED mode
              /\ \/ refuse /\ Goto("idle") /\ Return("not_required")
                 \/ ~refuse /\ Fault("idle") /\ Return("not_required")  \* Preflight
                 \/ ~refuse /\ pending # NoPending /\ Goto("idle") /\ Return("unknown")
                 \/ ~refuse /\ pending = NoPending /\ Goto("prune") /\ UNCHANGED result
    /\ UNCHANGED <<durable, process, req, clock, outside>>

Prune ==
    /\ pc = "prune"
    /\ PruneVersions("install", "idle", "none", "not_required")
    /\ UNCHANGED <<corrupt, current, previous, applied, pending, failed,
                   validation, process, locals, clock, outside>>

\* installVersion and writeRepairVersion.
InstallVersion ==
    /\ pc = "install"
    /\ LET plain == [ver |-> req.ver, dig |-> req.dig, rep |-> 0]
           name  == IF repair THEN [plain EXCEPT !.rep = clock + 1] ELSE plain
       IN  \/ /\ Verified(plain)
              /\ tgt' = plain /\ Goto("pend")
              /\ UNCHANGED <<mtime, corrupt, clock, result>>
           \/ /\ ~Verified(plain) /\ ~repair /\ plain \in DOMAIN mtime
              /\ Goto("idle") /\ Return("not_required")
              /\ UNCHANGED <<mtime, corrupt, clock, tgt>>
           \/ /\ ~Verified(plain) /\ (repair \/ plain \notin DOMAIN mtime)
              /\ \/ WriteFile(name) /\ tgt' = name /\ Goto("pend") /\ UNCHANGED result
                 \/ /\ WriteFile(name) \/ UNCHANGED <<mtime, corrupt, clock>>
                    /\ Fault("idle") /\ Return("not_required") /\ UNCHANGED tgt
    /\ UNCHANGED <<current, previous, applied, pending, failed, validation,
                   process, req, repair, prev, mode, outside>>

\* Mutant: the link is switched without a pending record.
PersistPendingSkipped ==
    /\ pc = "pend" /\ Goto("switch")
    /\ UNCHANGED <<durable, process, locals, result, clock, outside>>

PersistPending ==
    /\ pc = "pend"
    /\ LET record == [target |-> tgt, prev |-> prev]
       IN  \/ pending' = record /\ Goto("switch") /\ UNCHANGED result
           \/ /\ pending' \in {pending, record}
              /\ Fault("idle") /\ Return("not_required")
    /\ UNCHANGED <<mtime, corrupt, current, previous, applied, failed,
                   validation, process, locals, clock, outside>>

SwitchCurrent ==
    /\ pc = "switch"
    /\ \/ current' = tgt /\ Goto("restart")
       \/ UNCHANGED current /\ Fault("cleanup")
    /\ UNCHANGED <<mtime, corrupt, previous, applied, pending, failed,
                   validation, process, locals, result, clock, outside>>

\* The switch failed: the pending record goes.
ClearPending ==
    /\ pc = "cleanup"
    /\ \/ pending' = NoPending /\ Goto("idle") /\ Return("not_required")
       \/ pending' \in {pending, NoPending} /\ Fault("idle") /\ Return("unknown")
    /\ UNCHANGED <<mtime, corrupt, current, previous, applied, failed,
                   validation, process, locals, clock, outside>>

\* Whether Xray may, and whether it must, come up with a file.  One that was
\* changed from outside may or may not.
Healthy(t)   == t \in corrupt \/ t.dig \notin Unhealthy
MayStart(t)  == t \in DOMAIN mtime /\ Healthy(t)
MustStart(t) == Verified(t) /\ t.dig \notin Unhealthy

\* runningPID finds no process, but the supervisor is about to start one, or
\* has, and Xray comes up with the file it read.
UnseenComesUp ==
    \/ stage = "read" /\ MayStart(xray)
    \/ stage = "started" /\ Healthy(xray)

\* RestartAndWait succeeds: the process in xray.pid was replaced by one that
\* was started later, or there was none and the first one that appears is
\* taken for the replacement, whatever link it was started from.  After an
\* error Xray is where the steps of the supervisor leave it.
RestartAndWait(next, err) ==
    \/ /\ \/ MayStart(current) /\ xray' = current
          \/ UnseenComesUp /\ UNCHANGED xray
       /\ stage' = "seen" /\ stale' = (xray' # current)
       /\ Goto(next)
    \/ /\ UNCHANGED process
       /\ IF MustStart(current) THEN Fault(err) ELSE Goto(err)

\* StopAndWait: the process in xray.pid ends; without one there is nothing to
\* do, also while Xray is being started.
StopAndWait(next, err) ==
    \/ stage = "seen" /\ xray' = None /\ stage' = "none" /\ stale' = FALSE /\ Goto(next)
    \/ stage # "seen" /\ UNCHANGED <<xray, stage>> /\ stale' = (xray # None) /\ Goto(next)
    \/ UNCHANGED process /\ Fault(err)

\* syncDirectory and RestartAndWait: an error of either rolls back.
Activate ==
    /\ pc = "restart"
    /\ RestartAndWait("previous", "rb")
    /\ UNCHANGED <<durable, locals, result, clock, outside>>

\* Mutant: previous.json gets the record instead of the target.
RecordPreviousRecord ==
    /\ pc = "previous"
    /\ previous' = pending /\ Goto("persist")
    /\ UNCHANGED <<mtime, corrupt, current, applied, pending, failed,
                   validation, process, locals, result, clock, outside>>

RecordPrevious ==
    /\ pc = "previous"
    /\ \/ previous' = (IF prev # None THEN prev ELSE previous) /\ Goto("persist")
       \/ prev # None /\ UNCHANGED previous /\ Fault("rb")
    /\ UNCHANGED <<mtime, corrupt, current, applied, pending, failed,
                   validation, process, locals, result, clock, outside>>

PersistApplied ==
    /\ pc = "persist"
    /\ \/ applied' = tgt /\ Goto("confirm")
       \/ applied' \in {applied, tgt} /\ Fault("rb")
    /\ UNCHANGED <<mtime, corrupt, current, previous, pending, failed,
                   validation, process, locals, result, clock, outside>>

\* Where an error of the last steps leads: a command answers, Recover's
\* error ends the process.
Failing(r) ==
    /\ Fault(IF mode = "recover" THEN "down" ELSE "idle")
    /\ Return(CASE mode = "apply" -> r
                [] mode = "again" -> "not_required"
                [] mode = "recover" -> "none")

\* removeAndSync(pendingPath), at the end of Apply and in confirmApplied.
RemovePending ==
    /\ pc = "confirm"
    /\ \/ pending' = NoPending /\ Goto("clear") /\ UNCHANGED result
       \/ pending' \in {pending, NoPending} /\ Failing("unknown")
    /\ UNCHANGED <<mtime, corrupt, current, previous, applied, failed,
                   validation, process, locals, clock, outside>>

\* removeAndSync(failedPath), there as well.
RemoveFailed ==
    /\ pc = "clear"
    /\ \/ /\ failed' = "none" /\ UNCHANGED result
          /\ Goto(IF mode = "recover" THEN "idle" ELSE "prune_end")
       \/ failed' \in {failed, "none"} /\ Failing("unknown")
    /\ UNCHANGED <<mtime, corrupt, current, previous, applied, pending,
                   validation, process, locals, clock, outside>>

\* The last pruneVersions of Apply, and its answer.
PruneAndReturn ==
    /\ pc = "prune_end"
    /\ PruneVersions("idle", "idle", "applied", "not_required")
    /\ UNCHANGED <<corrupt, current, previous, applied, pending, failed,
                   validation, process, locals, clock, outside>>

-----------------------------------------------------------------------------
(* rollback and rollbackResult *)

\* The first write of rollback: remove current.json, or verify the previous
\* version and point current.json back to it.
RollbackCurrent ==
    /\ pc = "rb"
    /\ \/ /\ prev = None
          /\ \/ current' = None /\ Goto("rb_rmapplied")
             \/ current' \in {current, None} /\ Fault("rb_error")
       \/ /\ prev # None /\ Verified(prev)
          /\ \/ current' = prev /\ Goto("rb_applied")
             \/ UNCHANGED current /\ Fault("rb_error")
       \/ /\ prev # None /\ ~Verified(prev)
          /\ UNCHANGED current /\ Goto("rb_error")
    /\ UNCHANGED <<mtime, corrupt, previous, applied, pending, failed,
                   validation, process, locals, result, clock, outside>>

\* Mutant: applied.json keeps the failed version.
RollbackAppliedSkipped ==
    /\ pc = "rb_applied" /\ Goto("rb_restart")
    /\ UNCHANGED <<durable, process, locals, result, clock, outside>>

\* applied.json goes back to the previous version.
RollbackApplied ==
    /\ pc = "rb_applied"
    /\ \/ applied' = prev /\ Goto("rb_restart")
       \/ applied' \in {applied, prev} /\ Fault("rb_error")
    /\ UNCHANGED <<mtime, corrupt, current, previous, pending, failed,
                   validation, process, locals, result, clock, outside>>

\* Mutant: Xray is not restarted after the rollback.
RollbackRestartSkipped ==
    /\ pc = "rb_restart" /\ Goto("rb_failed")
    /\ UNCHANGED <<durable, process, locals, result, clock, outside>>

RollbackRestart ==
    /\ pc = "rb_restart"
    /\ RestartAndWait("rb_failed", "rb_error")
    /\ UNCHANGED <<durable, locals, result, clock, outside>>

\* There was no previous version: applied.json is removed, Xray stopped.
RollbackRemoveApplied ==
    /\ pc = "rb_rmapplied"
    /\ \/ applied' = None /\ Goto("rb_stop")
       \/ applied' \in {applied, None} /\ Fault("rb_error")
    /\ UNCHANGED <<mtime, corrupt, current, previous, pending, failed,
                   validation, process, locals, result, clock, outside>>

RollbackStop ==
    /\ pc = "rb_stop"
    /\ StopAndWait("rb_failed", "rb_error")
    /\ UNCHANGED <<durable, locals, result, clock, outside>>

RollbackPersistFailed ==
    /\ pc = "rb_failed"
    /\ \/ failed' = "rolled_back" /\ Goto("rb_clear")
       \/ failed' \in {failed, "rolled_back"} /\ Fault("rb_error")
    /\ UNCHANGED <<mtime, corrupt, current, previous, applied, pending,
                   validation, process, locals, result, clock, outside>>

RollbackClearPending ==
    /\ pc = "rb_clear"
    /\ \/ /\ pending' = NoPending /\ Goto("idle")
          /\ Return(IF mode = "recover" THEN "none" ELSE "rolled_back")
       \/ /\ pending' \in {pending, NoPending}
          /\ Fault("rb_error") /\ UNCHANGED result
    /\ UNCHANGED <<mtime, corrupt, current, previous, applied, failed,
                   validation, process, locals, clock, outside>>

\* rollbackResult after an error: the failure is recorded if it can be.
RollbackFailed ==
    /\ pc = "rb_error"
    /\ LET out == IF mode = "recover" THEN "down" ELSE "idle"
       IN  \/ failed' = "failed" /\ Goto(out)
           \/ failed' \in {failed, "failed"} /\ Fault(out)
    /\ Return(IF mode = "recover" THEN "none" ELSE "failed")
    /\ UNCHANGED <<mtime, corrupt, current, previous, applied, pending,
                   validation, process, locals, clock, outside>>

-----------------------------------------------------------------------------
(* Recover, crashes, the Xray service, and changes from outside *)


\* Recover, called by Client.Run before any command.
Recover ==
    /\ pc = "recover"
    /\ mode' = "recover"
    /\ tgt' = pending.target /\ prev' = pending.prev
    /\ \/ pending = NoPending /\ Goto("idle")
       \/ /\ pending # NoPending
          /\ IF pending.target = applied /\ VerifyApplied
             THEN Goto("confirm") ELSE Goto("rb")
    /\ UNCHANGED <<durable, process, req, repair, result, clock, outside>>

\* The agent process ends at any point; the service manager starts it again.
Crash ==
    /\ pc # "down"
    /\ Fault("down") /\ Return("none")
    /\ UNCHANGED <<durable, process, locals, clock, outside>>

Restart ==
    /\ pc = "down" /\ Goto("recover")
    /\ UNCHANGED <<durable, process, locals, result, clock, outside>>

\* RunManagedProcess up to command.Start: the target of current.json is a
\* file.
SupervisorRead ==
    /\ stage = "none" /\ current \in DOMAIN mtime
    /\ xray' = current /\ stage' = "read"
    /\ UNCHANGED <<durable, stale, pc, locals, result, clock, faults, outside>>

\* command.Start, then xray.pid.
SupervisorStart ==
    /\ \/ stage = "read" /\ stage' = "started"
       \/ stage = "started" /\ stage' = "seen"
    /\ UNCHANGED <<durable, xray, stale, pc, locals, result, clock, faults, outside>>

\* Xray ends, by itself or on a signal, or an error ends the supervisor.
XrayExit ==
    /\ stage # "none"
    /\ xray' = None /\ stage' = "none" /\ stale' = FALSE
    /\ UNCHANGED <<durable, pc, locals, result, clock, faults, outside>>

\* External: something else changes the state directory.
Drift ==
    /\ drifts < MaxDrifts /\ drifts' = drifts + 1
    /\ disturbed' = TRUE /\ Return("none")
    /\ \/ \E t \in DOMAIN mtime :
             /\ corrupt' = corrupt \cup {t}
             /\ KeepFiles(DOMAIN mtime) \/ KeepFiles(DOMAIN mtime \ {t})
             /\ UNCHANGED <<current, applied, relinked>>
       \/ /\ \/ current' \in (DOMAIN mtime \cup {None}) \ {current} /\ UNCHANGED applied
             \/ applied # None /\ applied' = None /\ UNCHANGED current
          /\ relinked' = TRUE
          /\ UNCHANGED <<mtime, corrupt>>
    /\ UNCHANGED <<previous, pending, failed, validation, process, pc, locals,
                   clock, faults>>

-----------------------------------------------------------------------------
ApplyStep ==
    \/ LoadApplied \/ Prune \/ InstallVersion \/ PersistPending
    \/ SwitchCurrent \/ ClearPending \/ Activate \/ RecordPrevious
    \/ PersistApplied \/ RemovePending \/ RemoveFailed \/ PruneAndReturn

RollbackStep ==
    \/ RollbackCurrent \/ RollbackApplied \/ RollbackRestart
    \/ RollbackRemoveApplied \/ RollbackStop \/ RollbackPersistFailed
    \/ RollbackClearPending \/ RollbackFailed

Command ==
    \E v \in Versions, d \in Digests, ok \in BOOLEAN :
        ValidateCommand(v, d, ok) \/ Apply(v, d, ok)

Next ==
    \/ Command \/ ApplyStep \/ RollbackStep
    \/ Recover \/ Crash \/ Restart \/ Drift
    \/ SupervisorRead \/ SupervisorStart \/ XrayExit

Spec == Init /\ [][Next]_vars

\* The agent keeps executing, and its service is restarted when it ends.
FairSpec == Spec /\ WF_vars(ApplyStep \/ RollbackStep \/ Recover \/ Restart)

-----------------------------------------------------------------------------
(* Properties *)

\* Crash consistency: whatever step the agent stopped at, without a pending
\* record current.json names the applied version (Apply writes the record
\* before the switch and removes it last, rollback too).
NoRecordMeansConsistent ==
    (pending = NoPending /\ ~relinked) => current = applied

\* Xray never runs, and is never being started with, a configuration the
\* durable state does not account for: with a pending record the candidate or
\* its rollback target, without one the applied version.  The exception is a
\* process that was not yet in xray.pid when a restart or stop was confirmed
\* without it (controller.go:68 and :106): until it ends it may run the file
\* of a link replaced since.
RunningIsAccountedFor ==
    (drifts = 0 /\ ~stale) =>
        xray \in {None} \cup
            (IF pending = NoPending THEN {applied} ELSE {pending.target, pending.prev})

\* No version any link or state file names is ever pruned, so a rollback
\* always finds its file.
NoDanglingReference ==
    ~relinked => \A t \in Protected : t \in DOMAIN mtime \/ t \in corrupt

\* An answer to the center is true.  "applied": the version asked for is the
\* one the validator's record approves and the current one, intact, with no
\* pending or failed record left behind.
\* "rolled_back": the rollback target is in place and nothing else runs or is
\* being started, but for a process the controller's confirmed call did not
\* see (controller.go:68 and :106).
AnswerIsTrue ==
    /\ result = "applied" =>
          /\ pending = NoPending /\ failed = "none"
          /\ validation = [ver |-> req.ver, dig |-> req.dig, ok |-> TRUE]
          /\ disturbed \/ /\ current = applied /\ Verified(applied)
                          /\ applied.ver = req.ver /\ applied.dig = req.dig
    /\ result = "rolled_back" =>
          /\ pending = NoPending
          /\ disturbed \/ (current = prev /\ applied = prev /\ (stale \/ xray \in {None, prev}))

\* A restarted agent ends with the half-done apply confirmed or undone, and
\* serves commands again, unless somebody changed the files behind its back.
Recovers == pc = "down" ~> (pc = "idle" /\ pending = NoPending) \/ drifts > 0
=============================================================================
