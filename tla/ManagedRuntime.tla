--------------------------- MODULE ManagedRuntime ---------------------------
(***************************************************************************)
(* The two managers of one Xray process together: the configuration        *)
(* (internal/xrayruntime) and the bundle (internal/xrayupdate), driven by  *)
(* Client, which runs one command at a time and at its start recovers      *)
(* first the bundle and then the configuration.                            *)
(*                                                                         *)
(* ConfigApply and BinaryUpdate hold each manager in full.  Here both are  *)
(* reduced to what they share: a current link, applied.json and a pending  *)
(* record each, and the process that runs a configuration with an          *)
(* executable.  Whether such a pair stays up, and whether it passes        *)
(* "xray run -test", are facts about the pair.  Every durable write is a   *)
(* step that may fail before or after it is visible, and so is a call of   *)
(* the process controller, which knows only a process that xray.pid names. *)
(* The supervisor's steps fall between any two of the agent: it reads the  *)
(* configuration's link first and follows the bundle's when it starts Xray.*)
(***************************************************************************)
EXTENDS Integers

CONSTANTS
    Configs,    \* config versions, numbers
    Bundles,    \* releases of the Xray bundle
    Bootstrap,  \* the configured executable
    Loads,      \* pairs of configuration and executable that pass -test
    MaxFaults,  \* bound: crashes, I/O errors, missed deadlines
    None

Pairs == Configs \X (Bundles \cup {Bootstrap})

\* What the supervisor starts: a pair, or a configuration with the executable
\* the bundle's link will lead to (None).
Starts == Configs \X (Bundles \cup {Bootstrap, None})

ASSUME ManagedAssumption ==
    /\ Configs \subseteq Nat /\ Loads \subseteq Pairs
    /\ Bootstrap \notin Bundles /\ None \notin Configs \cup Bundles \cup {Bootstrap}
    /\ None \notin Starts
    /\ MaxFaults \in Nat

VARIABLES
    works,      \* pairs that stay up; does not change
    current, applied, pending,      \* links and state files of each manager
    validation, \* the validator's last verdict
    xray,       \* what Xray runs or is started with
    seen,       \* xray.pid names it
    stale,      \* history: it outlived a step that was to replace or end it
    unproven,   \* history: another pair was confirmed in place of the selected one
    pc, who,    \* step, and the manager that takes it
    mode,       \* a command, or Recover at the start
    target,     \* the candidate
    hasConfig,  \* xrayupdate: a configuration was applied
    faults

state == <<current, applied, pending>>
process == <<xray, seen, stale, unproven>>
vars  == <<works, state, validation, process, pc, who, mode, target, hasConfig, faults>>

Config   == "config"
Bundle   == "bundle"
Managers == {Config, Bundle}
NoRecord == [target |-> None, prev |-> None]

Values(m) == (IF m = Config THEN Configs ELSE Bundles) \cup {None}

TypeOK ==
    /\ works \subseteq Loads
    /\ \A m \in Managers :
          /\ current[m] \in Values(m) /\ applied[m] \in Values(m)
          /\ pending[m] \in [target : Values(m), prev : Values(m)]
    /\ validation \in [ver : Values(Config), ok : BOOLEAN]
    /\ xray \in Starts \cup {None}
    /\ seen \in BOOLEAN /\ stale \in BOOLEAN /\ unproven \in BOOLEAN
    /\ pc \in {"idle", "down", "recover", "pend", "stop", "switch", "restart", "persist",
               "clear", "rb", "rb_switch", "rb_applied", "rb_process", "rb_clear"}
    /\ who \in Managers /\ mode \in {"command", "recover"}
    /\ target \in Values(who)
    /\ hasConfig \in BOOLEAN
    /\ faults \in 0..MaxFaults

Init ==
    /\ works \in SUBSET Loads
    /\ current = [m \in Managers |-> None]
    /\ applied = [m \in Managers |-> None]
    /\ pending = [m \in Managers |-> NoRecord]
    /\ validation = [ver |-> None, ok |-> FALSE]
    /\ xray = None /\ seen = FALSE /\ stale = FALSE /\ unproven = FALSE
    /\ pc = "idle" /\ who = Bundle /\ mode = "command" /\ target = None
    /\ hasConfig = FALSE /\ faults = 0

-----------------------------------------------------------------------------
(* Helpers *)

Goto(l)  == pc' = l /\ UNCHANGED faults
Fault(l) == faults < MaxFaults /\ faults' = faults + 1 /\ pc' = l

\* A durable write of f[who] that goes on, or fails before or after the new
\* value is visible.
Write(f, v, next, else) ==
    \/ f' = [f EXCEPT ![who] = v] /\ Goto(next)
    \/ f' \in {f, [f EXCEPT ![who] = v]} /\ Fault(else)

\* ActivePath
Active ==
    CASE current[Bundle] # None -> current[Bundle]
      [] current[Bundle] = None /\ applied[Bundle] # None -> None
      [] OTHER -> Bootstrap

\* What RunManagedProcess would start, and what comes of a start it has begun.
Selected  == <<current[Config], Active>>
Startable == current[Config] # None /\ Active # None
Launched  == IF xray[2] = None THEN <<xray[1], current[Bundle]>> ELSE xray

\* runningPID does not fail: xray.pid names no process, or the right executable.
Recognised == seen => xray[2] = Active

\* RestartAndWait: a process that runs the active executable is replaced by one
\* that was started later; or there is none in xray.pid and the first one that
\* appears is taken for the replacement, whatever configuration it was started
\* with, and refused if it runs another executable.  After an error Xray is
\* where the steps of the supervisor leave it.
RestartAndWait(next, else) ==
    \/ /\ Recognised /\ Selected \in works
       /\ xray' = Selected /\ seen' = TRUE /\ stale' = FALSE /\ unproven' = FALSE
       /\ Goto(next)
    \/ /\ xray # None /\ ~seen /\ Launched \in works /\ Launched[2] = Active
       /\ xray' = Launched /\ seen' = TRUE
       /\ stale' = (Launched # Selected) /\ unproven' = stale'
       /\ Goto(next)
    \/ /\ xray # None /\ ~seen /\ xray[2] \notin {None, Active}
       /\ seen' = TRUE /\ UNCHANGED <<xray, stale, unproven>> /\ Goto(else)
    \/ /\ UNCHANGED process
       /\ IF Recognised /\ Selected \in works THEN Fault(else) ELSE Goto(else)

\* StopAndWait: the process in xray.pid ends; without one there is nothing to
\* do, also while Xray is being started.
StopAndWait(next, else) ==
    \/ /\ seen /\ Recognised /\ Goto(next)
       /\ xray' = None /\ seen' = FALSE /\ stale' = FALSE /\ UNCHANGED unproven
    \/ /\ ~seen /\ Goto(next)
       /\ stale' = (xray # None) /\ UNCHANGED <<xray, seen, unproven>>
    \/ ~Recognised /\ UNCHANGED process /\ Goto(else)
    \/ Recognised /\ UNCHANGED process /\ Fault(else)

Undecided(m) == pending[m] # NoRecord

\* A command has its result, or a failed recovery ends Run.
Failed == IF mode = "command" THEN "idle" ELSE "down"

-----------------------------------------------------------------------------
(* Commands *)

\* Mutant: a failed switch is taken for a confirmed one.
ConfirmedByLink(m) == current[m] = pending[m].target

\* What the record announces has happened, only the record is left.
Confirmed(m) == applied[m] = pending[m].target /\ current[m] = applied[m]

\* appliedConfigPath fails unless current.json names the applied configuration,
\* if there is one.
ConfigKnown == applied[Config] # None => current[Config] = applied[Config]

\* installPrepared's compatibility gate, on the applied configuration.
Gate(t) == ConfigKnown /\ (applied[Config] # None => <<applied[Config], t>> \in Loads)

\* An update of the bundle that is decided while no configuration is applied
\* leaves alone whatever Xray the supervisor runs.
Decided ==
    /\ UNCHANGED <<xray, seen, unproven>>
    /\ stale' = (stale \/ (/\ pending'[who] = NoRecord /\ who = Bundle /\ applied[Config] = None
                           /\ xray # None /\ xray[2] \notin {None, Active}))

\* Apply of xrayupdate, up to the pending record.  Download and verification
\* have brought bundle t; when they fail nothing changes.
UpdateBundle(t) ==
    /\ pc = "idle" /\ t # applied[Bundle]
    /\ pending[Bundle] = NoRecord /\ current[Bundle] = applied[Bundle]
    /\ Gate(t) /\ (applied[Config] # None => Recognised)
    /\ who' = Bundle /\ target' = t /\ mode' = "command"
    /\ hasConfig' = (applied[Config] # None)
    /\ Goto("pend")
    /\ UNCHANGED <<works, state, validation, process>>

\* Validate: an older version is refused, a repeated one is answered from the
\* record, whatever the executable was then, a newer one is tried with the
\* active executable.
Validate(t) ==
    /\ validation.ver # None => t >= validation.ver
    /\ validation' = IF t = validation.ver THEN validation
                     ELSE [ver |-> t, ok |-> <<t, Active>> \in Loads]

ValidateConfig(t) ==
    /\ pc = "idle" /\ Validate(t) /\ Goto("idle")
    /\ UNCHANGED <<works, state, process, who, mode, target, hasConfig>>

\* xrayruntime, up to the pending record: a newer version the validator
\* approves.
ApplyConfig(t) ==
    /\ pc = "idle" /\ Validate(t) /\ validation'.ok
    /\ IF applied[Config] = None THEN current[Config] = None ELSE t > applied[Config]
    /\ pending[Config] = NoRecord /\ Recognised
    /\ who' = Config /\ target' = t /\ mode' = "command"
    /\ Goto("pend")
    /\ UNCHANGED <<works, state, process, hasConfig>>

\* The applied version again: its record is removed.
ApplyAgain(t) ==
    /\ pc = "idle" /\ Validate(t) /\ validation'.ok
    /\ t = applied[Config] /\ Undecided(Config) /\ Confirmed(Config)
    /\ who' = Config /\ target' = t /\ mode' = "command"
    /\ Goto("clear")
    /\ UNCHANGED <<works, state, process, hasConfig>>

PersistPending ==
    /\ pc = "pend"
    /\ Write(pending, [target |-> target, prev |-> applied[who]],
             IF who = Bundle /\ hasConfig THEN "stop" ELSE "switch", "idle")
    /\ UNCHANGED <<works, validation, current, applied, process, who, mode, target, hasConfig>>

StopCurrent ==
    /\ pc = "stop"
    /\ StopAndWait("switch", "rb")
    /\ UNCHANGED <<works, validation, state, who, mode, target, hasConfig>>

\* A configuration link that could not be replaced ends the command, its
\* record removed if that works; any other error is rolled back.
Switch ==
    /\ pc = "switch"
    /\ \/ /\ Write(current, target, IF who = Config \/ hasConfig THEN "restart" ELSE "persist",
                   "rb")
          /\ UNCHANGED pending
       \/ /\ who = Config /\ Fault("idle")
          /\ pending' \in {pending, [pending EXCEPT ![who] = NoRecord]}
          /\ UNCHANGED current
    /\ UNCHANGED <<works, validation, applied, process, who, mode, target, hasConfig>>

Activate ==
    /\ pc = "restart"
    /\ RestartAndWait("persist", "rb")
    /\ UNCHANGED <<works, validation, state, who, mode, target, hasConfig>>

PersistApplied ==
    /\ pc = "persist"
    /\ Write(applied, target, "clear", "rb")
    /\ UNCHANGED <<works, validation, current, pending, process, who, mode, target, hasConfig>>

Confirm ==
    /\ pc = "clear"
    /\ Write(pending, NoRecord, IF mode = "command" THEN "idle" ELSE "recover", Failed)
    /\ Decided
    /\ UNCHANGED <<works, validation, current, applied, who, mode, target, hasConfig>>

-----------------------------------------------------------------------------
(* rollback, of a failed command or in Recover *)

\* Mutant: both managers read the record of one.
PrevOfConfig == pending[Config].prev

Prev == pending[who].prev

\* prepareRollbackController and StopAndWait; the configuration needs neither.
Rollback ==
    /\ pc = "rb"
    /\ IF who = Bundle /\ hasConfig
         THEN \/ /\ applied[Bundle] = pending[Bundle].target /\ current[Bundle] = None
                 /\ Write(current, applied[Bundle], "rb", Failed)
                 /\ UNCHANGED process
              \/ /\ ~(applied[Bundle] = pending[Bundle].target /\ current[Bundle] = None)
                 /\ StopAndWait("rb_switch", Failed) /\ UNCHANGED current
         ELSE Goto("rb_switch") /\ UNCHANGED <<current, process>>
    /\ UNCHANGED <<works, validation, applied, pending, who, mode, target, hasConfig>>

RollbackSwitch ==
    /\ pc = "rb_switch"
    /\ Write(current, Prev, "rb_applied", Failed)
    /\ UNCHANGED <<works, validation, applied, pending, process, who, mode, target, hasConfig>>

RollbackApplied ==
    /\ pc = "rb_applied"
    /\ Write(applied, Prev, "rb_process", Failed)
    /\ UNCHANGED <<works, validation, current, pending, process, who, mode, target, hasConfig>>

\* Mutant: the process is left alone.
RollbackProcessSkipped ==
    /\ pc = "rb_process" /\ Goto("rb_clear")
    /\ UNCHANGED <<works, validation, state, process, who, mode, target, hasConfig>>

RollbackProcess ==
    /\ pc = "rb_process"
    /\ CASE who = Config /\ Prev = None -> StopAndWait("rb_clear", Failed)
         [] who = Bundle /\ ~hasConfig  -> Goto("rb_clear") /\ UNCHANGED process
         [] OTHER                       -> RestartAndWait("rb_clear", Failed)
    /\ UNCHANGED <<works, validation, state, who, mode, target, hasConfig>>

RollbackClear ==
    /\ pc = "rb_clear"
    /\ Write(pending, NoRecord, IF mode = "command" THEN "idle" ELSE "recover", Failed)
    /\ Decided
    /\ UNCHANGED <<works, validation, current, applied, who, mode, target, hasConfig>>

-----------------------------------------------------------------------------
(* Client.Run *)

Restart ==
    /\ pc = "down" /\ Goto("recover")
    /\ who' = Bundle /\ mode' = "recover" /\ target' = None
    /\ UNCHANGED <<works, validation, state, process, hasConfig>>

\* Mutant: a record whose target was not switched to is left there.
RecoverIfSwitched ==
    /\ pc = "recover"
    /\ \/ /\ current[who] # pending[who].target \/ pending[who] = NoRecord
          /\ who = Bundle
          /\ who' = Config /\ Goto("recover") /\ UNCHANGED <<mode, hasConfig>>
       \/ /\ current[who] # pending[who].target \/ pending[who] = NoRecord
          /\ who = Config
          /\ mode' = "command" /\ Goto("idle") /\ UNCHANGED <<who, hasConfig>>
       \/ /\ pending[who] # NoRecord /\ current[who] = pending[who].target
          /\ Goto(IF Confirmed(who) THEN "clear" ELSE "rb")
          /\ hasConfig' = (applied[Config] # None)
          /\ UNCHANGED <<who, mode>>
    /\ target' = None
    /\ UNCHANGED <<works, validation, state, process>>

\* Recover of the bundle, which needs appliedConfigPath to roll back, then of
\* the configuration.
Recover ==
    /\ pc = "recover"
    /\ \/ /\ pending[who] = NoRecord /\ who = Bundle
          /\ who' = Config /\ Goto("recover") /\ UNCHANGED <<mode, hasConfig>>
       \/ /\ pending[who] = NoRecord /\ who = Config
          /\ mode' = "command" /\ Goto("idle") /\ UNCHANGED <<who, hasConfig>>
       \/ /\ pending[who] # NoRecord
          /\ Goto(CASE Confirmed(who) -> "clear"
                    [] who = Bundle /\ ~Confirmed(who) /\ ~ConfigKnown -> "down"
                    [] OTHER -> "rb")
          /\ hasConfig' = (applied[Config] # None)
          /\ UNCHANGED <<who, mode>>
    /\ target' = None
    /\ UNCHANGED <<works, validation, state, process>>

\* The agent is stopped or updates itself between two commands ...
Exit ==
    /\ pc = "idle" /\ Goto("down")
    /\ UNCHANGED <<works, validation, state, process, who, mode, target, hasConfig>>

\* ... or dies within one.
Crash ==
    /\ pc \notin {"idle", "down"} /\ Fault("down")
    /\ UNCHANGED <<works, validation, state, process, who, mode, target, hasConfig>>

-----------------------------------------------------------------------------
(* The supervisor *)

\* RunManagedProcess up to os.Readlink: ActivePath is the bootstrap executable
\* for good, or the bundle's link.
SupervisorRead ==
    /\ xray = None /\ Startable
    /\ xray' = <<current[Config], IF Active = Bootstrap THEN Bootstrap ELSE None>>
    /\ UNCHANGED <<works, validation, state, seen, stale, unproven,
                   pc, who, mode, target, hasConfig, faults>>

\* command.Start, of the bundle's link.
SupervisorStart ==
    /\ xray # None /\ xray[2] = None /\ current[Bundle] # None
    /\ xray' = Launched
    /\ UNCHANGED <<works, validation, state, seen, stale, unproven,
                   pc, who, mode, target, hasConfig, faults>>

\* xray.pid.
SupervisorWritePID ==
    /\ xray # None /\ xray[2] # None /\ ~seen /\ seen' = TRUE
    /\ UNCHANGED <<works, validation, state, xray, stale, unproven,
                   pc, who, mode, target, hasConfig, faults>>

\* Xray ends, by itself or on a signal, or an error ends the supervisor.
XrayExit ==
    /\ xray # None
    /\ xray' = None /\ seen' = FALSE /\ stale' = FALSE
    /\ UNCHANGED <<works, validation, state, unproven, pc, who, mode, target, hasConfig, faults>>

-----------------------------------------------------------------------------
Command ==
    \/ \E t \in Bundles : UpdateBundle(t)
    \/ \E t \in Configs : ValidateConfig(t) \/ ApplyConfig(t) \/ ApplyAgain(t)

Step ==
    \/ PersistPending \/ StopCurrent \/ Switch \/ Activate \/ PersistApplied \/ Confirm
    \/ Rollback \/ RollbackSwitch \/ RollbackApplied \/ RollbackProcess \/ RollbackClear
    \/ Recover

Next ==
    \/ Command \/ Step \/ Restart \/ Exit \/ Crash
    \/ SupervisorRead \/ SupervisorStart \/ SupervisorWritePID \/ XrayExit

Spec == Init /\ [][Next]_vars

\* The agent's steps are taken, the service manager restarts the agent, and a
\* process that cannot stay up ends, however often a recovery is tried again.
FairSpec ==
    Spec /\ WF_vars(Step) /\ WF_vars(Restart) /\ SF_vars(XrayExit /\ Launched \notin works)

-----------------------------------------------------------------------------
(* Properties *)

\* While nothing is undecided, Xray runs the applied configuration with the
\* applied bundle and nothing else, although each manager restarts the process
\* with whatever the other one's link names.  Only a process that was not yet
\* in xray.pid when RestartAndWait (controller.go:106) or StopAndWait (:68)
\* looked, or that an update without an applied configuration left alone, may
\* run another pair until it ends.
RunsWhatIsApplied ==
    /\ pc \in {"idle", "down"} /\ ~Undecided(Config) /\ ~Undecided(Bundle) /\ ~stale
    /\ xray # None /\ xray[2] # None
    => /\ xray[1] = applied[Config]
       /\ xray[2] = (IF applied[Bundle] = None THEN Bootstrap ELSE applied[Bundle])

\* A configuration and a bundle that are both confirmed have been seen to work
\* together, whichever of them came last, unless the restart that was to show
\* it was confirmed by another process (controller.go:106, with none in
\* xray.pid before).
ConfirmedPairWorks ==
    /\ pc = "idle" /\ ~Undecided(Config) /\ ~Undecided(Bundle) /\ applied[Config] # None
    /\ ~unproven
    => <<applied[Config], Active>> \in works

\* Client.Run decides what a manager left undecided, unless one of these is in
\* its way: both managers are undecided, Xray runs an executable that is not
\* the active one, or the pair to go back to does not work.
RestartDecides ==
    \A m \in Managers :
        pc = "down" /\ Undecided(m) ~>
            \/ ~Undecided(m)
            \/ Undecided(Config) /\ Undecided(Bundle)
            \/ ~Recognised
            \/ Startable /\ Selected \notin works

\* A configuration that did not start, and is not applied, is replaced by the
\* previous one, which would start, at the latest when the agent has been
\* restarted ("startup failure restores the previous version").
StartupFailureIsRestored ==
    /\ pc = "down" /\ Undecided(Config) /\ applied[Config] = pending[Config].prev
    /\ <<pending[Config].target, Active>> \notin works
    /\ <<pending[Config].prev, Active>> \in works
    ~> ~Undecided(Config)
=============================================================================
