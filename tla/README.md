# xui-agent in TLA+

A verification development for `xui-agent`, the node runtime that keeps an Xray
process, its configuration and its own binary up to date on behalf of a control
center, and reports events back. The modules model the code under `src/`; TLC
checks them on small instances and TLAPS proves the main safety results for
every instance. `PROJECT.json` maps each definition to the lines it models.

## The system

One node runs up to four kinds of process which share one state directory and
no lock: the **agent**, the **launcher** script that supervises it, the **Xray
supervisor** (`xui-agent xray-run`, kept alive by systemd or OpenRC), and now and
then the **installer**. The agent holds one websocket session with the center;
commands arrive on it and are executed one at a time.

| component | state it keeps | operations | what makes it correct |
|---|---|---|---|
| managed configuration, `internal/xrayruntime/manager.go` | `versions/`, links `current.json` and `previous.json`, `applied.json`, `apply-pending.json`, `apply-failed.json` | Apply, Recover, rollback, pruneVersions | at any crash point the files tell what to do; answers to the center are true; pruning never removes what is still needed |
| validator, `internal/xrayconfig` | `validation.json` | Validate | versions are monotonic, bound to one digest, and nothing unvalidated is applied |
| process control, `internal/xrayruntime/controller.go`, `process.go` | `xray.pid`, `restart` marker | RestartAndWait, StopAndWait, RunManagedProcess | a confirmed restart runs what was switched to; a confirmed stop is final; calls return |
| managed bundle, `internal/xrayupdate`, `internal/xraybinary` | `xray-runtime/versions/`, links, `applied.json`, `update-pending.json`, `update-failed.json` | installPrepared, Recover, rollback, pruneVersions, ActivePath | as for the configuration; the bootstrap executable is never used again once a bundle is confirmed |
| self-update, `internal/update`, `deploy/xui-agent-launcher`, `deploy/install.sh` | version directories, links, `update-pending.json`, `update-failed.json` | install, Confirm, launcher loop, installer | an unproven binary is never left without a way back; every update is decided; the node always returns |
| event spool and uploader, `internal/eventspool`, `internal/telemetry` | a bolt database: events, sequence numbers, byte and event counters, access-log checkpoint | enqueue, Batch, Acknowledge, uploadOnce | each access line reaches the center once and in order; counters are exact; the queue drains |
| control session, `internal/agent` | enrolment, pending-update flag | Run, runSession, execute* | recovery precedes commands; a lost result does not lose the update |
| access log, `internal/telemetry/access.go` | checkpoint: file identity, offset, anchor | collectOnce, drain | over rotations every line is reported once, in order, and what is lost is known |
| statistics, `internal/telemetry/xray.go`, with `internal/status` for the runtime id | last counters and epoch of each user | collect | under one runtime id and epoch counters never go back; the center can add up differences |
| route webhook, `internal/telemetry/route.go` | none | handle | a request is queued or counted as dropped |
| status report, config file, identity, release client, wire types, release tool, uninstaller | none that outlives a call, or one file written once | | not modelled, see the end |

Interactions: the session calls the validator, both managers and the updater.
Both Xray managers call the process controller, which only sees the supervisor
through `xray.pid`, `/proc` and the links. The launcher and the installer see
the agent only through its exit status and the update records. Producers and
the uploader meet in database transactions. The two Xray managers share one
process: each restarts it with whatever the other one's link names, and at the
start of the agent `Run` recovers the bundle first and the configuration second.

Hard behaviours: durable protocols of several writes which may stop after any
of them, and whose writes may report an error *after* taking effect (the
directory fsync fails after the rename); supervisors that act between any two
steps; recovery that can itself be interrupted; requests that arrive after their
sender has given up; queues at their limit; a log file that is looked at by
name, renamed by someone else and then opened by name. The `hazards` list in
`PROJECT.json` names them at their lines.

## Modules

| module | models | lines up with the code so |
|---|---|---|
| `ConfigApply` | managed configuration and validator | a variable per file or link, `pc` and locals for the operation under way, one action per durable write; the supervisor's read, start and `xray.pid` as steps between them |
| `ProcessControl` | controller and supervisor as two processes | one action per file or process operation; two polls that see the same process are the stable period |
| `BinaryUpdate` | managed bundle and the executable resolver | as `ConfigApply`; the supervisor starts Xray from `ActivePath` whenever `current.json` is there, and a first configuration may be applied, undone or left undecided meanwhile |
| `AgentUpdate` | `update.Manager`, its use in the session, the launcher, the installer | three processes; one action per file operation; `good` is a history variable: the binaries that have sent a confirmed heartbeat |
| `EventQueue` | what the event pipeline promises | abstract: accept, deliver a longer prefix, forget what is delivered |
| `EventSpool` | spool, producers, uploader, and the center as the uploader sees it | one action per bolt transaction, request and reply |
| `AccessLog` | the access log collector and the log underneath it | one action per system call and spool transaction; rotation, truncation and inode reuse are external actions between any two |
| `TrafficCounter` | the statistics collector, the process's start time, the center's sum | one action per call of `collect`; Xray restarts, resets and clock changes in between |
| `ManagedRuntime` | the configuration and the bundle manager composed over one process, and `Run`'s recovery | both managers run the same steps on their own link, state file and record (`who`); what differs is a conjunct; the bundle manager asks for the applied configuration as `appliedConfigPath` does (`ConfigKnown`) |
| `MC*` | instances for TLC | model values and small sets |
| `*Proofs` | theorems about each of the eight detailed modules above | one module each: inductive invariant, lemmas, theorems |

The supervisor acts between any two steps of a manager in `ConfigApply`,
`BinaryUpdate` and `ManagedRuntime`. A call of the controller is one step there,
with the outcomes that `ProcessControl` finds for the calls in full: a process in
`xray.pid` is replaced by one that was started later, or ended; without one,
`RestartAndWait` takes the first that appears for the replacement, whatever link
it was started from (`controller.go:106`), and `StopAndWait` returns at once
(`controller.go:68`). A process that a confirmed call has missed in this way is
marked `stale` until it ends.
`ManagedRuntime` takes from each manager the writes the other one can see and
leaves the rest (pruning, `previous` links, answers) to the modules above.
`AccessLog` is the source of the lines that `EventSpool` treats as a list.

### Abstractions

* A configuration is its digest, a release is a model value, an event is its
  line number and size. File names carry version and digest, so a state file
  that repeats them is represented by the file it names.
* A *fault* is a crash, an I/O error or a lost result, at any step; a *drift* is
  a change to the state directory from outside. Both are bounded by constants
  (`MaxFaults`, `MaxDrifts`, `MaxFailures`), as are sequence numbers and drops.
  The theorems hold for every value of these bounds.
* Modification times are ranks without gaps where only their order matters.
* `EventSpool` joins the small RecordDrop and RecordError transactions to the
  step they follow, and treats the access log as a list that only grows.
* `ProcessControl` does not model the reuse of a process number by an unrelated
  program, nor a change of the Xray binary (that is `BinaryUpdate`).
* `BinaryUpdate` knows of the configuration only whether there is none, a first
  one is undecided (with `current.json` or without), or one is applied; its check
  that `current.json` and `applied.json` agree (`appliedConfigPath`) is in
  `ManagedRuntime`, since it can fail only with a second configuration. A temporary
  directory that a crash leaves below `versions/` is ignored (no code reads it),
  and a bundle that a crash within `removeBundleDirectory` leaves incomplete is
  modelled: nothing repairs it, so that release can not be installed again.
* `AccessLog`: a line is two pieces. The checkpoint's anchor is the digest of at
  most 64 bytes before its offset; `Ending` says what these are for each piece,
  and pieces of different lines may have the same, so an anchor can match content
  it was not made from. A rotated file is looked up by its inode number and then
  opened by the name found, which a later rotation may give to another file or to
  none. `bufio` reads ahead in the code, the model reads piece by piece: a
  read-ahead only postpones what is seen to the next collection. A line written
  to a file the collector has already left is counted as taken away by the
  rotation, since the code can not know of it.
* `TrafficCounter`: the boot time takes two values, which is enough for an id to
  change and to come back. The answer's text is left out; a direction without a
  counter reads as zero, as `parseTrafficStats` has it.
* `ManagedRuntime`: the supervisor reads the link of the configuration, follows
  that of the bundle when it starts Xray, and writes `xray.pid`, in three steps
  between any two of the agent. Whether a pair of
  configuration and executable passes `-test` (`Loads`) is a constant, whether it
  stays up (`works`) is any subset of these. The validator's verdict is kept
  without the executable that gave it, as in the code.
* In `AgentUpdate` a binary has a version string which two builds may share,
  because the code compares strings.

## Runs

| run | module and cfg | states, time | what it shows |
|---|---|---|---|
| `config` | `MCConfigApply`, `ConfigApply` | 1.1 M, 2 min | consistency of the durable files, truth of answers, pruning, and that a restarted agent decides a half-done apply |
| `process_control` | `MCProcessControl`, `ProcessControl` | | restart and stop that saw a process are truthful; calls return; Xray comes back |
| `process_race` | `ProcessControlRace` | | **violation**, finding 1 |
| `binary_update` | `MCBinaryUpdate`, `BinaryUpdate` | 1.2 M, 3 min | consistency, answers, pruning, bootstrap fallback and recovery of the bundle |
| `binary_race` | `BinaryUpdateRace` | | **violation**, finding 3 |
| `managed` | `MCManagedRuntime`, `ManagedRuntime` | 620 k, 1½ min | Xray runs what both managers have applied; a confirmed pair has been seen to work; a restart decides what it can |
| `managed_stuck` | `ManagedRuntimeStuck` | | **violation**, finding 4 |
| `agent` | `MCAgentUpdate`, `AgentUpdate` | 1.3 M, 2½ min | agent, launcher and installer: what is selected is proven or protected by a record, what a rollback restores is proven and there, the node returns |
| `agent_installer_race` | `AgentUpdateInstallerRace` | | **violation**, finding 2 |
| `spool` | `MCEventSpool`, `EventSpool` | 210 k, 1 min | exactly-once lines, exact accounting, contiguity, honest replies accepted, refinement of `EventQueue`, and everything is delivered |
| `access_log` | `MCAccessLog`, `AccessLog` | 1.4 M, 2 min | lines once and in order, no silent loss but the two named, and the collector reaches the end of the log |
| `traffic` | `MCTrafficCounter`, `TrafficCounter` | 3.1 M, 1 min | counters do not go back under one label, nothing is counted twice but what a misleading id explains |

Bounds. Two faults let a step fail and its recovery fail too, and leave both
managers of `managed` undecided. `config` has a first version and an update,
each with good or bad contents, and keeps `Retained = 1` so that pruning has
something to remove. Three bundles or binaries are the fewest with which a
rollback target, a candidate and something to prune exist at once; each set has
an unhealthy member, and the binaries of `agent` a rebuild with the installed
version string. The spool's byte and event limits are smaller than the lines and
events offered, so it fills; one event is larger than the limit of a batch, so
that the rule that a batch holds at least one event matters. In `access_log`
three inode numbers are a file, its successor and one that overtakes the
collector or comes back after a removal; two rotations are needed to skip a
file; the second of three lines is written in two pieces, and the first two
lines end alike, so that an anchor can be mistaken. `traffic` has one user, as
users do not influence each other, two restarts within two seconds, and two
changes of the clock (away and back). In `managed` two configurations and two
bundles with each subset of working pairs decide which of the four, and the
bootstrap executable, can be gone back to. Deadlock checking is off only for the
spool, which rests when everything is delivered and the bound on events is
reached.

Properties with an exception name it in their text, and each exception is a
behaviour of the code:

* `LinesInOrder`: a rename between `os.Stat` and `os.Open` makes the collector
  read the new file with the identity of the old one, and read it again later. A
  file is repeated once for each such rename, never more.
* `RunningIsAccountedFor` and the `rolled_back` part of `AnswerIsTrue` in
  `ConfigApply`, `RunsWhatIsApplied`: not for a `stale` process, which was not in
  `xray.pid` when a restart or stop was confirmed (finding 1), until it ends.
* `RunningIsAccountedFor` and `ConfirmedForGood` in `BinaryUpdate`, and
  `RunsWhatIsApplied`: not for an Xray that was up while an update of the bundle
  was decided without an applied configuration. The supervisor starts Xray as soon
  as `current.json` is there, `installPrepared` handles a process only when
  `applied.json` is, so with a first configuration undecided the process keeps its
  executable until it ends. No further one is started from it.
* `ConfirmedPairWorks`: not when the restart that was to show it was confirmed by a
  process of another pair (`unproven`, finding 1), until a later restart does show
  it.
* `LossIsAccountedFor`: two kinds of line are lost without a report. One is in
  front of an offset whose anchor matched because a new line there ends in the same
  64 bytes as the one that was read (`mistaken`). The other is in a rotated file
  whose name passed to a drained file between the search and `os.Open`. Nothing
  is claimed after the log was truncated in the middle of a collection; the offset
  then points into other content and nothing tells.
* `CatchesUp`: a rotated file that ends in a line whose writer was killed is
  never drained, and the collector stays there until the archive is removed.
* `RestartDecides`: not when both managers are undecided (finding 4), when Xray
  runs an executable that is not the active one (finding 3), or when the pair to
  go back to does not work.
* `NeverOvercounted`: a snapshot taken from a process that replaced the one whose
  start time was read, and one whose id changed with the clock, may be counted
  once more.
* `UnprotectedIsProven` and `RollbackTargetIsProven` are stated for a node on
  which no installer has been started, since the race of finding 2 breaks them.
  `NodeReturns` covers the installer as well in that every update is decided, and
  promises a working session without one. It leaves out an update to another
  build of the running version, which `Run` takes for its own.

### Fairness

* `ConfigApply`, `BinaryUpdate`: the agent keeps executing (weak fairness on its
  next step) and the service manager restarts it (`Restart=on-failure` in the unit
  files: the agent ends by a crash or with an error). Commands, crashes, Xray and
  the supervisor get no fairness, but for a supervisor of `BinaryUpdate` that has
  started Xray: it goes on to write `xray.pid`.
* `ProcessControl`: the supervisor keeps executing and is restarted (every end of
  Xray is an error of `RunManagedProcess`, without a start limit); each of the
  controller's own steps is taken; the context's deadline passes. Nothing makes
  Xray stay up, or a poll see it.
* `AgentUpdate`: processes keep executing; the candidate's heartbeat or its
  health deadline happens. Strong fairness on the end of a session stands for a
  connection that does not last for ever: a command may take the agent out of
  the state in which `Run` looks at the record again and again.
* `AccessLog`: the collector's ticker never stops (weak fairness on its next
  step). Nothing is assumed of Xray and of log rotation.
* `ManagedRuntime`: the agent's steps and its restart, as above. Strong fairness
  on the end of a process that does not stay up: each recovery that is tried
  again may restart it, but it does end.
* `TrafficCounter`: none; its properties are about safety.
* `EventSpool`: the uploader's loop runs and the center answers what it
  receives. Failures are bounded, since nothing is delivered to a center that is
  never reachable.

## Proofs

Every safety property that a passing run checks is also proved, for every value
of the constants: any number of versions, bundles, files, users, lines, faults
and rotations. No property is inductive as it stands, since each depends on where
some process is between two steps; each proof module therefore begins with an
inductive invariant `Inv` whose parts are named for what they say, proves with
one lemma per part and one step per action that every action keeps it, and derives
the properties from `Invariance` (`Spec => []Inv`). TLC checked each `Inv` as an
invariant before it was proved. The proofs assume only the named assumptions on
the constants; two of those say that `None` is not one of the things it stands
beside (`TrafficAssumption`, `AccessAssumption`).

| module | theorems | what the invariant adds |
|---|---|---|
| `ConfigApplyProofs` | `TypeCorrect`, `CrashConsistency`, `PruneIsSafe`, `XrayIsAccountedFor`, `AnswersAreTrue` | at each program location: the record on disk is that of the operation (`RecordInv`), how the links stand to `applied.json` (`LinkInv`), that what is named is there (`FileInv`), what Xray can run or be started with, of every process a confirmed call has not missed (`RunInv`), that the command works on an approved request (`CommandInv`) and that its answer is true before it is given (`TruthInv`) |
| `BinaryUpdateProofs` | `TypeCorrect`, `CrashConsistency`, `PruneIsSafe`, `XrayIsAccountedFor`, `AnswersAreTrue`, `BootstrapIsLeftForGood` | the same for the bundle; the supervisor starts the active executable between any two steps, with a configuration applied or not, so `RunInv` and `BootInv` speak of all states in which `ActivePath` can change, and tell an update that handles the process from one that leaves it alone |
| `ManagedRuntimeProofs` | `TypeCorrect`, `XrayRunsWhatIsApplied`, `PairsAreProven` | all four combinations of the two records; what the process may run while they are there (`ConfigRuns`, `BundleRuns`) and what a restart has shown (`ProcessInv`); `WorksInv`: what is, or could become, confirmed together has been seen to work together |
| `AgentUpdateProofs` | `TypeCorrect`, `SelectedIsProven`, `RollbackIsProven` | agent and launcher take turns (`TurnInv`), so each step finds links and record as its own process left them; from there on for a node without an installer, as in the properties |
| `ProcessControlProofs` | `TypeCorrect`, `ReplacementIsCurrent`, `StopIsFinal` | once the controller saw the old process, that process is the supervisor's child and runs what the supervisor read, so whatever starts later was read after the switch |
| `EventSpoolProofs` | `TypeCorrect`, `Accounting`, `ExactlyOnce`, `HonestReplies`, `Contiguity`, `Refinement` | every copy of an event - in the queue, in the request being sent, in an abandoned request that may still arrive, at the center - is the same event, which is what makes a late request harmless; `Refinement` is step by step, for `EventQueue` |
| `TrafficCounterProofs` | `TypeCorrect`, `NothingIsCountedTwice`, `LabelsAreMonotone` | an accounting argument: the traffic the center has not counted yet always covers what Xray's counters, and a snapshot on its way, can still add (`RoomInv`); the stored label is the newest (`LabelInv`) |
| `AccessLogProofs` | `TypeCorrect`, `OrderIsKept`, `NothingIsLost` | how files grow (`FileInv`, `PairInv`), what the checkpoint remembers (`CheckpointInv`), what `collectOnce` may rely on at each label (`PlaceInv`, `MatchInv`), and how what is ahead of it relates to what was queued (`OrderInv`, `CopyInv`, `LossInv`); `NoteInv` ties mistaken anchors to their history |

Three arguments are worth knowing before reading:

* *Sums and least elements.* The byte counters are sums over sets and
  `readBoundedAccessLine` takes the least line end. Both are defined in the library
  by recursion or choice. What they compute is proved over the subsets of a finite
  set: strict inclusion is well founded there
  (`FS_StrictSubsetOrderingWellFounded`), so a counterexample would have a smallest
  one. The spool's sum is named (`Bytes`) so that lemmas can speak of it.
* *Anchors.* The digest does not say which line it was made from. The invariant
  speaks of content that *fits* the checkpoint (it is what was read) and of content
  that *passes* for it (it ends alike). Order and copies are argued from `Fits`,
  what `collectOnce` does from `Passes`; where the two differ, the lines before the
  offset are in `mistaken` (`NoteInv`), which is why order and the bound on copies
  need no exception for shared endings, and loss does.
* *Copies and races.* `CopyInv` bounds the copies of a line by the renames that
  raced with the stat, with one clause for each way in which a file can still be
  read: by its name (`ReachCopies`), from the checkpoint (`OwnCopies`), after a
  race (`NewCopies`, `RacedCopies`, `SeenCopies`), or under another file's identity
  (`DrainCopies`, `RotatedCopies`). Each race pays for one more copy of what was
  seen before it. `LossInv` counts also the unfinished line as accounted for, and
  what a first collection owes while it has no checkpoint yet (`FirstOwed`).

Left to TLC, because the provers do not reach it: the properties under fairness
(`RestartDecides`, `Recovers`, `NodeReturns`, `CallReturns`, `XrayReturns`,
`EverythingIsDelivered`, `CatchesUp`), and the violated properties of the findings,
of which a counterexample is all there is to show.

## Findings

1. **A configuration is confirmed that does not run** (`process_race`,
   `internal/xrayruntime/controller.go:106`). `waitForReplacement` accepts any
   process other than `oldPID`, and `oldPID` is 0 while the supervisor has
   started Xray but not written `xray.pid`. The README's "confirmed only after
   the replacement Xray process remains healthy" then fails.
2. **The installer reports success for a binary that never ran**
   (`agent_installer_race`, `internal/update/manager.go:325`). Record and switch
   are two writes; the launcher can consume the record in between.
3. **A failed bundle update is not rolled back** (`binary_race`,
   `internal/xrayupdate/manager.go:393`). Between StopAndWait and the switch of
   `current` the supervisor restarts Xray from the old link; the controller then
   refuses that process as "a different executable" in the activation and again
   in the rollback, which gives up before restoring anything. `Recovers` has
   this case as its exception.
4. **A configuration that does not start is never undone** (`managed_stuck`,
   `internal/agent/client.go:150`). With the record of a bundle update left by an
   I/O error, each restart recovers the bundle first. That recovery asks for the
   applied configuration and fails, because the crash left `current.json` on the
   candidate and `applied.json` on the one before (`appliedConfigPath`,
   `internal/xrayupdate/manager.go:450`). It rolls nothing back, and its error ends
   `Run` before the configuration's own recovery, which would restore the one that
   worked and so remove the disagreement.

## Plan

The safety properties of the runs are proved. What would say more about the code:

1. The controller's calls within `ConfigApply` and `ManagedRuntime` shown to
   implement the one step that stands for them there, from `ProcessControl`.
2. Action properties that follow from the invariants at hand: the access log's
   checkpoint never moves back within one file whose anchor matches; a durable
   record is cleared only where link and state file agree.
3. The composition as a refinement: `ManagedRuntime`'s steps of one manager seen
   as steps of an abstract manager that selects, confirms or goes back, for either
   of the two, instead of as two separate modules.
4. Shorter proofs where parts of two modules run parallel (`ConfigApplyProofs`,
   `BinaryUpdateProofs`), should the code merge the two managers.

## Not modelled

* HTTP download, host and size checks, manifest and archive parsing: they decide
  whether a command brings a release, and keep no state that outlives the call.
* Enrolment and the reconnection backoff of the control session: one request
  before anything else runs, and delays without a bound a property could name.
* Start-up and shutdown order of the telemetry goroutines: they share only the
  database, whose transactions are modelled. The end of the telemetry runtime is
  noticed by `Run` only between two sessions.
* The status report: reads `/proc` and the managed files, changes nothing. The
  process's start time is in `TrafficCounter`.
* Configuration file, identity store, wire types: parsed or written once.
* Uninstaller and the first installation on an empty host; release tool.
* Formatting, wording and limits of error texts; time stamps in state files.
