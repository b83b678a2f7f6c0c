------------------------- MODULE BinaryUpdateProofs -------------------------
(***************************************************************************)
(* Proofs about BinaryUpdate, for every set of bundles, every retention    *)
(* and every number of faults and damaged bundles.                         *)
(*                                                                         *)
(* As for the configuration no property is inductive by itself.  Inv adds, *)
(* per program location, what the record, the links and applied.json say   *)
(* there.  What is new is the supervisor, which starts the active          *)
(* executable between any two steps: RunInv and BootInv therefore speak of *)
(* every state in which ActivePath can change, not only of the steps that  *)
(* start a process.                                                        *)
(***************************************************************************)
EXTENDS BinaryUpdate, FiniteSetTheorems, TLAPS

-----------------------------------------------------------------------------
(* The inductive invariant *)

\* installPrepared has not yet written its pending record.
Preparing == {"prune", "install", "load", "pend"}

\* The pending record on disk is the one of the running operation.
Carrying ==
    {"stop", "switch", "restart", "previous", "persist", "confirm", "rb", "rb_stop",
     "rb_current", "rb_applied", "rb_rmapplied", "rb_restart", "rb_failed", "rb_clear"}

\* Ranks are cardinalities, so the directories must be finitely many.
FiniteInv == IsFiniteSet(DOMAIN mtime)

\* The pending record against the locals of the operation.
RecordInv ==
    /\ pending.target = None => pending = NoPending
    /\ pc \in Preparing \cup {"clear", "prune_end"} => pending = NoPending
    /\ pc \in {"check", "prune", "install"} => req # None
    /\ pc \in {"load", "pend"} => tgt = req /\ req # None
    /\ pc \in Carrying => pending = [target |-> tgt, prev |-> prev] /\ tgt # None
    /\ pc = "rb_applied" => prev # None
    /\ pc = "rb_rmapplied" => prev = None
    /\ pc \in {"check", "stop", "switch", "restart", "previous", "persist"} \cup Preparing
          => mode = "apply"
    /\ pc = "prune_end" => mode # "recover"
    /\ pc \in Carrying \cup {"pend"} => hasConfig = HasConfig

\* The links against applied.json and the locals.
LinkInv ==
    /\ pending = NoPending => current = applied
    /\ pending # NoPending => applied \in {pending.target, pending.prev}
    /\ pc \in {"pend", "stop", "switch"} => current = applied /\ applied = prev
    /\ pc = "pend" => applied # tgt
    /\ pc \in {"restart", "previous", "persist"} => current = tgt /\ applied = prev
    /\ pc = "confirm" => current = tgt /\ applied = tgt
    /\ pc \in {"rb_applied", "rb_rmapplied"} => current = prev
    /\ pc \in {"rb_restart", "rb_failed", "rb_clear"} => current = prev /\ applied = prev

\* What a link, a state file or the candidate names is on disk and whole, as
\* long as nobody damages a bundle.
FileInv ==
    drifts = 0 =>
    /\ \A b \in Protected : Verified(b)
    /\ pc \in {"load", "pend"} => Verified(tgt)

\* What the rollback of the record leads back to.
Former == IF pending.prev = None THEN Bootstrap ELSE pending.prev

\* What Xray runs, of every process an update did not leave alone.  While an
\* update is undecided ActivePath can name the candidate or what the rollback
\* leads back to.  With a configuration the update replaces the process, without
\* one it does not.
RunInv ==
    /\ hasConfig /\ pc \in {"previous", "persist"} => xray \in {None, tgt}
    /\ drifts = 0 /\ pending # NoPending =>
          pending.target # pending.prev /\ current \in {pending.target, pending.prev}
    /\ drifts = 0 /\ ~stale =>
         /\ pending = NoPending => xray \in {None, Active}
         /\ pending # NoPending =>
               /\ xray \in {None, pending.target, Former}
               /\ HasConfig /\ applied = pending.target /\ current \in {pending.target, None}
                     => xray \in {None, pending.target}
         /\ hasConfig /\ pc \in {"rb_failed", "rb_clear"} => xray \in {None, Former}

\* The bootstrap executable runs only where the state leads back to it.
BootInv ==
    xray = Bootstrap /\ ~stale =>
        IF pending = NoPending THEN applied = None
        ELSE pending.prev = None /\ (HasConfig => applied # pending.target)

\* The command's answer, and the steps that lead to one.
AnswerInv ==
    /\ result \in {"installed", "rolled_back"} => pc = "idle"
    /\ pc \in Carrying => mode = "recover" \/ tgt = req
    /\ pc \in {"clear", "prune_end"} /\ mode # "recover" => applied = req
    /\ pc = "prune_end" => failed = "none"
    /\ AnswerIsTrue

Inv ==
    TypeOK /\ FiniteInv /\ RecordInv /\ LinkInv /\ FileInv /\ RunInv /\ BootInv /\ AnswerInv

-----------------------------------------------------------------------------
(* Directories *)

\* Removing directories, and ranking what is left, keeps them finitely many
\* and the ranks natural numbers.
LEMMA RankType ==
    ASSUME NEW f, IsFiniteSet(DOMAIN f)
    PROVE  /\ DOMAIN Rank(f) = DOMAIN f
           /\ Rank(f) \in [DOMAIN f -> Nat]
<1>1. ASSUME NEW b \in DOMAIN f
      PROVE  Cardinality({c \in DOMAIN f : f[c] < f[b]}) \in Nat
  <2>1. IsFiniteSet({c \in DOMAIN f : f[c] < f[b]})
    BY FS_Subset
  <2> QED  BY <2>1, FS_CardinalityType
<1> QED  BY <1>1 DEF Rank

\* Removing directories removes those and no others.
LEMMA WithoutEffect ==
    ASSUME TypeOK, FiniteInv, NEW S, Without(S)
    PROVE  /\ DOMAIN mtime' = DOMAIN mtime \ S
           /\ mtime' \in [DOMAIN mtime' -> Nat]
           /\ IsFiniteSet(DOMAIN mtime')
<1> DEFINE f == [b \in DOMAIN mtime \ S |-> mtime[b]]
<1>1. DOMAIN f = DOMAIN mtime \ S /\ IsFiniteSet(DOMAIN f)
  BY FS_Subset DEF FiniteInv
<1>2. mtime' = Rank(f)
  BY DEF Without
<1> HIDE DEF f
<1> QED  BY <1>1, <1>2, RankType

\* Whatever its outcome, pruneVersions removes or damages only bundles that
\* nothing names.
LEMMA PruneEffect ==
    ASSUME TypeOK, FiniteInv, NEW next, NEW ok, NEW r, PruneVersions(next, ok, r)
    PROVE  /\ DOMAIN mtime' \subseteq DOMAIN mtime
           /\ mtime' \in [DOMAIN mtime' -> Nat]
           /\ IsFiniteSet(DOMAIN mtime')
           /\ broken \subseteq broken' /\ broken' \subseteq DOMAIN mtime'
           /\ Protected \cap DOMAIN mtime \subseteq DOMAIN mtime'
           /\ Protected \cap broken' \subseteq broken
           /\ \/ pc' = next /\ result' = ok /\ faults' = faults
              \/ pc' = "idle" /\ result' = r /\ faults' = faults + 1 /\ faults < MaxFaults
              \/ pc' = "down" /\ result' = "none" /\ faults' = faults + 1 /\ faults < MaxFaults
<1>1. Kept \subseteq DOMAIN mtime /\ Protected \cap DOMAIN mtime \subseteq Kept /\ broken \subseteq Kept
  BY DEF Kept, TypeOK
<1>2. CASE /\ Without(DOMAIN mtime \ Kept) /\ UNCHANGED broken
           /\ Goto(next) /\ Return(ok)
  <2>1. /\ DOMAIN mtime' = DOMAIN mtime \ (DOMAIN mtime \ Kept)
        /\ mtime' \in [DOMAIN mtime' -> Nat] /\ IsFiniteSet(DOMAIN mtime')
    <3>1. Without(DOMAIN mtime \ Kept)
      BY <1>2
    <3> HIDE DEF Kept
    <3> QED  BY <3>1, WithoutEffect
  <2>2. DOMAIN mtime' = Kept
    BY <1>1, <2>1
  <2> QED  BY <1>1, <1>2, <2>1, <2>2 DEF Goto, Return
<1>3. ASSUME NEW S \in SUBSET (DOMAIN mtime \ Kept), Without(S),
             \/ UNCHANGED broken
             \/ \E b \in DOMAIN mtime \ (Kept \cup S) : broken' = broken \cup {b},
             \/ Fault("idle") /\ Return(r)
             \/ Fault("down") /\ Return("none")
      PROVE  /\ DOMAIN mtime' \subseteq DOMAIN mtime
             /\ mtime' \in [DOMAIN mtime' -> Nat]
             /\ IsFiniteSet(DOMAIN mtime')
             /\ broken \subseteq broken' /\ broken' \subseteq DOMAIN mtime'
             /\ Protected \cap DOMAIN mtime \subseteq DOMAIN mtime'
             /\ Protected \cap broken' \subseteq broken
             /\ \/ pc' = "idle" /\ result' = r /\ faults' = faults + 1 /\ faults < MaxFaults
                \/ pc' = "down" /\ result' = "none" /\ faults' = faults + 1 /\ faults < MaxFaults
  <2>1. /\ DOMAIN mtime' = DOMAIN mtime \ S /\ mtime' \in [DOMAIN mtime' -> Nat]
        /\ IsFiniteSet(DOMAIN mtime')
    BY <1>3, WithoutEffect
  <2>2. broken \subseteq broken' /\ broken' \subseteq DOMAIN mtime' /\ Protected \cap broken' \subseteq broken
    BY <1>1, <1>3, <2>1
  <2>3. Protected \cap DOMAIN mtime \subseteq DOMAIN mtime'
    BY <1>1, <2>1
  <2> QED  BY <1>3, <2>1, <2>2, <2>3 DEF Fault, Return
<1> QED  BY <1>2, <1>3 DEF PruneVersions

\* installBundleFiles adds at most the requested bundle.
LEMMA InstallEffect ==
    ASSUME TypeOK, FiniteInv, InstallBundle, req # None
    PROVE  /\ DOMAIN mtime' \in {DOMAIN mtime, DOMAIN mtime \cup {req}}
           /\ mtime' \in [DOMAIN mtime' -> Nat]
           /\ IsFiniteSet(DOMAIN mtime')
           /\ pc' \in {"idle", "load"} /\ result' \in {result, "not_required"}
           /\ pc' = "load" => DOMAIN mtime' = DOMAIN mtime \cup {req} /\ req \notin broken
           /\ pc' = "idle" => result' = "not_required"
           /\ faults' = faults \/ (faults < MaxFaults /\ faults' = faults + 1)
<1> DEFINE f == [b \in DOMAIN mtime \cup {req} |->
                    IF b \in DOMAIN mtime THEN mtime[b] ELSE Cardinality(DOMAIN mtime)]
<1>1. DOMAIN f = DOMAIN mtime \cup {req} /\ IsFiniteSet(DOMAIN f)
  BY FS_AddElement DEF FiniteInv
<1>2. mtime' \in {mtime, Rank(f)} /\ (pc' = "load" => mtime' = Rank(f))
  BY DEF InstallBundle, Goto, Fault
<1>3. /\ pc' \in {"idle", "load"} /\ result' \in {result, "not_required"}
      /\ pc' = "load" => req \notin broken
      /\ pc' = "idle" => result' = "not_required"
      /\ faults' = faults \/ (faults < MaxFaults /\ faults' = faults + 1)
  <2>1. CASE req \in broken /\ Goto("idle") /\ Return("not_required")
    BY <2>1 DEF Goto, Return
  <2>2. CASE req \notin broken /\ Goto("load") /\ UNCHANGED result
    BY <2>2 DEF Goto
  <2>3. CASE req \notin broken /\ Goto("idle") /\ Return("not_required")
    BY <2>3 DEF Goto, Return
  <2>4. CASE req \notin broken /\ Fault("idle") /\ Return("not_required")
    BY <2>4 DEF Fault, Return
  <2> QED  BY <2>1, <2>2, <2>3, <2>4 DEF InstallBundle
<1> HIDE DEF f
<1>4. DOMAIN Rank(f) = DOMAIN f /\ Rank(f) \in [DOMAIN f -> Nat]
  BY <1>1, RankType
<1> QED  BY <1>1, <1>2, <1>3, <1>4 DEF TypeOK, FiniteInv

-----------------------------------------------------------------------------
(* One lemma per part of the invariant, one step per action *)

\* Every step keeps the type invariant and the directories finitely many.
LEMMA TypeStep ==
    ASSUME TypeOK, FiniteInv, RecordInv, [Next]_vars
    PROVE  TypeOK' /\ FiniteInv'
<1> USE BundleAssumption
<1> USE DEF TypeOK, FiniteInv, Configuration, HasConfig, Link, Labels, Results, NoPending
<1>1. ASSUME NEW b \in Bundles, Apply(b)
      PROVE  TypeOK' /\ FiniteInv'
  <2>1. hasConfig' \in BOOLEAN /\ stale' \in BOOLEAN
    BY <1>1, Zenon DEF Apply, process
  <2> QED
    BY <1>1, <2>1 DEF Apply, Goto, Return, files, state, process
<1>2. CASE Check
  BY <1>2 DEF Check, Goto, Return, files, state, process, locals
<1>3. CASE Prune
  <2>1. /\ DOMAIN mtime' \subseteq DOMAIN mtime /\ mtime' \in [DOMAIN mtime' -> Nat]
        /\ IsFiniteSet(DOMAIN mtime') /\ broken' \subseteq DOMAIN mtime'
        /\ pc' \in {"install", "idle", "down"} /\ result' \in {"none", "installed", "not_required"}
        /\ faults' \in {faults, faults + 1} /\ (faults' = faults \/ faults < MaxFaults)
    BY <1>3, PruneEffect DEF Prune
  <2> QED  BY <1>3, <2>1 DEF Prune, state, process, locals
<1>4. CASE InstallBundle
  <2>1. req # None
    BY <1>4 DEF RecordInv, InstallBundle
  <2>2. InstallBundle => /\ broken' = broken /\ UNCHANGED <<state, config, process, prev, hasConfig, mode, drifts>>
                         /\ tgt' = req /\ req' = req
    BY DEF InstallBundle
  <2> QED  BY <1>4, <2>1, <2>2, InstallEffect DEF state, process
<1>5. CASE LoadApplied
  BY <1>5 DEF LoadApplied, Goto, Return, VerifyApplied, Recognised, files, state, process,
     locals
<1>6. CASE PersistPending
  BY <1>6 DEF PersistPending, Goto, Fault, Return, files, state, process, locals
<1>7. CASE StopCurrent
  <2>1. hasConfig' \in BOOLEAN /\ stale' \in BOOLEAN
    BY <1>7, Zenon DEF StopCurrent, StopAndWait, process, locals
  <2>2. stage' \in {"none", "started", "seen"}
    BY <1>7 DEF StopCurrent, StopAndWait, process
  <2> QED
    BY <1>7, <2>1, <2>2 DEF StopCurrent, Goto, Fault, StopAndWait, files, state,
     process, locals
<1>8. CASE SwitchCurrent
  BY <1>8 DEF SwitchCurrent, Goto, Fault, files, state, process, locals
<1>9. CASE Activate
  <2>1. hasConfig' \in BOOLEAN /\ stale' \in BOOLEAN
    BY <1>9, Zenon DEF Activate, RestartAndWait, process, locals
  <2>2. stage' \in {"none", "started", "seen"}
    BY <1>9 DEF Activate, RestartAndWait, process
  <2> QED
    BY <1>9, <2>1, <2>2 DEF Activate, Goto, Fault, RestartAndWait, Lasting, Stays,
     Startable, files,
     state, process, locals
<1>10. CASE RecordPrevious
  BY <1>10 DEF RecordPrevious, Goto, Fault, files, state, process, locals
<1>11. CASE PersistApplied
  BY <1>11 DEF PersistApplied, Goto, Fault, files, state, process, locals
<1>12. CASE RemovePending
  BY <1>12 DEF RemovePending, Decided, Failing, Goto, Fault, Return, files, state,
     process, locals
<1>13. CASE RemoveFailed
  BY <1>13 DEF RemoveFailed, Recovered, Failing, Goto, Fault, Return, files, state,
     process, locals
<1>14. CASE PruneAndReturn
  <2>1. /\ DOMAIN mtime' \subseteq DOMAIN mtime /\ mtime' \in [DOMAIN mtime' -> Nat]
        /\ IsFiniteSet(DOMAIN mtime') /\ broken' \subseteq DOMAIN mtime'
        /\ pc' \in {"install", "idle", "down"} /\ result' \in {"none", "installed", "not_required"}
        /\ faults' \in {faults, faults + 1} /\ (faults' = faults \/ faults < MaxFaults)
    BY <1>14, PruneEffect DEF PruneAndReturn
  <2> QED  BY <1>14, <2>1 DEF PruneAndReturn, state, process, locals
<1>15. CASE PrepareRollback
  BY <1>15 DEF PrepareRollback, Goto, Fault, files, state, process, locals
<1>16. CASE RollbackStop
  <2>1. hasConfig' \in BOOLEAN /\ stale' \in BOOLEAN
    BY <1>16, Zenon DEF RollbackStop, StopAndWait, process, locals
  <2>2. stage' \in {"none", "started", "seen"}
    BY <1>16 DEF RollbackStop, StopAndWait, process
  <2> QED
    BY <1>16, <2>1, <2>2 DEF RollbackStop, Goto, Fault, StopAndWait, files, state,
     process, locals
<1>17. CASE RollbackCurrent
  BY <1>17 DEF RollbackCurrent, Goto, Fault, files, state, process, locals
<1>18. CASE RollbackApplied
  BY <1>18 DEF RollbackApplied, Goto, Fault, files, state, process, locals
<1>19. CASE RollbackRestart
  <2>1. hasConfig' \in BOOLEAN /\ stale' \in BOOLEAN
    BY <1>19, Zenon DEF RollbackRestart, RestartAndWait, process, locals
  <2>2. stage' \in {"none", "started", "seen"}
    BY <1>19 DEF RollbackRestart, RestartAndWait, process
  <2> QED
    BY <1>19, <2>1, <2>2 DEF RollbackRestart, Goto, Fault, RestartAndWait, Lasting, Stays,
     Startable, files, state, process, locals
<1>20. CASE RollbackPersistFailed
  BY <1>20 DEF RollbackPersistFailed, Goto, Fault, files, state, process, locals
<1>21. CASE RollbackClearPending
  BY <1>21 DEF RollbackClearPending, Recovered, Decided, Goto, Fault, Return, files,
     state, process, locals
<1>22. CASE RollbackFailed
  BY <1>22 DEF RollbackFailed, Goto, Fault, Return, files, state, process, locals
<1>23. CASE Recover
  BY <1>23 DEF Recover, Recovered, Goto, Fault, VerifyApplied, files, state, process, locals
<1>24. CASE Crash
  <2>1. hasConfig' \in BOOLEAN
    BY <1>24 DEF Crash
  <2> QED  BY <1>24, <2>1 DEF Crash, Fault, Return, files, state, process
<1>25. CASE Restart
  BY <1>25 DEF Restart, Goto, files, state, process, locals
<1>26. CASE XrayExit
  <2>1. hasConfig' \in BOOLEAN /\ stale' \in BOOLEAN
    BY <1>26, Zenon DEF XrayExit, process, locals
  <2>2. stage' \in {"none", "started", "seen"}
    BY <1>26 DEF XrayExit, process
  <2> QED
    BY <1>26, <2>1, <2>2 DEF XrayExit, files, state, process, locals
<1>27. CASE SupervisorStart
  BY <1>27 DEF SupervisorStart, Startable, files, state, process, locals
<1>28. CASE SupervisorWritePID
  <2>1. hasConfig' \in BOOLEAN /\ stale' \in BOOLEAN
    BY <1>28, Zenon DEF SupervisorWritePID, process, locals
  <2>2. stage' \in {"none", "started", "seen"}
    BY <1>28 DEF SupervisorWritePID, process
  <2> QED
    BY <1>28, <2>1, <2>2 DEF SupervisorWritePID, files, state, process, locals
<1>29. CASE ConfigSwitch
  <2>1. hasConfig' \in BOOLEAN /\ stale' \in BOOLEAN
    BY <1>29, Zenon DEF ConfigSwitch, process, locals
  <2>2. stage' \in {"none", "started", "seen"}
    BY <1>29 DEF ConfigSwitch, process
  <2> QED
    BY <1>29, <2>1, <2>2 DEF ConfigSwitch, Goto, Return, files, state, process, locals
<1>30. CASE ConfigRestart
  <2>1. hasConfig' \in BOOLEAN /\ stale' \in BOOLEAN
    BY <1>30, Zenon DEF ConfigRestart, RestartAndWait, process, locals
  <2>2. stage' \in {"none", "started", "seen"}
    BY <1>30 DEF ConfigRestart, RestartAndWait, process
  <2> QED
    BY <1>30, <2>1, <2>2 DEF ConfigRestart, RestartAndWait, Goto, Fault, Lasting,
     Stays, Startable,
     Recognised, files, state, process, locals
<1>31. CASE ConfigRollback
  <2>1. hasConfig' \in BOOLEAN /\ stale' \in BOOLEAN
    BY <1>31, Zenon DEF ConfigRollback, StopAndWait, process, locals
  <2>2. stage' \in {"none", "started", "seen"}
    BY <1>31 DEF ConfigRollback, StopAndWait, process
  <2> QED
    BY <1>31, <2>1, <2>2 DEF ConfigRollback, StopAndWait, Goto, Fault, Recognised,
     files, state, process, locals
<1>32. CASE Drift
  BY <1>32 DEF Drift, Fault, Return, files, state, process, locals
<1>33. CASE UNCHANGED vars
  BY <1>33 DEF vars, files, state, process, locals
<1> QED
  BY <1>1, <1>2, <1>3, <1>4, <1>5, <1>6, <1>7, <1>8, <1>9, <1>10, <1>11, <1>12, <1>13,
     <1>14, <1>15, <1>16, <1>17, <1>18, <1>19, <1>20, <1>21, <1>22, <1>23, <1>24,
     <1>25, <1>26, <1>27, <1>28, <1>29, <1>30, <1>31, <1>32, <1>33
     DEF Next, ApplyStep, RollbackStep, ConfigStep

\* Every step keeps the pending record and the locals together.
LEMMA RecordStep ==
    ASSUME TypeOK, RecordInv, LinkInv, [Next]_vars
    PROVE  RecordInv'
<1> USE BundleAssumption
<1> USE DEF TypeOK, HasConfig, RecordInv, Preparing, Carrying, NoPending, Link
<1>1. ASSUME NEW b \in Bundles, Apply(b)
      PROVE  RecordInv'
  BY <1>1 DEF Apply, Goto, Return, files, state, process, locals
<1>2. CASE Check
  BY <1>2 DEF Check, Goto, Return, files, state, process, locals
<1>3. CASE Prune
  BY <1>3 DEF Prune, Goto, Fault, Return, PruneVersions, Without, Kept, Rank, files,
     state, process, locals
<1>4. CASE InstallBundle
  BY <1>4 DEF InstallBundle, Goto, Fault, Return, Rank, files, state, process, locals
<1>5. CASE LoadApplied
  BY <1>5 DEF LoadApplied, Goto, Return, VerifyApplied, Recognised, files, state, process,
     locals
<1>6. CASE PersistPending
  BY <1>6 DEF PersistPending, Goto, Fault, Return, files, state, process, locals
<1>7. CASE StopCurrent
  BY <1>7 DEF StopCurrent, Goto, Fault, StopAndWait, files, state, process, locals
<1>8. CASE SwitchCurrent
  BY <1>8 DEF SwitchCurrent, Goto, Fault, files, state, process, locals
<1>9. CASE Activate
  BY <1>9 DEF Activate, Goto, Fault, RestartAndWait, Lasting, Stays, Startable, files,
     state, process, locals
<1>10. CASE RecordPrevious
  BY <1>10 DEF RecordPrevious, Goto, Fault, files, state, process, locals
<1>11. CASE PersistApplied
  BY <1>11 DEF PersistApplied, Goto, Fault, files, state, process, locals
<1>12. CASE RemovePending
  BY <1>12 DEF RemovePending, Decided, Failing, Goto, Fault, Return, files, state,
     process, locals
<1>13. CASE RemoveFailed
  BY <1>13 DEF RemoveFailed, Recovered, Failing, Goto, Fault, Return, files, state,
     process, locals
<1>14. CASE PruneAndReturn
  BY <1>14 DEF PruneAndReturn, Goto, Fault, Return, PruneVersions, Without, Kept,
     Rank, files, state, process, locals
<1>15. CASE PrepareRollback
  BY <1>15 DEF PrepareRollback, Goto, Fault, files, state, process, locals
<1>16. CASE RollbackStop
  BY <1>16 DEF RollbackStop, Goto, Fault, StopAndWait, files, state, process, locals
<1>17. CASE RollbackCurrent
  BY <1>17 DEF RollbackCurrent, Goto, Fault, files, state, process, locals
<1>18. CASE RollbackApplied
  BY <1>18 DEF RollbackApplied, Goto, Fault, files, state, process, locals
<1>19. CASE RollbackRestart
  BY <1>19 DEF RollbackRestart, Goto, Fault, RestartAndWait, Lasting, Stays,
     Startable, files, state, process, locals
<1>20. CASE RollbackPersistFailed
  BY <1>20 DEF RollbackPersistFailed, Goto, Fault, files, state, process, locals
<1>21. CASE RollbackClearPending
  BY <1>21 DEF RollbackClearPending, Recovered, Decided, Goto, Fault, Return, files,
     state, process, locals
<1>22. CASE RollbackFailed
  BY <1>22 DEF RollbackFailed, Goto, Fault, Return, files, state, process, locals
<1>23. CASE Recover
  BY <1>23 DEF Recover, Recovered, Goto, Fault, VerifyApplied, files, state, process, locals
<1>24. CASE Crash
  BY <1>24 DEF Crash, Fault, Return, files, state, process, locals
<1>25. CASE Restart
  BY <1>25 DEF Restart, Goto, files, state, process, locals
<1>26. CASE XrayExit
  BY <1>26 DEF XrayExit, files, state, process, locals
<1>27. CASE SupervisorStart
  BY <1>27 DEF SupervisorStart, Startable, files, state, process, locals
<1>28. CASE SupervisorWritePID
  BY <1>28 DEF SupervisorWritePID, files, state, process, locals
<1>29. CASE ConfigSwitch
  BY <1>29 DEF ConfigSwitch, Goto, Return, files, state, process, locals
<1>30. CASE ConfigRestart
  BY <1>30 DEF ConfigRestart, RestartAndWait, Goto, Fault, Lasting, Stays, Startable,
     Recognised, files, state, process, locals
<1>31. CASE ConfigRollback
  BY <1>31 DEF ConfigRollback, StopAndWait, Goto, Fault, Recognised, files, state,
     process, locals
<1>32. CASE Drift
  BY <1>32 DEF Drift, Fault, Return, files, state, process, locals
<1>33. CASE UNCHANGED vars
  BY <1>33 DEF vars, files, state, process, locals
<1> QED
  BY <1>1, <1>2, <1>3, <1>4, <1>5, <1>6, <1>7, <1>8, <1>9, <1>10, <1>11, <1>12, <1>13,
     <1>14, <1>15, <1>16, <1>17, <1>18, <1>19, <1>20, <1>21, <1>22, <1>23, <1>24,
     <1>25, <1>26, <1>27, <1>28, <1>29, <1>30, <1>31, <1>32, <1>33
     DEF Next, ApplyStep, RollbackStep, ConfigStep

\* Every step keeps the links and applied.json in agreement.
LEMMA LinkStep ==
    ASSUME TypeOK, RecordInv, LinkInv, [Next]_vars
    PROVE  LinkInv'
<1> USE BundleAssumption
<1> USE DEF TypeOK, HasConfig, RecordInv, LinkInv, Preparing, Carrying, NoPending, Link
<1>1. ASSUME NEW b \in Bundles, Apply(b)
      PROVE  LinkInv'
  BY <1>1 DEF Apply, Goto, Return, files, state, process, locals
<1>2. CASE Check
  BY <1>2 DEF Check, Goto, Return, files, state, process, locals
<1>3. CASE Prune
  BY <1>3 DEF Prune, Goto, Fault, Return, PruneVersions, Without, Kept, Rank, files,
     state, process, locals
<1>4. CASE InstallBundle
  BY <1>4 DEF InstallBundle, Goto, Fault, Return, Rank, files, state, process, locals
<1>5. CASE LoadApplied
  BY <1>5 DEF LoadApplied, Goto, Return, VerifyApplied, Recognised, files, state, process,
     locals
<1>6. CASE PersistPending
  BY <1>6 DEF PersistPending, Goto, Fault, Return, files, state, process, locals
<1>7. CASE StopCurrent
  BY <1>7 DEF StopCurrent, Goto, Fault, StopAndWait, files, state, process, locals
<1>8. CASE SwitchCurrent
  BY <1>8 DEF SwitchCurrent, Goto, Fault, files, state, process, locals
<1>9. CASE Activate
  BY <1>9 DEF Activate, Goto, Fault, RestartAndWait, Lasting, Stays, Startable, files,
     state, process, locals
<1>10. CASE RecordPrevious
  BY <1>10 DEF RecordPrevious, Goto, Fault, files, state, process, locals
<1>11. CASE PersistApplied
  BY <1>11 DEF PersistApplied, Goto, Fault, files, state, process, locals
<1>12. CASE RemovePending
  BY <1>12 DEF RemovePending, Decided, Failing, Goto, Fault, Return, files, state,
     process, locals
<1>13. CASE RemoveFailed
  BY <1>13 DEF RemoveFailed, Recovered, Failing, Goto, Fault, Return, files, state,
     process, locals
<1>14. CASE PruneAndReturn
  BY <1>14 DEF PruneAndReturn, Goto, Fault, Return, PruneVersions, Without, Kept,
     Rank, files, state, process, locals
<1>15. CASE PrepareRollback
  BY <1>15 DEF PrepareRollback, Goto, Fault, files, state, process, locals
<1>16. CASE RollbackStop
  BY <1>16 DEF RollbackStop, Goto, Fault, StopAndWait, files, state, process, locals
<1>17. CASE RollbackCurrent
  BY <1>17 DEF RollbackCurrent, Goto, Fault, files, state, process, locals
<1>18. CASE RollbackApplied
  BY <1>18 DEF RollbackApplied, Goto, Fault, files, state, process, locals
<1>19. CASE RollbackRestart
  BY <1>19 DEF RollbackRestart, Goto, Fault, RestartAndWait, Lasting, Stays,
     Startable, files, state, process, locals
<1>20. CASE RollbackPersistFailed
  BY <1>20 DEF RollbackPersistFailed, Goto, Fault, files, state, process, locals
<1>21. CASE RollbackClearPending
  BY <1>21 DEF RollbackClearPending, Recovered, Decided, Goto, Fault, Return, files,
     state, process, locals
<1>22. CASE RollbackFailed
  BY <1>22 DEF RollbackFailed, Goto, Fault, Return, files, state, process, locals
<1>23. CASE Recover
  BY <1>23 DEF Recover, Recovered, Goto, Fault, VerifyApplied, files, state, process, locals
<1>24. CASE Crash
  BY <1>24 DEF Crash, Fault, Return, files, state, process, locals
<1>25. CASE Restart
  BY <1>25 DEF Restart, Goto, files, state, process, locals
<1>26. CASE XrayExit
  BY <1>26 DEF XrayExit, files, state, process, locals
<1>27. CASE SupervisorStart
  BY <1>27 DEF SupervisorStart, Startable, files, state, process, locals
<1>28. CASE SupervisorWritePID
  BY <1>28 DEF SupervisorWritePID, files, state, process, locals
<1>29. CASE ConfigSwitch
  BY <1>29 DEF ConfigSwitch, Goto, Return, files, state, process, locals
<1>30. CASE ConfigRestart
  BY <1>30 DEF ConfigRestart, RestartAndWait, Goto, Fault, Lasting, Stays, Startable,
     Recognised, files, state, process, locals
<1>31. CASE ConfigRollback
  BY <1>31 DEF ConfigRollback, StopAndWait, Goto, Fault, Recognised, files, state,
     process, locals
<1>32. CASE Drift
  BY <1>32 DEF Drift, Fault, Return, files, state, process, locals
<1>33. CASE UNCHANGED vars
  BY <1>33 DEF vars, files, state, process, locals
<1> QED
  BY <1>1, <1>2, <1>3, <1>4, <1>5, <1>6, <1>7, <1>8, <1>9, <1>10, <1>11, <1>12, <1>13,
     <1>14, <1>15, <1>16, <1>17, <1>18, <1>19, <1>20, <1>21, <1>22, <1>23, <1>24,
     <1>25, <1>26, <1>27, <1>28, <1>29, <1>30, <1>31, <1>32, <1>33
     DEF Next, ApplyStep, RollbackStep, ConfigStep

\* Every step leaves whole what the state names.
LEMMA FileStep ==
    ASSUME TypeOK, FiniteInv, RecordInv, LinkInv, FileInv, [Next]_vars
    PROVE  FileInv'
<1> USE BundleAssumption
<1> USE DEF TypeOK, HasConfig, RecordInv, LinkInv, FileInv, Protected, Verified, Preparing,
   Carrying, NoPending, Link
<1>1. ASSUME NEW b \in Bundles, Apply(b)
      PROVE  FileInv'
  BY <1>1 DEF Apply, Goto, Return, files, state, process, locals
<1>2. CASE Check
  BY <1>2 DEF Check, Goto, Return, files, state, process, locals
<1>3. CASE Prune
  <2>1. /\ broken \subseteq broken' /\ Protected \cap DOMAIN mtime \subseteq DOMAIN mtime'
        /\ Protected \cap broken' \subseteq broken /\ pc' \in {"install", "idle", "down"}
    BY <1>3, PruneEffect DEF Prune
  <2> QED  BY <1>3, <2>1 DEF Prune, state, process, locals
<1>4. CASE InstallBundle
  <2>1. req # None
    BY <1>4 DEF InstallBundle
  <2>2. /\ DOMAIN mtime \subseteq DOMAIN mtime' /\ pc' \in {"idle", "load"}
        /\ pc' = "load" => req \in DOMAIN mtime' /\ req \notin broken
    BY <1>4, <2>1, InstallEffect
  <2> QED  BY <1>4, <2>2 DEF InstallBundle, state, process
<1>5. CASE LoadApplied
  BY <1>5 DEF LoadApplied, Goto, Return, VerifyApplied, Recognised, files, state, process,
     locals
<1>6. CASE PersistPending
  BY <1>6 DEF PersistPending, Goto, Fault, Return, files, state, process, locals
<1>7. CASE StopCurrent
  BY <1>7 DEF StopCurrent, Goto, Fault, StopAndWait, files, state, process, locals
<1>8. CASE SwitchCurrent
  BY <1>8 DEF SwitchCurrent, Goto, Fault, files, state, process, locals
<1>9. CASE Activate
  BY <1>9 DEF Activate, Goto, Fault, RestartAndWait, Lasting, Stays, Startable, files,
     state, process, locals
<1>10. CASE RecordPrevious
  BY <1>10 DEF RecordPrevious, Goto, Fault, files, state, process, locals
<1>11. CASE PersistApplied
  BY <1>11 DEF PersistApplied, Goto, Fault, files, state, process, locals
<1>12. CASE RemovePending
  BY <1>12 DEF RemovePending, Decided, Failing, Goto, Fault, Return, files, state,
     process, locals
<1>13. CASE RemoveFailed
  BY <1>13 DEF RemoveFailed, Recovered, Failing, Goto, Fault, Return, files, state,
     process, locals
<1>14. CASE PruneAndReturn
  <2>1. /\ broken \subseteq broken' /\ Protected \cap DOMAIN mtime \subseteq DOMAIN mtime'
        /\ Protected \cap broken' \subseteq broken /\ pc' \in {"install", "idle", "down"}
    BY <1>14, PruneEffect DEF PruneAndReturn
  <2> QED  BY <1>14, <2>1 DEF PruneAndReturn, state, process, locals
<1>15. CASE PrepareRollback
  BY <1>15 DEF PrepareRollback, Goto, Fault, files, state, process, locals
<1>16. CASE RollbackStop
  BY <1>16 DEF RollbackStop, Goto, Fault, StopAndWait, files, state, process, locals
<1>17. CASE RollbackCurrent
  BY <1>17 DEF RollbackCurrent, Goto, Fault, files, state, process, locals
<1>18. CASE RollbackApplied
  BY <1>18 DEF RollbackApplied, Goto, Fault, files, state, process, locals
<1>19. CASE RollbackRestart
  BY <1>19 DEF RollbackRestart, Goto, Fault, RestartAndWait, Lasting, Stays,
     Startable, files, state, process, locals
<1>20. CASE RollbackPersistFailed
  BY <1>20 DEF RollbackPersistFailed, Goto, Fault, files, state, process, locals
<1>21. CASE RollbackClearPending
  BY <1>21 DEF RollbackClearPending, Recovered, Decided, Goto, Fault, Return, files,
     state, process, locals
<1>22. CASE RollbackFailed
  BY <1>22 DEF RollbackFailed, Goto, Fault, Return, files, state, process, locals
<1>23. CASE Recover
  BY <1>23 DEF Recover, Recovered, Goto, Fault, VerifyApplied, files, state, process, locals
<1>24. CASE Crash
  BY <1>24 DEF Crash, Fault, Return, files, state, process, locals
<1>25. CASE Restart
  BY <1>25 DEF Restart, Goto, files, state, process, locals
<1>26. CASE XrayExit
  BY <1>26 DEF XrayExit, files, state, process, locals
<1>27. CASE SupervisorStart
  BY <1>27 DEF SupervisorStart, Startable, files, state, process, locals
<1>28. CASE SupervisorWritePID
  BY <1>28 DEF SupervisorWritePID, files, state, process, locals
<1>29. CASE ConfigSwitch
  BY <1>29 DEF ConfigSwitch, Goto, Return, files, state, process, locals
<1>30. CASE ConfigRestart
  BY <1>30 DEF ConfigRestart, RestartAndWait, Goto, Fault, Lasting, Stays, Startable,
     Recognised, files, state, process, locals
<1>31. CASE ConfigRollback
  BY <1>31 DEF ConfigRollback, StopAndWait, Goto, Fault, Recognised, files, state,
     process, locals
<1>32. CASE Drift
  BY <1>32 DEF Drift, Fault, Return, files, state, process, locals
<1>33. CASE UNCHANGED vars
  BY <1>33 DEF vars, files, state, process, locals
<1> QED
  BY <1>1, <1>2, <1>3, <1>4, <1>5, <1>6, <1>7, <1>8, <1>9, <1>10, <1>11, <1>12, <1>13,
     <1>14, <1>15, <1>16, <1>17, <1>18, <1>19, <1>20, <1>21, <1>22, <1>23, <1>24,
     <1>25, <1>26, <1>27, <1>28, <1>29, <1>30, <1>31, <1>32, <1>33
     DEF Next, ApplyStep, RollbackStep, ConfigStep

\* Every step, the supervisor's too, keeps Xray on an executable the state
\* accounts for.
LEMMA RunStep ==
    ASSUME TypeOK, RecordInv, LinkInv, FileInv, RunInv, [Next]_vars
    PROVE  RunInv'
<1> USE BundleAssumption
<1> USE DEF TypeOK, HasConfig, RecordInv, LinkInv, RunInv, Former, Active, Preparing,
     Carrying,
   NoPending, Link
<1>1. ASSUME NEW b \in Bundles, Apply(b)
      PROVE  RunInv'
  BY <1>1 DEF Apply, Goto, Return, files, state, process, locals
<1>2. CASE Check
  BY <1>2 DEF Check, Goto, Return, files, state, process, locals
<1>3. CASE Prune
  BY <1>3 DEF Prune, Goto, Fault, Return, PruneVersions, Without, Kept, Rank, files,
     state, process, locals
<1>4. CASE InstallBundle
  BY <1>4 DEF InstallBundle, Goto, Fault, Return, Rank, files, state, process, locals
<1>5. CASE LoadApplied
  BY <1>5 DEF LoadApplied, Goto, Return, VerifyApplied, Recognised, files, state, process,
     locals
<1>6. CASE PersistPending
  BY <1>6 DEF PersistPending, Goto, Fault, Return, files, state, process, locals
<1>7. CASE StopCurrent
  BY <1>7 DEF StopCurrent, Goto, Fault, StopAndWait, files, state, process, locals,
     Recognised
<1>8. CASE SwitchCurrent
  BY <1>8 DEF SwitchCurrent, Goto, Fault, files, state, process, locals
<1>9. CASE Activate
  BY <1>9 DEF Activate, Goto, Fault, RestartAndWait, Lasting, Stays, Startable, files,
     state, process, locals, Recognised
<1>10. CASE RecordPrevious
  BY <1>10 DEF RecordPrevious, Goto, Fault, files, state, process, locals
<1>11. CASE PersistApplied
  <2>1. hasConfig = HasConfig /\ pending = [target |-> tgt, prev |-> prev] /\ tgt # None
        /\ current = tgt /\ pc = "persist" /\ applied = prev
    BY <1>11 DEF PersistApplied
  <2>2. /\ UNCHANGED <<current, previous, pending, failed, config, xray, stage, stale>>
        /\ UNCHANGED <<hasConfig, tgt, prev, drifts>>
        /\ applied' \in {applied, tgt} /\ pc' \in {"confirm", "rb"}
    BY <1>11 DEF PersistApplied, Goto, Fault, state, process, locals
  <2>3. config = "applied" => xray \in {None, tgt}
    <3>1. hasConfig /\ pc = "persist" => xray \in {None, tgt}
      BY DEF RunInv
    <3> QED  BY <2>1, <3>1, Zenon
  <2> QED  BY <2>1, <2>2, <2>3
<1>12. CASE RemovePending
  <2>1. hasConfig = HasConfig /\ pending = [target |-> tgt, prev |-> prev] /\ tgt # None
        /\ current = tgt /\ pc = "confirm" /\ applied = tgt
    BY <1>12 DEF RemovePending
  <2>2. /\ UNCHANGED <<current, previous, applied, failed, config, xray, stage>>
        /\ UNCHANGED <<hasConfig, tgt, prev, drifts>>
        /\ pending' \in {pending, NoPending} /\ pc' \in {"clear", "idle", "down"}
        /\ stale' = (stale \/ (pending' = NoPending /\ ~hasConfig /\ xray \notin {None, Active}))
    BY <1>12 DEF RemovePending, Failing, Decided, Goto, Fault, Return, state, locals
  <2>3. CASE pending' = pending
    BY <2>1, <2>2, <2>3
  <2>4. CASE pending' = NoPending
    <3>1. Active' = Active
      BY <2>2
    <3>2. (drifts = 0 /\ ~stale') => xray \in {None, Active}
      BY <2>1, <2>2, <2>4
    <3> QED  BY <2>1, <2>2, <2>4, <3>1, <3>2
  <2> QED  BY <2>2, <2>3, <2>4
<1>13. CASE RemoveFailed
  BY <1>13 DEF RemoveFailed, Recovered, Failing, Goto, Fault, Return, files, state,
     process, locals
<1>14. CASE PruneAndReturn
  BY <1>14 DEF PruneAndReturn, Goto, Fault, Return, PruneVersions, Without, Kept,
     Rank, files, state, process, locals
<1>15. CASE PrepareRollback
  BY <1>15 DEF PrepareRollback, Goto, Fault, files, state, process, locals, FileInv,
     Protected,
     Verified
<1>16. CASE RollbackStop
  BY <1>16 DEF RollbackStop, Goto, Fault, StopAndWait, files, state, process, locals,
     Recognised
<1>17. CASE RollbackCurrent
  BY <1>17 DEF RollbackCurrent, Goto, Fault, files, state, process, locals, FileInv,
     Protected,
     Verified
<1>18. CASE RollbackApplied
  BY <1>18 DEF RollbackApplied, Goto, Fault, files, state, process, locals
<1>19. CASE RollbackRestart
  BY <1>19 DEF RollbackRestart, Goto, Fault, RestartAndWait, Lasting, Stays,
     Startable, files, state, process, locals, Recognised
<1>20. CASE RollbackPersistFailed
  BY <1>20 DEF RollbackPersistFailed, Goto, Fault, files, state, process, locals
<1>21. CASE RollbackClearPending
  <2>1. hasConfig = HasConfig /\ pending = [target |-> tgt, prev |-> prev] /\ tgt # None
        /\ current = prev /\ pc = "rb_clear" /\ applied = prev
    BY <1>21 DEF RollbackClearPending
  <2>2. /\ UNCHANGED <<current, previous, applied, failed, config, xray, stage>>
        /\ UNCHANGED <<hasConfig, tgt, prev, drifts>>
        /\ pending' \in {pending, NoPending} /\ pc' \in {"idle", "cfg_rb", "rb_error"}
        /\ stale' = (stale \/ (pending' = NoPending /\ ~hasConfig /\ xray \notin {None, Active}))
    BY <1>21 DEF RollbackClearPending, Recovered, Decided, Goto, Fault, Return, state,
     locals
  <2>3. CASE pending' = pending
    BY <2>1, <2>2, <2>3
  <2>4. CASE pending' = NoPending
    <3>1. Active' = Active
      BY <2>2
    <3>2. (drifts = 0 /\ ~stale') => xray \in {None, Active}
      BY <2>1, <2>2, <2>4
    <3> QED  BY <2>1, <2>2, <2>4, <3>1, <3>2
  <2> QED  BY <2>2, <2>3, <2>4
<1>22. CASE RollbackFailed
  BY <1>22 DEF RollbackFailed, Goto, Fault, Return, files, state, process, locals
<1>23. CASE Recover
  BY <1>23 DEF Recover, Recovered, Goto, Fault, VerifyApplied, files, state, process, locals
<1>24. CASE Crash
  BY <1>24 DEF Crash, Fault, Return, files, state, process, locals
<1>25. CASE Restart
  BY <1>25 DEF Restart, Goto, files, state, process, locals
<1>26. CASE XrayExit
  BY <1>26 DEF XrayExit, files, state, process, locals
<1>27. CASE SupervisorStart
  BY <1>27 DEF SupervisorStart, Startable, files, state, process, locals
<1>28. CASE SupervisorWritePID
  BY <1>28 DEF SupervisorWritePID, files, state, process, locals
<1>29. CASE ConfigSwitch
  BY <1>29 DEF ConfigSwitch, Goto, Return, files, state, process, locals
<1>30. CASE ConfigRestart
  BY <1>30 DEF ConfigRestart, RestartAndWait, Goto, Fault, Lasting, Stays, Startable,
     Recognised, files, state, process, locals
<1>31. CASE ConfigRollback
  BY <1>31 DEF ConfigRollback, StopAndWait, Goto, Fault, Recognised, files, state,
     process, locals
<1>32. CASE Drift
  BY <1>32 DEF Drift, Fault, Return, files, state, process, locals
<1>33. CASE UNCHANGED vars
  BY <1>33 DEF vars, files, state, process, locals
<1> QED
  BY <1>1, <1>2, <1>3, <1>4, <1>5, <1>6, <1>7, <1>8, <1>9, <1>10, <1>11, <1>12, <1>13,
     <1>14, <1>15, <1>16, <1>17, <1>18, <1>19, <1>20, <1>21, <1>22, <1>23, <1>24,
     <1>25, <1>26, <1>27, <1>28, <1>29, <1>30, <1>31, <1>32, <1>33
     DEF Next, ApplyStep, RollbackStep, ConfigStep

\* Every step keeps the bootstrap executable where the state leads back to it.
LEMMA BootStep ==
    ASSUME TypeOK, RecordInv, LinkInv, RunInv, BootInv, [Next]_vars
    PROVE  BootInv'
<1> USE BundleAssumption
<1> USE DEF TypeOK, HasConfig, RecordInv, LinkInv, BootInv, Active, Preparing, Carrying,
   NoPending, Link
<1>1. ASSUME NEW b \in Bundles, Apply(b)
      PROVE  BootInv'
  BY <1>1 DEF Apply, Goto, Return, files, state, process, locals
<1>2. CASE Check
  BY <1>2 DEF Check, Goto, Return, files, state, process, locals
<1>3. CASE Prune
  BY <1>3 DEF Prune, Goto, Fault, Return, PruneVersions, Without, Kept, Rank, files,
     state, process, locals
<1>4. CASE InstallBundle
  BY <1>4 DEF InstallBundle, Goto, Fault, Return, Rank, files, state, process, locals
<1>5. CASE LoadApplied
  BY <1>5 DEF LoadApplied, Goto, Return, VerifyApplied, Recognised, files, state, process,
     locals
<1>6. CASE PersistPending
  BY <1>6 DEF PersistPending, Goto, Fault, Return, files, state, process, locals
<1>7. CASE StopCurrent
  BY <1>7 DEF StopCurrent, Goto, Fault, StopAndWait, files, state, process, locals,
     Recognised
<1>8. CASE SwitchCurrent
  BY <1>8 DEF SwitchCurrent, Goto, Fault, files, state, process, locals
<1>9. CASE Activate
  BY <1>9 DEF Activate, Goto, Fault, RestartAndWait, Lasting, Stays, Startable, files,
     state, process, locals, Recognised
<1>10. CASE RecordPrevious
  BY <1>10 DEF RecordPrevious, Goto, Fault, files, state, process, locals
<1>11. CASE PersistApplied
  <2>1. hasConfig = HasConfig /\ pending = [target |-> tgt, prev |-> prev] /\ tgt # None
        /\ current = tgt /\ pc = "persist" /\ applied = prev
    BY <1>11 DEF PersistApplied
  <2>2. /\ UNCHANGED <<current, previous, pending, failed, config, xray, stage, stale>>
        /\ UNCHANGED <<hasConfig, tgt, prev, drifts>>
        /\ applied' \in {applied, tgt} /\ pc' \in {"confirm", "rb"}
    BY <1>11 DEF PersistApplied, Goto, Fault, state, process, locals
  <2>3. config = "applied" => xray \in {None, tgt}
    <3>1. hasConfig /\ pc = "persist" => xray \in {None, tgt}
      BY DEF RunInv
    <3> QED  BY <2>1, <3>1, Zenon
  <2> QED  BY <2>1, <2>2, <2>3
<1>12. CASE RemovePending
  BY <1>12 DEF RemovePending, Decided, Failing, Goto, Fault, Return, files, state,
     process, locals,
     RunInv
<1>13. CASE RemoveFailed
  BY <1>13 DEF RemoveFailed, Recovered, Failing, Goto, Fault, Return, files, state,
     process, locals
<1>14. CASE PruneAndReturn
  BY <1>14 DEF PruneAndReturn, Goto, Fault, Return, PruneVersions, Without, Kept,
     Rank, files, state, process, locals
<1>15. CASE PrepareRollback
  BY <1>15 DEF PrepareRollback, Goto, Fault, files, state, process, locals
<1>16. CASE RollbackStop
  BY <1>16 DEF RollbackStop, Goto, Fault, StopAndWait, files, state, process, locals,
     Recognised
<1>17. CASE RollbackCurrent
  BY <1>17 DEF RollbackCurrent, Goto, Fault, files, state, process, locals
<1>18. CASE RollbackApplied
  BY <1>18 DEF RollbackApplied, Goto, Fault, files, state, process, locals
<1>19. CASE RollbackRestart
  BY <1>19 DEF RollbackRestart, Goto, Fault, RestartAndWait, Lasting, Stays,
     Startable, files, state, process, locals, Recognised
<1>20. CASE RollbackPersistFailed
  BY <1>20 DEF RollbackPersistFailed, Goto, Fault, files, state, process, locals
<1>21. CASE RollbackClearPending
  BY <1>21 DEF RollbackClearPending, Recovered, Decided, Goto, Fault, Return, files,
     state, process, locals
<1>22. CASE RollbackFailed
  BY <1>22 DEF RollbackFailed, Goto, Fault, Return, files, state, process, locals
<1>23. CASE Recover
  BY <1>23 DEF Recover, Recovered, Goto, Fault, VerifyApplied, files, state, process, locals
<1>24. CASE Crash
  BY <1>24 DEF Crash, Fault, Return, files, state, process, locals
<1>25. CASE Restart
  BY <1>25 DEF Restart, Goto, files, state, process, locals
<1>26. CASE XrayExit
  BY <1>26 DEF XrayExit, files, state, process, locals
<1>27. CASE SupervisorStart
  BY <1>27 DEF SupervisorStart, Startable, files, state, process, locals
<1>28. CASE SupervisorWritePID
  BY <1>28 DEF SupervisorWritePID, files, state, process, locals
<1>29. CASE ConfigSwitch
  BY <1>29 DEF ConfigSwitch, Goto, Return, files, state, process, locals
<1>30. CASE ConfigRestart
  BY <1>30 DEF ConfigRestart, RestartAndWait, Goto, Fault, Lasting, Stays, Startable,
     Recognised, files, state, process, locals
<1>31. CASE ConfigRollback
  BY <1>31 DEF ConfigRollback, StopAndWait, Goto, Fault, Recognised, files, state,
     process, locals
<1>32. CASE Drift
  BY <1>32 DEF Drift, Fault, Return, files, state, process, locals
<1>33. CASE UNCHANGED vars
  BY <1>33 DEF vars, files, state, process, locals
<1> QED
  BY <1>1, <1>2, <1>3, <1>4, <1>5, <1>6, <1>7, <1>8, <1>9, <1>10, <1>11, <1>12, <1>13,
     <1>14, <1>15, <1>16, <1>17, <1>18, <1>19, <1>20, <1>21, <1>22, <1>23, <1>24,
     <1>25, <1>26, <1>27, <1>28, <1>29, <1>30, <1>31, <1>32, <1>33
     DEF Next, ApplyStep, RollbackStep, ConfigStep

\* Every step keeps answers true.
LEMMA AnswerStep ==
    ASSUME TypeOK, FiniteInv, RecordInv, LinkInv, AnswerInv, [Next]_vars
    PROVE  AnswerInv'
<1> USE BundleAssumption
<1> USE DEF TypeOK, HasConfig, RecordInv, LinkInv, AnswerInv, AnswerIsTrue, Preparing,
     Carrying,
   NoPending, Link
<1>1. ASSUME NEW b \in Bundles, Apply(b)
      PROVE  AnswerInv'
  BY <1>1 DEF Apply, Goto, Return, files, state, process, locals
<1>2. CASE Check
  BY <1>2 DEF Check, Goto, Return, files, state, process, locals
<1>3. CASE Prune
  <2>1. \/ pc' = "install" /\ result' = "none"
        \/ pc' \in {"idle", "down"} /\ result' \in {"none", "not_required"}
    BY <1>3, PruneEffect DEF Prune
  <2> QED  BY <1>3, <2>1 DEF Prune, state, process, locals
<1>4. CASE InstallBundle
  BY <1>4 DEF InstallBundle, Goto, Fault, Return, Rank, files, state, process, locals
<1>5. CASE LoadApplied
  BY <1>5 DEF LoadApplied, Goto, Return, VerifyApplied, Recognised, files, state, process,
     locals
<1>6. CASE PersistPending
  BY <1>6 DEF PersistPending, Goto, Fault, Return, files, state, process, locals
<1>7. CASE StopCurrent
  BY <1>7 DEF StopCurrent, Goto, Fault, StopAndWait, files, state, process, locals
<1>8. CASE SwitchCurrent
  BY <1>8 DEF SwitchCurrent, Goto, Fault, files, state, process, locals
<1>9. CASE Activate
  BY <1>9 DEF Activate, Goto, Fault, RestartAndWait, Lasting, Stays, Startable, files,
     state, process, locals
<1>10. CASE RecordPrevious
  BY <1>10 DEF RecordPrevious, Goto, Fault, files, state, process, locals
<1>11. CASE PersistApplied
  BY <1>11 DEF PersistApplied, Goto, Fault, files, state, process, locals
<1>12. CASE RemovePending
  BY <1>12 DEF RemovePending, Decided, Failing, Goto, Fault, Return, files, state,
     process, locals
<1>13. CASE RemoveFailed
  BY <1>13 DEF RemoveFailed, Recovered, Failing, Goto, Fault, Return, files, state,
     process, locals
<1>14. CASE PruneAndReturn
  <2>1. \/ pc' = "idle" /\ result' = "installed"
        \/ pc' \in {"idle", "down"} /\ result' \in {"none", "not_required"}
    BY <1>14, PruneEffect DEF PruneAndReturn
  <2> QED  BY <1>14, <2>1 DEF PruneAndReturn, state, process, locals
<1>15. CASE PrepareRollback
  BY <1>15 DEF PrepareRollback, Goto, Fault, files, state, process, locals
<1>16. CASE RollbackStop
  BY <1>16 DEF RollbackStop, Goto, Fault, StopAndWait, files, state, process, locals
<1>17. CASE RollbackCurrent
  BY <1>17 DEF RollbackCurrent, Goto, Fault, files, state, process, locals
<1>18. CASE RollbackApplied
  BY <1>18 DEF RollbackApplied, Goto, Fault, files, state, process, locals
<1>19. CASE RollbackRestart
  BY <1>19 DEF RollbackRestart, Goto, Fault, RestartAndWait, Lasting, Stays,
     Startable, files, state, process, locals
<1>20. CASE RollbackPersistFailed
  BY <1>20 DEF RollbackPersistFailed, Goto, Fault, files, state, process, locals
<1>21. CASE RollbackClearPending
  BY <1>21 DEF RollbackClearPending, Recovered, Decided, Goto, Fault, Return, files,
     state, process, locals
<1>22. CASE RollbackFailed
  BY <1>22 DEF RollbackFailed, Goto, Fault, Return, files, state, process, locals
<1>23. CASE Recover
  BY <1>23 DEF Recover, Recovered, Goto, Fault, VerifyApplied, files, state, process, locals
<1>24. CASE Crash
  BY <1>24 DEF Crash, Fault, Return, files, state, process, locals
<1>25. CASE Restart
  BY <1>25 DEF Restart, Goto, files, state, process, locals
<1>26. CASE XrayExit
  BY <1>26 DEF XrayExit, files, state, process, locals
<1>27. CASE SupervisorStart
  BY <1>27 DEF SupervisorStart, Startable, files, state, process, locals
<1>28. CASE SupervisorWritePID
  BY <1>28 DEF SupervisorWritePID, files, state, process, locals
<1>29. CASE ConfigSwitch
  BY <1>29 DEF ConfigSwitch, Goto, Return, files, state, process, locals
<1>30. CASE ConfigRestart
  BY <1>30 DEF ConfigRestart, RestartAndWait, Goto, Fault, Lasting, Stays, Startable,
     Recognised, files, state, process, locals
<1>31. CASE ConfigRollback
  BY <1>31 DEF ConfigRollback, StopAndWait, Goto, Fault, Recognised, files, state,
     process, locals
<1>32. CASE Drift
  BY <1>32 DEF Drift, Fault, Return, files, state, process, locals
<1>33. CASE UNCHANGED vars
  BY <1>33 DEF vars, files, state, process, locals
<1> QED
  BY <1>1, <1>2, <1>3, <1>4, <1>5, <1>6, <1>7, <1>8, <1>9, <1>10, <1>11, <1>12, <1>13,
     <1>14, <1>15, <1>16, <1>17, <1>18, <1>19, <1>20, <1>21, <1>22, <1>23, <1>24,
     <1>25, <1>26, <1>27, <1>28, <1>29, <1>30, <1>31, <1>32, <1>33
     DEF Next, ApplyStep, RollbackStep, ConfigStep

-----------------------------------------------------------------------------
(* Theorems *)

\* Every reachable state, whatever crashed, failed or was damaged, satisfies
\* the inductive invariant of installPrepared, rollback and Recover.
THEOREM Invariance == Spec => []Inv
<1>1. Init => Inv
  <2> SUFFICES ASSUME Init PROVE Inv
    OBVIOUS
  <2> USE BundleAssumption DEF Init, NoPending
  <2>1. DOMAIN mtime = {} /\ mtime \in [DOMAIN mtime -> Nat]
    OBVIOUS
  <2>2. xray \in Link \cup {Bootstrap} /\ config \in Configuration
    BY DEF Link, Configuration
  <2>7. hasConfig \in BOOLEAN /\ stale \in BOOLEAN
    OBVIOUS
  <2>3. TypeOK
    BY <2>1, <2>2, <2>7 DEF TypeOK, Link, Labels, Results
  <2>4. FiniteInv
    BY <2>1, FS_EmptySet DEF FiniteInv
  <2>5. RecordInv /\ LinkInv /\ FileInv
    BY DEF RecordInv, LinkInv, FileInv, Preparing, Carrying, Protected
  <2>6. RunInv /\ BootInv /\ AnswerInv
    BY DEF RunInv, BootInv, AnswerInv, AnswerIsTrue, Carrying, Active
  <2> QED  BY <2>3, <2>4, <2>5, <2>6 DEF Inv
<1>2. Inv /\ [Next]_vars => Inv'
  BY TypeStep, RecordStep, LinkStep, FileStep, RunStep, BootStep, AnswerStep DEF Inv
<1> QED  BY <1>1, <1>2, PTL DEF Spec

\* The directories, links, records and locals of the bundle manager stay well
\* formed.
THEOREM TypeCorrect == Spec => []TypeOK
<1>1. Inv => TypeOK
  BY DEF Inv
<1> QED  BY <1>1, Invariance, PTL

\* Crash consistency: stopped after any write of installPrepared, rollback or
\* Recover, the node either has a pending record or its link names what
\* applied.json records.
THEOREM CrashConsistency == Spec => []NoRecordMeansConsistent
<1>1. Inv => NoRecordMeansConsistent
  BY DEF Inv, LinkInv, NoRecordMeansConsistent
<1> QED  BY <1>1, Invariance, PTL

\* pruneVersions and a crash within it never touch a bundle that a link,
\* applied.json or the pending record names.
THEOREM PruneIsSafe == Spec => []ReferencesAreWhole
<1>1. Inv => ReferencesAreWhole
  BY DEF Inv, FileInv, ReferencesAreWhole
<1> QED  BY <1>1, Invariance, PTL

\* Unless a bundle was damaged, Xray runs or is being started with the active
\* executable, or while an update is undecided its candidate or what the
\* rollback restores, although the supervisor acts between any two steps; only
\* a process that an update decided without an applied configuration left
\* alone keeps its executable until it ends.
THEOREM XrayIsAccountedFor == Spec => []RunningIsAccountedFor
<1>1. Inv => RunningIsAccountedFor
  BY DEF Inv, RunInv, Former, RunningIsAccountedFor
<1> QED  BY <1>1, Invariance, PTL

\* The answers of installPrepared and rollbackResult are true of the links and
\* state files.
THEOREM AnswersAreTrue == Spec => []AnswerIsTrue
<1>1. Inv => AnswerIsTrue
  BY DEF Inv, AnswerInv
<1> QED  BY <1>1, Invariance, PTL

\* No way back to the bootstrap executable: neither a later update nor its
\* rollback can make ActivePath fall back to it.
Managed ==
    /\ IF pending = NoPending THEN applied # None ELSE pending.prev # None
    /\ xray = Bootstrap => stale

\* Once a bundle is confirmed the bootstrap executable is never started again,
\* through crashes, errors, rollbacks and damaged bundles; a process that the
\* update left alone, without an applied configuration, is what may still run.
THEOREM BootstrapIsLeftForGood == Spec => ConfirmedForGood
<1>1. Inv /\ pending = NoPending /\ applied # None => Managed
  BY DEF Inv, BootInv, Managed
<1>2. Inv /\ Inv' /\ Managed /\ [Next]_vars => Managed'
  <2> SUFFICES ASSUME Inv, Inv', Managed, [Next]_vars PROVE Managed'
    OBVIOUS
  <2>1. IF pending' = NoPending THEN applied' # None ELSE pending'.prev # None
    <3>1. CASE UNCHANGED <<pending, applied>>
      BY <3>1 DEF Managed
    <3>2. CASE PersistPending
      BY <3>2 DEF PersistPending, Managed, Inv, RecordInv, LinkInv, NoPending,
     Preparing, TypeOK
    <3>3. CASE PersistApplied
      BY <3>3 DEF PersistApplied, Managed, Inv, RecordInv, Carrying, NoPending
    <3>4. CASE RemovePending
      BY <3>4 DEF RemovePending, Decided, Managed, Inv, RecordInv, LinkInv, Carrying,
     NoPending
    <3>5. CASE RollbackApplied
      BY <3>5 DEF RollbackApplied, Managed, Inv, RecordInv, Carrying, NoPending
    <3>6. CASE RollbackClearPending
      BY <3>6 DEF RollbackClearPending, Recovered, Decided, Managed, Inv, RecordInv,
     LinkInv, Carrying, NoPending
    <3> QED
      BY <3>1, <3>2, <3>3, <3>4, <3>5, <3>6
         DEF Next, ApplyStep, RollbackStep, Apply, Check, Prune, InstallBundle, LoadApplied,
             StopCurrent, SwitchCurrent, Activate, RecordPrevious, RemoveFailed,
             PruneAndReturn, PrepareRollback, RollbackStop, RollbackCurrent,
             RollbackRestart, RollbackPersistFailed, RollbackFailed, Recover, Crash,
             Restart, XrayExit, SupervisorStart, SupervisorWritePID, ConfigSwitch,
             ConfigStep, ConfigRestart, ConfigRollback, Drift, vars, state
  <2>2. xray' = Bootstrap => stale'
    BY <2>1 DEF Inv, BootInv
  <2> QED  BY <2>1, <2>2 DEF Managed
<1>3. Managed => (xray = Bootstrap => stale)
  BY DEF Managed
<1> QED  BY <1>1, <1>2, <1>3, Invariance, PTL DEF Spec, ConfirmedForGood
=============================================================================
