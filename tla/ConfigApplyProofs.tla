------------------------- MODULE ConfigApplyProofs -------------------------
(***************************************************************************)
(* Proofs about ConfigApply, for every set of versions and contents, every *)
(* retention and every number of faults and drifts.                        *)
(*                                                                         *)
(* The properties are not inductive: each depends on where the agent is    *)
(* between two durable, process writes.  Inv adds, per program location, what the   *)
(* files say there.                                                        *)
(***************************************************************************)
EXTENDS ConfigApply, TLAPS

-----------------------------------------------------------------------------
(* The inductive invariant *)

\* Apply has read the state and not yet written its pending record.
Preparing == {"prune", "install", "pend"}

\* The pending record on disk is the one of the running operation.
Carrying ==
    {"switch", "cleanup", "restart", "previous", "persist", "rb", "rb_applied",
     "rb_restart", "rb_rmapplied", "rb_stop", "rb_failed", "rb_clear"}

\* The pending record against the locals of the operation.
RecordInv ==
    /\ pending.target = None => pending = NoPending
    /\ pc \in Preparing => pending = NoPending
    /\ pc = "pend" => tgt # None
    /\ pc \in Carrying => pending = [target |-> tgt, prev |-> prev] /\ tgt # None
    /\ pc = "confirm" => pending.target = tgt /\ tgt # None
    /\ pc \in {"rb_applied", "rb_restart"} => prev # None
    /\ pc \in {"rb_rmapplied", "rb_stop"} => prev = None

\* The links against applied.json and the locals.
LinkInv ==
    ~relinked =>
    /\ pending = NoPending => current = applied
    /\ pc \in Preparing => prev \in {None, applied, previous}
    /\ pc \in {"switch", "cleanup"} => current = applied
    /\ pc = "confirm" => current = tgt /\ applied = tgt
    /\ pc \in {"restart", "previous", "persist"} => current = tgt
    /\ pc \in {"rb_applied", "rb_rmapplied"} => current = prev
    /\ pc \in {"rb_restart", "rb_stop", "rb_failed", "rb_clear"}
          => current = prev /\ applied = prev

\* Every file named by the durable, process state or by the candidate is there.
Present(t) == t \in DOMAIN mtime \/ t \in corrupt

FileInv ==
    ~relinked =>
    /\ \A t \in Protected : Present(t)
    /\ pc = "pend" => Present(tgt)

\* What Xray may run, as long as nothing interferes from outside: of every
\* process the controller has seen.
RunInv ==
    drifts = 0 =>
    /\ corrupt = {} /\ ~relinked
    /\ pending # NoPending =>
          pending.target # pending.prev /\ current \in {pending.target, pending.prev}
    /\ pc \in Preparing =>
          /\ prev = applied
          /\ applied = None \/ applied.ver # req.ver
    /\ pc = "pend" => tgt.ver = req.ver
    /\ pc \in {"switch", "cleanup", "restart", "previous", "persist"} => applied = prev
    /\ ~stale =>
       /\ pending = NoPending => xray \in {None, applied}
       /\ pending # NoPending =>
             /\ xray \in {None, pending.target, pending.prev}
             /\ (current = applied /\ applied = pending.target)
                   => xray \in {None, applied}
       /\ pc \in {"switch", "cleanup"} => xray \in {None, prev}
       /\ pc \in {"previous", "persist"} => xray \in {None, tgt}
       /\ pc \in {"rb_failed", "rb_clear"} => xray \in {None, prev}

\* Where Apply works on its request, and where it only has to finish.
Asking    == {"load", "prune", "install", "pend", "switch", "cleanup", "restart",
              "previous", "persist"}
Holding   == {"pend", "switch", "restart", "previous", "persist"}
Finishing == {"confirm", "clear", "prune_end"}

\* The validator's record approves the request.
Approved == validation = [ver |-> req.ver, dig |-> req.dig, ok |-> TRUE]

\* The candidate is what was asked for.
AskedFor(t) == t # None /\ t.ver = req.ver /\ t.dig = req.dig

\* A command under way has no answer yet and works on an approved request.
CommandInv ==
    /\ pc # "idle" => result \notin {"applied", "rolled_back"}
    /\ pc \in Asking => mode = "apply"
    /\ pc = "prune_end" => mode # "recover" /\ failed = "none"
    /\ pc \in {"clear", "prune_end"} => pending = NoPending
    /\ pc \in Holding => AskedFor(tgt)
    /\ (pc \in Asking \cup Finishing /\ mode # "recover") => Approved
    /\ (pc \in Finishing /\ mode # "recover") => AskedFor(tgt)

\* What the answer will say is already true, unless somebody interferes
\* while the command runs.
TruthInv ==
    ~disturbed =>
    /\ pc \in Holding => Verified(tgt)
    /\ pc \in {"restart", "previous", "persist"} => current = tgt
    /\ (pc \in Finishing /\ mode # "recover") =>
          current = tgt /\ applied = tgt /\ Verified(tgt)
    /\ pc \in {"rb_applied", "rb_rmapplied"} => current = prev
    /\ pc \in {"rb_restart", "rb_stop", "rb_failed", "rb_clear"}
          => current = prev /\ applied = prev
    /\ pc \in {"rb_failed", "rb_clear"} => stale \/ xray \in {None, prev}

Inv ==
    /\ TypeOK /\ RecordInv /\ LinkInv /\ FileInv /\ RunInv
    /\ CommandInv /\ TruthInv /\ AnswerIsTrue

-----------------------------------------------------------------------------
(* One lemma per part, one step per action *)


\* pruneVersions and drifts leave a well-typed set of files.
LEMMA KeepFilesType ==
    ASSUME TypeOK, NEW S \in SUBSET DOMAIN mtime, KeepFiles(S)
    PROVE  /\ DOMAIN mtime' = S
           /\ DOMAIN mtime' \subseteq Targets
           /\ mtime' \in [DOMAIN mtime' -> Nat]
  BY DEF TypeOK, KeepFiles

\* Whatever its outcome, pruneVersions keeps some of the files, and every
\* protected one.
LEMMA PruneKeeps ==
    ASSUME TypeOK, NEW next, NEW err, NEW ok, NEW r, PruneVersions(next, err, ok, r)
    PROVE  /\ \E S \in SUBSET DOMAIN mtime : KeepFiles(S) /\ Protected \cap DOMAIN mtime \subseteq S
           /\ \/ pc' = next /\ result' = ok /\ faults' = faults
              \/ pc' = err /\ result' = r /\ faults' = faults + 1
<1>1. Kept \subseteq DOMAIN mtime /\ Protected \cap DOMAIN mtime \subseteq Kept
  BY DEF Kept
<1>2. CASE KeepFiles(Kept) /\ Goto(next) /\ Return(ok)
  BY <1>1, <1>2 DEF Goto, Return
<1>3. CASE /\ \E S \in SUBSET (DOMAIN mtime \ Kept) : KeepFiles(DOMAIN mtime \ S)
           /\ Fault(err) /\ Return(r)
  <2>1. PICK S \in SUBSET (DOMAIN mtime \ Kept) : KeepFiles(DOMAIN mtime \ S)
    BY <1>3
  <2>2. DOMAIN mtime \ S \in SUBSET DOMAIN mtime /\ Protected \cap DOMAIN mtime \subseteq DOMAIN mtime \ S
    BY <1>1
  <2> QED  BY <1>3, <2>1, <2>2 DEF Fault, Return
<1> QED  BY <1>2, <1>3 DEF PruneVersions

\* installVersion hands on a version file of the request.
LEMMA InstallTarget ==
    ASSUME TypeOK, InstallVersion
    PROVE  /\ pc' \in {"pend", "idle"}
           /\ pc' = "pend" => tgt' \in Targets /\ tgt'.ver = req.ver
<1> DEFINE plain == [ver |-> req.ver, dig |-> req.dig, rep |-> 0]
           name  == IF repair THEN [plain EXCEPT !.rep = clock + 1] ELSE plain
<1>1. /\ plain \in Targets /\ name \in Targets
      /\ plain.ver = req.ver /\ name.ver = req.ver
  BY DEF TypeOK, InstallVersion, Targets
<1>2. /\ pc' \in {"pend", "idle"}
      /\ pc' = "pend" => tgt' \in {plain, name}
  BY DEF InstallVersion, Goto, Fault
<1> QED  BY <1>1, <1>2

\* Every step keeps the type invariant.
LEMMA TypeStep ==
    ASSUME TypeOK, [Next]_vars
    PROVE  TypeOK'
<1> USE ConstantsAssumption, NoneAssumption
<1>1. ASSUME NEW v \in Versions, NEW d \in Digests, NEW ok \in BOOLEAN, ValidateCommand(v, d, ok)
      PROVE  TypeOK'
  BY <1>1 DEF TypeOK, Link, NoPending, NoResult, Labels, Results, ValidateCommand,
     Stale, Validated, Goto, Fault, durable, process, locals, outside
<1>2. ASSUME NEW v \in Versions, NEW d \in Digests, NEW ok \in BOOLEAN, Apply(v, d, ok)
      PROVE  TypeOK'
  <2>1. Validated(v, d, ok) \in [ver : Nat, dig : Digests \cup {None}, ok : BOOLEAN]
    BY DEF TypeOK, Validated
  <2>2. validation' \in {validation, Validated(v, d, ok)}
    BY <1>2 DEF Apply
  <2>3. /\ pc' \in {"idle", "load"} /\ result' \in {"none", "invalid", "not_required"}
        /\ faults' \in {faults, faults + 1}
    BY <1>2 DEF Apply, Goto, Fault, Return
  <2>4. req' \in [ver : Versions, dig : Digests] /\ req' \in [ver : Nat, dig : Digests \cup {None}]
    BY <1>2 DEF Apply
  <2>5. validation' \in [ver : Nat, dig : Digests \cup {None}, ok : BOOLEAN]
    BY <2>1, <2>2 DEF TypeOK
  <2>6. disturbed' \in BOOLEAN /\ relinked' \in BOOLEAN /\ mode' = "apply"
    BY <1>2, Zenon DEF Apply, TypeOK
  <2> HIDE DEF Validated
  <2> QED
    BY <1>2, <2>3, <2>4, <2>5, <2>6 DEF TypeOK, Link, Labels, Results, Apply, process
<1>3. CASE LoadApplied
  <2>1. /\ tgt' \in {applied, None} /\ mode' \in {mode, "again"}
        /\ pc' \in {"confirm", "clear", "idle", "prune"}
        /\ result' \in {result, "not_required", "unknown"}
        /\ faults' \in {faults, faults + 1}
    BY <1>3 DEF LoadApplied, Goto, Fault, Return
  <2>2. prev' \in {prev, applied, previous}
    BY <1>3 DEF LoadApplied, RollbackTarget
  <2>3. repair' \in BOOLEAN
    BY <1>3, Zenon DEF LoadApplied, TypeOK
  <2>4. req' = req /\ pc = "load"
    BY <1>3 DEF LoadApplied
  <2> QED
    BY <1>3, <2>1, <2>2, <2>3, <2>4 DEF TypeOK, Link, Labels, Results, LoadApplied,
       durable, process, outside
<1>4. CASE Prune
  <2>1. PICK S \in SUBSET DOMAIN mtime : KeepFiles(S)
    BY <1>4, PruneKeeps DEF Prune
  <2>2. /\ DOMAIN mtime' \subseteq Targets /\ mtime' \in [DOMAIN mtime' -> Nat]
    BY <2>1, KeepFilesType
  <2> QED
    BY <1>4, <2>2, PruneKeeps DEF TypeOK, Link, NoPending, NoResult, Labels, Results,
       Prune, process, locals, outside
<1>5. CASE InstallVersion
  <2> DEFINE plain == [ver |-> req.ver, dig |-> req.dig, rep |-> 0]
             name  == IF repair THEN [plain EXCEPT !.rep = clock + 1] ELSE plain
  <2>1. plain \in Targets /\ name \in Targets
    BY <1>5 DEF TypeOK, InstallVersion, Targets
  <2>2. \/ WriteFile(name) \/ UNCHANGED <<mtime, corrupt, clock>>
    BY <1>5 DEF InstallVersion
  <2>3. /\ DOMAIN mtime' \subseteq Targets /\ mtime' \in [DOMAIN mtime' -> Nat]
        /\ corrupt' \subseteq Targets /\ clock' \in Nat
    <3>1. CASE WriteFile(name)
      <4> HIDE DEF name, plain
      <4> QED  BY <2>1, <3>1 DEF TypeOK, WriteFile
    <3>2. CASE UNCHANGED <<mtime, corrupt, clock>>
      BY <3>2 DEF TypeOK
    <3> QED  BY <2>2, <3>1, <3>2
  <2>4. /\ tgt' \in {tgt, plain, name} /\ pc' \in {"pend", "idle"}
        /\ result' \in {result, "not_required"}
        /\ faults' \in {faults, faults + 1}
    BY <1>5 DEF InstallVersion, Goto, Fault, Return
  <2> HIDE DEF name, plain
  <2> QED
    BY <1>5, <2>1, <2>3, <2>4 DEF TypeOK, Link, Labels, Results, InstallVersion,
       process, outside
<1>6. CASE PersistPending
  BY <1>6 DEF TypeOK, Link, NoPending, NoResult, Labels, Results, PersistPending, Goto,
     Fault, Return, durable, process, locals, outside
<1>7. CASE SwitchCurrent
  BY <1>7 DEF TypeOK, Link, NoPending, NoResult, Labels, Results, SwitchCurrent, Goto,
     Fault, durable, process, locals, outside
<1>8. CASE ClearPending
  BY <1>8 DEF TypeOK, Link, NoPending, NoResult, Labels, Results, ClearPending, Goto,
     Fault, Return, durable, process, locals, outside
<1>9. CASE Activate
  <2>1. /\ xray' \in {xray, current, None} /\ stage' \in {stage, "seen", "none"}
        /\ pc' \in {"previous", "rb", "rb_failed", "rb_error"}
        /\ faults' \in {faults, faults + 1}
    BY <1>9 DEF Activate, RestartAndWait, Goto, Fault, process
  <2>2. stale' \in BOOLEAN
    BY <1>9, Zenon DEF Activate, RestartAndWait, TypeOK, process
  <2> QED
    BY <1>9, <2>1, <2>2 DEF TypeOK, Link, Labels, Activate, durable, locals, outside
<1>10. CASE RecordPrevious
  BY <1>10 DEF TypeOK, Link, NoPending, NoResult, Labels, Results, RecordPrevious, Goto,
     Fault, durable, process, locals, outside
<1>11. CASE PersistApplied
  BY <1>11 DEF TypeOK, Link, NoPending, NoResult, Labels, Results, PersistApplied, Goto,
     Fault, durable, process, locals, outside
<1>12. CASE RemovePending
  BY <1>12 DEF TypeOK, Link, NoPending, NoResult, Labels, Results, RemovePending,
     Failing, Goto, Fault, Return, durable, process, locals, outside
<1>13. CASE RemoveFailed
  BY <1>13 DEF TypeOK, Link, NoPending, NoResult, Labels, Results, RemoveFailed,
     Failing, Goto, Fault, Return, durable, process, locals, outside
<1>14. CASE PruneAndReturn
  <2>1. PICK S \in SUBSET DOMAIN mtime : KeepFiles(S)
    BY <1>14, PruneKeeps DEF PruneAndReturn
  <2>2. /\ DOMAIN mtime' \subseteq Targets /\ mtime' \in [DOMAIN mtime' -> Nat]
    BY <2>1, KeepFilesType
  <2> QED
    BY <1>14, <2>2, PruneKeeps DEF TypeOK, Link, NoPending, NoResult, Labels, Results,
       PruneAndReturn, process, locals, outside
<1>15. CASE RollbackCurrent
  BY <1>15 DEF TypeOK, Link, NoPending, NoResult, Labels, Results, RollbackCurrent,
     Verified, Goto, Fault, durable, process, locals, outside
<1>16. CASE RollbackApplied
  BY <1>16 DEF TypeOK, Link, NoPending, NoResult, Labels, Results, RollbackApplied,
     Goto, Fault, durable, process, locals, outside
<1>17. CASE RollbackRestart
  <2>1. /\ xray' \in {xray, current, None} /\ stage' \in {stage, "seen", "none"}
        /\ pc' \in {"previous", "rb", "rb_failed", "rb_error"}
        /\ faults' \in {faults, faults + 1}
    BY <1>17 DEF RollbackRestart, RestartAndWait, Goto, Fault, process
  <2>2. stale' \in BOOLEAN
    BY <1>17, Zenon DEF RollbackRestart, RestartAndWait, TypeOK, process
  <2> QED
    BY <1>17, <2>1, <2>2 DEF TypeOK, Link, Labels, RollbackRestart, durable, locals, outside
<1>18. CASE RollbackRemoveApplied
  BY <1>18 DEF TypeOK, Link, NoPending, NoResult, Labels, Results,
     RollbackRemoveApplied, Goto, Fault, durable, process, locals, outside
<1>19. CASE RollbackStop
  <2>1. /\ xray' \in {xray, current, None} /\ stage' \in {stage, "seen", "none"}
        /\ pc' \in {"previous", "rb", "rb_failed", "rb_error"}
        /\ faults' \in {faults, faults + 1}
    BY <1>19 DEF RollbackStop, StopAndWait, Goto, Fault, process
  <2>2. stale' \in BOOLEAN
    BY <1>19, Zenon DEF RollbackStop, StopAndWait, TypeOK, process
  <2> QED
    BY <1>19, <2>1, <2>2 DEF TypeOK, Link, Labels, RollbackStop, durable, locals, outside
<1>20. CASE RollbackPersistFailed
  BY <1>20 DEF TypeOK, Link, NoPending, NoResult, Labels, Results,
     RollbackPersistFailed, Goto, Fault, durable, process, locals, outside
<1>21. CASE RollbackClearPending
  BY <1>21 DEF TypeOK, Link, NoPending, NoResult, Labels, Results, RollbackClearPending,
     Goto, Fault, Return, durable, process, locals, outside
<1>22. CASE RollbackFailed
  BY <1>22 DEF TypeOK, Link, NoPending, NoResult, Labels, Results, RollbackFailed, Goto,
     Fault, Return, durable, process, locals, outside
<1>23. CASE Recover
  BY <1>23 DEF TypeOK, Link, NoPending, NoResult, Labels, Results, Recover,
     VerifyApplied, Verified, Goto, durable, process, locals, outside
<1>24. CASE Crash
  BY <1>24 DEF TypeOK, Link, NoPending, NoResult, Labels, Results, Crash, Fault, Return,
     durable, process, locals, outside
<1>25. CASE Restart
  BY <1>25 DEF TypeOK, Link, NoPending, NoResult, Labels, Results, Restart, Goto,
     durable, process, locals, outside
<1>26. CASE SupervisorRead
  BY <1>26 DEF TypeOK, Link, NoPending, NoResult, Labels, Results, SupervisorRead,
     durable, process, locals, outside
<1>27. CASE SupervisorStart
  BY <1>27 DEF TypeOK, SupervisorStart, durable, locals, outside
<1>28. CASE XrayExit
  <2>1. xray' \in Link /\ stage' = "none" /\ stale' = FALSE
    BY <1>28 DEF XrayExit, Link
  <2> QED
    BY <1>28, <2>1 DEF TypeOK, XrayExit, durable, locals, outside
<1>29. CASE Drift
  <2>1. /\ DOMAIN mtime' \subseteq Targets /\ mtime' \in [DOMAIN mtime' -> Nat]
    <3>1. CASE \E S \in SUBSET DOMAIN mtime : KeepFiles(S)
      BY <3>1, KeepFilesType
    <3>2. CASE UNCHANGED mtime
      BY <3>2 DEF TypeOK
    <3> QED  BY <1>29, <3>1, <3>2 DEF Drift
  <2>2. corrupt' \subseteq Targets
    BY <1>29 DEF TypeOK, Drift
  <2>3. current' \in Link /\ applied' \in Link
    BY <1>29 DEF TypeOK, Link, Drift
  <2>4. relinked' \in BOOLEAN /\ disturbed' \in BOOLEAN
    BY <1>29, Zenon DEF TypeOK, Drift
  <2>5. drifts' \in Nat /\ result' \in Results
    BY <1>29 DEF TypeOK, Drift, Return, Results
  <2> QED
    BY <1>29, <2>1, <2>2, <2>3, <2>4, <2>5 DEF TypeOK, Drift, process, locals
<1>30. CASE UNCHANGED vars
  BY <1>30 DEF TypeOK, Link, NoPending, NoResult, Labels, Results, vars, durable, process,
     locals, outside
<1> QED
  BY <1>1, <1>2, <1>3, <1>4, <1>5, <1>6, <1>7, <1>8, <1>9, <1>10, <1>11, <1>12, <1>13,
     <1>14, <1>15, <1>16, <1>17, <1>18, <1>19, <1>20, <1>21, <1>22, <1>23, <1>24, <1>25,
     <1>26, <1>27, <1>28, <1>29, <1>30
     DEF Next, Command, ApplyStep, RollbackStep

\* Every step keeps the pending record and the locals together.
LEMMA RecordStep ==
    ASSUME TypeOK, RecordInv, [Next]_vars
    PROVE  RecordInv'
<1> USE ConstantsAssumption, NoneAssumption
<1>1. ASSUME NEW v \in Versions, NEW d \in Digests, NEW ok \in BOOLEAN, ValidateCommand(v, d, ok)
      PROVE  RecordInv'
  BY <1>1 DEF TypeOK, RecordInv, Preparing, Carrying, NoPending, Link, ValidateCommand,
     Stale, Validated, Goto, Fault, durable, process, locals, outside
<1>2. ASSUME NEW v \in Versions, NEW d \in Digests, NEW ok \in BOOLEAN, Apply(v, d, ok)
      PROVE  RecordInv'
  BY <1>2 DEF TypeOK, RecordInv, Preparing, Carrying, NoPending, Link, Apply, Stale,
     Validated, Goto, Fault, Return, durable, process, locals, outside
<1>3. CASE LoadApplied
  BY <1>3 DEF TypeOK, RecordInv, Preparing, Carrying, NoPending, Link, LoadApplied,
     VerifyApplied, Verified, RollbackTarget, Goto, Fault, Return, durable, process, locals,
     outside
<1>4. CASE Prune
  BY <1>4 DEF TypeOK, RecordInv, Preparing, Carrying, NoPending, Link, Prune,
     PruneVersions, Kept, KeepFiles, Goto, Fault, Return, durable, process, locals, outside
<1>5. CASE InstallVersion
  <2>1. (pc' = "pend" => tgt' \in Targets) /\ pc' \in {"pend", "idle"}
    BY <1>5, InstallTarget
  <2> QED
    BY <1>5, <2>1 DEF RecordInv, Preparing, Carrying, NoPending, InstallVersion
<1>6. CASE PersistPending
  BY <1>6 DEF TypeOK, RecordInv, Preparing, Carrying, NoPending, Link, PersistPending,
     Goto, Fault, Return, durable, process, locals, outside
<1>7. CASE SwitchCurrent
  BY <1>7 DEF TypeOK, RecordInv, Preparing, Carrying, NoPending, Link, SwitchCurrent,
     Goto, Fault, durable, process, locals, outside
<1>8. CASE ClearPending
  BY <1>8 DEF TypeOK, RecordInv, Preparing, Carrying, NoPending, Link, ClearPending,
     Goto, Fault, Return, durable, process, locals, outside
<1>9. CASE Activate
  BY <1>9 DEF TypeOK, RecordInv, Preparing, Carrying, NoPending, Link, Activate,
     RestartAndWait, MayStart, MustStart, Verified, UnseenComesUp, Healthy, Goto, Fault,
     durable, process,
     locals, outside
<1>10. CASE RecordPrevious
  BY <1>10 DEF TypeOK, RecordInv, Preparing, Carrying, NoPending, Link, RecordPrevious,
     Goto, Fault, durable, process, locals, outside
<1>11. CASE PersistApplied
  BY <1>11 DEF TypeOK, RecordInv, Preparing, Carrying, NoPending, Link, PersistApplied,
     Goto, Fault, durable, process, locals, outside
<1>12. CASE RemovePending
  BY <1>12 DEF TypeOK, RecordInv, Preparing, Carrying, NoPending, Link, RemovePending,
     Failing, Goto, Fault, Return, durable, process, locals, outside
<1>13. CASE RemoveFailed
  BY <1>13 DEF TypeOK, RecordInv, Preparing, Carrying, NoPending, Link, RemoveFailed,
     Failing, Goto, Fault, Return, durable, process, locals, outside
<1>14. CASE PruneAndReturn
  BY <1>14 DEF TypeOK, RecordInv, Preparing, Carrying, NoPending, Link, PruneAndReturn,
     PruneVersions, Kept, KeepFiles, Goto, Fault, Return, durable, process, locals, outside
<1>15. CASE RollbackCurrent
  BY <1>15 DEF TypeOK, RecordInv, Preparing, Carrying, NoPending, Link, RollbackCurrent,
     Verified, Goto, Fault, durable, process, locals, outside
<1>16. CASE RollbackApplied
  BY <1>16 DEF TypeOK, RecordInv, Preparing, Carrying, NoPending, Link, RollbackApplied,
     Goto, Fault, durable, process, locals, outside
<1>17. CASE RollbackRestart
  BY <1>17 DEF TypeOK, RecordInv, Preparing, Carrying, NoPending, Link, RollbackRestart,
     RestartAndWait, MayStart, MustStart, Verified, UnseenComesUp, Healthy, Goto, Fault,
     durable, process,
     locals, outside
<1>18. CASE RollbackRemoveApplied
  BY <1>18 DEF TypeOK, RecordInv, Preparing, Carrying, NoPending, Link,
     RollbackRemoveApplied, Goto, Fault, durable, process, locals, outside
<1>19. CASE RollbackStop
  BY <1>19 DEF TypeOK, RecordInv, Preparing, Carrying, NoPending, Link, RollbackStop,
     StopAndWait, Goto, Fault, durable, process, locals, outside
<1>20. CASE RollbackPersistFailed
  BY <1>20 DEF TypeOK, RecordInv, Preparing, Carrying, NoPending, Link,
     RollbackPersistFailed, Goto, Fault, durable, process, locals, outside
<1>21. CASE RollbackClearPending
  BY <1>21 DEF TypeOK, RecordInv, Preparing, Carrying, NoPending, Link,
     RollbackClearPending, Goto, Fault, Return, durable, process, locals, outside
<1>22. CASE RollbackFailed
  BY <1>22 DEF TypeOK, RecordInv, Preparing, Carrying, NoPending, Link, RollbackFailed,
     Goto, Fault, Return, durable, process, locals, outside
<1>23. CASE Recover
  BY <1>23 DEF TypeOK, RecordInv, Preparing, Carrying, NoPending, Link, Recover,
     VerifyApplied, Verified, Goto, durable, process, locals, outside
<1>24. CASE Crash
  BY <1>24 DEF TypeOK, RecordInv, Preparing, Carrying, NoPending, Link, Crash, Fault,
     Return, durable, process, locals, outside
<1>25. CASE Restart
  BY <1>25 DEF TypeOK, RecordInv, Preparing, Carrying, NoPending, Link, Restart, Goto,
     durable, process, locals, outside
<1>26. CASE SupervisorRead
  BY <1>26 DEF TypeOK, RecordInv, Preparing, Carrying, NoPending, Link, SupervisorRead,
     durable, process, locals, outside
<1>27. CASE SupervisorStart
  BY <1>27 DEF TypeOK, RecordInv, Preparing, Carrying, NoPending, Link, SupervisorStart,
     durable, process, locals, outside
<1>28. CASE XrayExit
  BY <1>28 DEF TypeOK, RecordInv, Preparing, Carrying, NoPending, Link, XrayExit,
     durable, process, locals, outside
<1>29. CASE Drift
  BY <1>29 DEF TypeOK, RecordInv, Preparing, Carrying, NoPending, Link, Drift,
     KeepFiles, Return, durable, process, locals, outside
<1>30. CASE UNCHANGED vars
  BY <1>30 DEF TypeOK, RecordInv, Preparing, Carrying, NoPending, Link, vars, durable, process,
     locals, outside
<1> QED
  BY <1>1, <1>2, <1>3, <1>4, <1>5, <1>6, <1>7, <1>8, <1>9, <1>10, <1>11, <1>12, <1>13,
     <1>14, <1>15, <1>16, <1>17, <1>18, <1>19, <1>20, <1>21, <1>22, <1>23, <1>24, <1>25,
     <1>26, <1>27, <1>28, <1>29, <1>30
     DEF Next, Command, ApplyStep, RollbackStep

\* Every step keeps the links consistent with applied.json.
LEMMA LinkStep ==
    ASSUME TypeOK, RecordInv, LinkInv, [Next]_vars
    PROVE  LinkInv'
<1> USE ConstantsAssumption, NoneAssumption
<1>1. ASSUME NEW v \in Versions, NEW d \in Digests, NEW ok \in BOOLEAN, ValidateCommand(v, d, ok)
      PROVE  LinkInv'
  BY <1>1 DEF TypeOK, RecordInv, LinkInv, Preparing, Carrying, NoPending, Link,
     ValidateCommand, Stale, Validated, Goto, Fault, durable, process, locals, outside
<1>2. ASSUME NEW v \in Versions, NEW d \in Digests, NEW ok \in BOOLEAN, Apply(v, d, ok)
      PROVE  LinkInv'
  BY <1>2 DEF TypeOK, RecordInv, LinkInv, Preparing, Carrying, NoPending, Link, Apply,
     Stale, Validated, Goto, Fault, Return, durable, process, locals, outside
<1>3. CASE LoadApplied
  BY <1>3 DEF TypeOK, RecordInv, LinkInv, Preparing, Carrying, NoPending, Link,
     LoadApplied, VerifyApplied, Verified, RollbackTarget, Goto, Fault, Return, durable, process,
     locals, outside
<1>4. CASE Prune
  BY <1>4 DEF TypeOK, RecordInv, LinkInv, Preparing, Carrying, NoPending, Link, Prune,
     PruneVersions, Kept, KeepFiles, Goto, Fault, Return, durable, process, locals, outside
<1>5. CASE InstallVersion
  BY <1>5 DEF TypeOK, RecordInv, LinkInv, Preparing, Carrying, NoPending, Link,
     InstallVersion, Verified, WriteFile, Goto, Fault, Return, durable, process, locals, outside
<1>6. CASE PersistPending
  BY <1>6 DEF TypeOK, RecordInv, LinkInv, Preparing, Carrying, NoPending, Link,
     PersistPending, Goto, Fault, Return, durable, process, locals, outside
<1>7. CASE SwitchCurrent
  BY <1>7 DEF TypeOK, RecordInv, LinkInv, Preparing, Carrying, NoPending, Link,
     SwitchCurrent, Goto, Fault, durable, process, locals, outside
<1>8. CASE ClearPending
  BY <1>8 DEF TypeOK, RecordInv, LinkInv, Preparing, Carrying, NoPending, Link,
     ClearPending, Goto, Fault, Return, durable, process, locals, outside
<1>9. CASE Activate
  BY <1>9 DEF TypeOK, RecordInv, LinkInv, Preparing, Carrying, NoPending, Link,
     Activate, RestartAndWait, MayStart, MustStart, Verified, UnseenComesUp, Healthy, Goto, Fault,
     durable, process, locals, outside
<1>10. CASE RecordPrevious
  BY <1>10 DEF TypeOK, RecordInv, LinkInv, Preparing, Carrying, NoPending, Link,
     RecordPrevious, Goto, Fault, durable, process, locals, outside
<1>11. CASE PersistApplied
  BY <1>11 DEF TypeOK, RecordInv, LinkInv, Preparing, Carrying, NoPending, Link,
     PersistApplied, Goto, Fault, durable, process, locals, outside
<1>12. CASE RemovePending
  BY <1>12 DEF TypeOK, RecordInv, LinkInv, Preparing, Carrying, NoPending, Link,
     RemovePending, Failing, Goto, Fault, Return, durable, process, locals, outside
<1>13. CASE RemoveFailed
  BY <1>13 DEF TypeOK, RecordInv, LinkInv, Preparing, Carrying, NoPending, Link,
     RemoveFailed, Failing, Goto, Fault, Return, durable, process, locals, outside
<1>14. CASE PruneAndReturn
  BY <1>14 DEF TypeOK, RecordInv, LinkInv, Preparing, Carrying, NoPending, Link,
     PruneAndReturn, PruneVersions, Kept, KeepFiles, Goto, Fault, Return, durable, process,
     locals, outside
<1>15. CASE RollbackCurrent
  BY <1>15 DEF TypeOK, RecordInv, LinkInv, Preparing, Carrying, NoPending, Link,
     RollbackCurrent, Verified, Goto, Fault, durable, process, locals, outside
<1>16. CASE RollbackApplied
  BY <1>16 DEF TypeOK, RecordInv, LinkInv, Preparing, Carrying, NoPending, Link,
     RollbackApplied, Goto, Fault, durable, process, locals, outside
<1>17. CASE RollbackRestart
  BY <1>17 DEF TypeOK, RecordInv, LinkInv, Preparing, Carrying, NoPending, Link,
     RollbackRestart, RestartAndWait, MayStart, MustStart, Verified, UnseenComesUp, Healthy, Goto,
     Fault, durable, process, locals, outside
<1>18. CASE RollbackRemoveApplied
  BY <1>18 DEF TypeOK, RecordInv, LinkInv, Preparing, Carrying, NoPending, Link,
     RollbackRemoveApplied, Goto, Fault, durable, process, locals, outside
<1>19. CASE RollbackStop
  BY <1>19 DEF TypeOK, RecordInv, LinkInv, Preparing, Carrying, NoPending, Link,
     RollbackStop, StopAndWait, Goto, Fault, durable, process, locals, outside
<1>20. CASE RollbackPersistFailed
  BY <1>20 DEF TypeOK, RecordInv, LinkInv, Preparing, Carrying, NoPending, Link,
     RollbackPersistFailed, Goto, Fault, durable, process, locals, outside
<1>21. CASE RollbackClearPending
  BY <1>21 DEF TypeOK, RecordInv, LinkInv, Preparing, Carrying, NoPending, Link,
     RollbackClearPending, Goto, Fault, Return, durable, process, locals, outside
<1>22. CASE RollbackFailed
  BY <1>22 DEF TypeOK, RecordInv, LinkInv, Preparing, Carrying, NoPending, Link,
     RollbackFailed, Goto, Fault, Return, durable, process, locals, outside
<1>23. CASE Recover
  BY <1>23 DEF TypeOK, RecordInv, LinkInv, Preparing, Carrying, NoPending, Link,
     Recover, VerifyApplied, Verified, Goto, durable, process, locals, outside
<1>24. CASE Crash
  BY <1>24 DEF TypeOK, RecordInv, LinkInv, Preparing, Carrying, NoPending, Link, Crash,
     Fault, Return, durable, process, locals, outside
<1>25. CASE Restart
  BY <1>25 DEF TypeOK, RecordInv, LinkInv, Preparing, Carrying, NoPending, Link,
     Restart, Goto, durable, process, locals, outside
<1>26. CASE SupervisorRead
  BY <1>26 DEF TypeOK, RecordInv, LinkInv, Preparing, Carrying, NoPending, Link,
     SupervisorRead, durable, process, locals, outside
<1>27. CASE SupervisorStart
  BY <1>27 DEF TypeOK, RecordInv, LinkInv, Preparing, Carrying, NoPending, Link,
     SupervisorStart, durable, process, locals, outside
<1>28. CASE XrayExit
  BY <1>28 DEF TypeOK, RecordInv, LinkInv, Preparing, Carrying, NoPending, Link,
     XrayExit, durable, process, locals, outside
<1>29. CASE Drift
  <2>1. CASE relinked' = TRUE
    BY <2>1 DEF LinkInv
  <2>2. CASE UNCHANGED <<current, applied, relinked>>
    BY <1>29, <2>2 DEF TypeOK, RecordInv, LinkInv, Preparing, Carrying, NoPending, Link,
       Drift, KeepFiles, Return, locals
  <2> QED  BY <1>29, <2>1, <2>2 DEF Drift
<1>30. CASE UNCHANGED vars
  BY <1>30 DEF TypeOK, RecordInv, LinkInv, Preparing, Carrying, NoPending, Link, vars,
     durable, process, locals, outside
<1> QED
  BY <1>1, <1>2, <1>3, <1>4, <1>5, <1>6, <1>7, <1>8, <1>9, <1>10, <1>11, <1>12, <1>13,
     <1>14, <1>15, <1>16, <1>17, <1>18, <1>19, <1>20, <1>21, <1>22, <1>23, <1>24, <1>25,
     <1>26, <1>27, <1>28, <1>29, <1>30
     DEF Next, Command, ApplyStep, RollbackStep

\* No step loses a file that is still named.
LEMMA FileStep ==
    ASSUME TypeOK, RecordInv, LinkInv, FileInv, [Next]_vars
    PROVE  FileInv'
<1> USE ConstantsAssumption, NoneAssumption
<1>1. ASSUME NEW v \in Versions, NEW d \in Digests, NEW ok \in BOOLEAN, ValidateCommand(v, d, ok)
      PROVE  FileInv'
  BY <1>1 DEF TypeOK, RecordInv, LinkInv, FileInv, Present, Protected, Preparing,
     Carrying, NoPending, Link, ValidateCommand, Stale, Validated, Goto, Fault, durable, process,
     locals, outside
<1>2. ASSUME NEW v \in Versions, NEW d \in Digests, NEW ok \in BOOLEAN, Apply(v, d, ok)
      PROVE  FileInv'
  BY <1>2 DEF TypeOK, RecordInv, LinkInv, FileInv, Present, Protected, Preparing,
     Carrying, NoPending, Link, Apply, Stale, Validated, Goto, Fault, Return, durable, process,
     locals, outside
<1>3. CASE LoadApplied
  BY <1>3 DEF TypeOK, RecordInv, LinkInv, FileInv, Present, Protected, Preparing,
     Carrying, NoPending, Link, LoadApplied, VerifyApplied, Verified, RollbackTarget,
     Goto, Fault, Return, durable, process, locals, outside
<1>4. CASE Prune
  BY <1>4 DEF TypeOK, RecordInv, LinkInv, FileInv, Present, Protected, Preparing,
     Carrying, NoPending, Link, Prune, PruneVersions, Kept, KeepFiles, Goto, Fault,
     Return, durable, process, locals, outside
<1>5. CASE InstallVersion
  BY <1>5 DEF TypeOK, RecordInv, LinkInv, FileInv, Present, Protected, Preparing,
     Carrying, NoPending, Link, InstallVersion, Verified, WriteFile, Goto, Fault,
     Return, durable, process, locals, outside
<1>6. CASE PersistPending
  BY <1>6 DEF TypeOK, RecordInv, LinkInv, FileInv, Present, Protected, Preparing,
     Carrying, NoPending, Link, PersistPending, Goto, Fault, Return, durable, process, locals,
     outside
<1>7. CASE SwitchCurrent
  BY <1>7 DEF TypeOK, RecordInv, LinkInv, FileInv, Present, Protected, Preparing,
     Carrying, NoPending, Link, SwitchCurrent, Goto, Fault, durable, process, locals, outside
<1>8. CASE ClearPending
  BY <1>8 DEF TypeOK, RecordInv, LinkInv, FileInv, Present, Protected, Preparing,
     Carrying, NoPending, Link, ClearPending, Goto, Fault, Return, durable, process, locals,
     outside
<1>9. CASE Activate
  BY <1>9 DEF TypeOK, RecordInv, LinkInv, FileInv, Present, Protected, Preparing,
     Carrying, NoPending, Link, Activate, RestartAndWait, MayStart, MustStart, Verified,
     UnseenComesUp, Healthy, Goto, Fault, durable, process, locals, outside
<1>10. CASE RecordPrevious
  BY <1>10 DEF TypeOK, RecordInv, LinkInv, FileInv, Present, Protected, Preparing,
     Carrying, NoPending, Link, RecordPrevious, Goto, Fault, durable, process, locals, outside
<1>11. CASE PersistApplied
  BY <1>11 DEF TypeOK, RecordInv, LinkInv, FileInv, Present, Protected, Preparing,
     Carrying, NoPending, Link, PersistApplied, Goto, Fault, durable, process, locals, outside
<1>12. CASE RemovePending
  BY <1>12 DEF TypeOK, RecordInv, LinkInv, FileInv, Present, Protected, Preparing,
     Carrying, NoPending, Link, RemovePending, Failing, Goto, Fault, Return, durable, process,
     locals, outside
<1>13. CASE RemoveFailed
  BY <1>13 DEF TypeOK, RecordInv, LinkInv, FileInv, Present, Protected, Preparing,
     Carrying, NoPending, Link, RemoveFailed, Failing, Goto, Fault, Return, durable, process,
     locals, outside
<1>14. CASE PruneAndReturn
  BY <1>14 DEF TypeOK, RecordInv, LinkInv, FileInv, Present, Protected, Preparing,
     Carrying, NoPending, Link, PruneAndReturn, PruneVersions, Kept, KeepFiles, Goto,
     Fault, Return, durable, process, locals, outside
<1>15. CASE RollbackCurrent
  BY <1>15 DEF TypeOK, RecordInv, LinkInv, FileInv, Present, Protected, Preparing,
     Carrying, NoPending, Link, RollbackCurrent, Verified, Goto, Fault, durable, process, locals,
     outside
<1>16. CASE RollbackApplied
  BY <1>16 DEF TypeOK, RecordInv, LinkInv, FileInv, Present, Protected, Preparing,
     Carrying, NoPending, Link, RollbackApplied, Goto, Fault, durable, process, locals, outside
<1>17. CASE RollbackRestart
  BY <1>17 DEF TypeOK, RecordInv, LinkInv, FileInv, Present, Protected, Preparing,
     Carrying, NoPending, Link, RollbackRestart, RestartAndWait, MayStart, MustStart,
     Verified, UnseenComesUp, Healthy, Goto, Fault, durable, process, locals, outside
<1>18. CASE RollbackRemoveApplied
  BY <1>18 DEF TypeOK, RecordInv, LinkInv, FileInv, Present, Protected, Preparing,
     Carrying, NoPending, Link, RollbackRemoveApplied, Goto, Fault, durable, process, locals,
     outside
<1>19. CASE RollbackStop
  BY <1>19 DEF TypeOK, RecordInv, LinkInv, FileInv, Present, Protected, Preparing,
     Carrying, NoPending, Link, RollbackStop, StopAndWait, Goto, Fault, durable, process, locals,
     outside
<1>20. CASE RollbackPersistFailed
  BY <1>20 DEF TypeOK, RecordInv, LinkInv, FileInv, Present, Protected, Preparing,
     Carrying, NoPending, Link, RollbackPersistFailed, Goto, Fault, durable, process, locals,
     outside
<1>21. CASE RollbackClearPending
  BY <1>21 DEF TypeOK, RecordInv, LinkInv, FileInv, Present, Protected, Preparing,
     Carrying, NoPending, Link, RollbackClearPending, Goto, Fault, Return, durable, process,
     locals, outside
<1>22. CASE RollbackFailed
  BY <1>22 DEF TypeOK, RecordInv, LinkInv, FileInv, Present, Protected, Preparing,
     Carrying, NoPending, Link, RollbackFailed, Goto, Fault, Return, durable, process, locals,
     outside
<1>23. CASE Recover
  BY <1>23 DEF TypeOK, RecordInv, LinkInv, FileInv, Present, Protected, Preparing,
     Carrying, NoPending, Link, Recover, VerifyApplied, Verified, Goto, durable, process, locals,
     outside
<1>24. CASE Crash
  BY <1>24 DEF TypeOK, RecordInv, LinkInv, FileInv, Present, Protected, Preparing,
     Carrying, NoPending, Link, Crash, Fault, Return, durable, process, locals, outside
<1>25. CASE Restart
  BY <1>25 DEF TypeOK, RecordInv, LinkInv, FileInv, Present, Protected, Preparing,
     Carrying, NoPending, Link, Restart, Goto, durable, process, locals, outside
<1>26. CASE SupervisorRead
  BY <1>26 DEF TypeOK, RecordInv, LinkInv, FileInv, Present, Protected, Preparing,
     Carrying, NoPending, Link, SupervisorRead, durable, process, locals, outside
<1>27. CASE SupervisorStart
  BY <1>27 DEF TypeOK, RecordInv, LinkInv, FileInv, Present, Protected, Preparing,
     Carrying, NoPending, Link, SupervisorStart, durable, process, locals, outside
<1>28. CASE XrayExit
  BY <1>28 DEF TypeOK, RecordInv, LinkInv, FileInv, Present, Protected, Preparing,
     Carrying, NoPending, Link, XrayExit, durable, process, locals, outside
<1>29. CASE Drift
  <2>1. CASE relinked' = TRUE
    BY <2>1 DEF FileInv
  <2>2. CASE UNCHANGED <<current, applied, relinked>>
    BY <1>29, <2>2 DEF TypeOK, RecordInv, LinkInv, FileInv, Present, Protected,
       Preparing, Carrying, NoPending, Link, Drift, KeepFiles, Return, locals
  <2> QED  BY <1>29, <2>1, <2>2 DEF Drift
<1>30. CASE UNCHANGED vars
  BY <1>30 DEF TypeOK, RecordInv, LinkInv, FileInv, Present, Protected, Preparing,
     Carrying, NoPending, Link, vars, durable, process, locals, outside
<1> QED
  BY <1>1, <1>2, <1>3, <1>4, <1>5, <1>6, <1>7, <1>8, <1>9, <1>10, <1>11, <1>12, <1>13,
     <1>14, <1>15, <1>16, <1>17, <1>18, <1>19, <1>20, <1>21, <1>22, <1>23, <1>24, <1>25,
     <1>26, <1>27, <1>28, <1>29, <1>30
     DEF Next, Command, ApplyStep, RollbackStep

\* Every step keeps Xray on an accounted configuration.
LEMMA RunStep ==
    ASSUME TypeOK, RecordInv, LinkInv, FileInv, RunInv, [Next]_vars
    PROVE  RunInv'
<1> USE ConstantsAssumption, NoneAssumption
<1>1. ASSUME NEW v \in Versions, NEW d \in Digests, NEW ok \in BOOLEAN, ValidateCommand(v, d, ok)
      PROVE  RunInv'
  BY <1>1 DEF TypeOK, RecordInv, LinkInv, FileInv, RunInv, Present, Protected,
     Preparing, Carrying, NoPending, Link, ValidateCommand, Stale, Validated, Goto,
     Fault, durable, process, locals, outside
<1>2. ASSUME NEW v \in Versions, NEW d \in Digests, NEW ok \in BOOLEAN, Apply(v, d, ok)
      PROVE  RunInv'
  BY <1>2 DEF TypeOK, RecordInv, LinkInv, FileInv, RunInv, Present, Protected,
     Preparing, Carrying, NoPending, Link, Apply, Stale, Validated, Goto, Fault, Return,
     durable, process, locals, outside
<1>3. CASE LoadApplied
  BY <1>3 DEF TypeOK, RecordInv, LinkInv, FileInv, RunInv, Present, Protected,
     Preparing, Carrying, NoPending, Link, LoadApplied, VerifyApplied, Verified,
     RollbackTarget, Goto, Fault, Return, durable, process, locals, outside
<1>4. CASE Prune
  BY <1>4 DEF TypeOK, RecordInv, LinkInv, FileInv, RunInv, Present, Protected,
     Preparing, Carrying, NoPending, Link, Prune, PruneVersions, Kept, KeepFiles, Goto,
     Fault, Return, durable, process, locals, outside
<1>5. CASE InstallVersion
  BY <1>5 DEF TypeOK, RecordInv, LinkInv, FileInv, RunInv, Present, Protected,
     Preparing, Carrying, NoPending, Link, InstallVersion, Verified, WriteFile, Goto,
     Fault, Return, durable, process, locals, outside
<1>6. CASE PersistPending
  BY <1>6 DEF TypeOK, RecordInv, LinkInv, FileInv, RunInv, Present, Protected,
     Preparing, Carrying, NoPending, Link, PersistPending, Goto, Fault, Return, durable, process,
     locals, outside
<1>7. CASE SwitchCurrent
  BY <1>7 DEF TypeOK, RecordInv, LinkInv, FileInv, RunInv, Present, Protected,
     Preparing, Carrying, NoPending, Link, SwitchCurrent, Goto, Fault, durable, process, locals,
     outside
<1>8. CASE ClearPending
  BY <1>8 DEF TypeOK, RecordInv, LinkInv, FileInv, RunInv, Present, Protected,
     Preparing, Carrying, NoPending, Link, ClearPending, Goto, Fault, Return, durable, process,
     locals, outside
<1>9. CASE Activate
  BY <1>9 DEF TypeOK, RecordInv, LinkInv, FileInv, RunInv, Present, Protected,
     Preparing, Carrying, NoPending, Link, Activate, RestartAndWait, MayStart,
     MustStart, Verified, UnseenComesUp, Healthy, Goto, Fault, durable, process, locals, outside
<1>10. CASE RecordPrevious
  BY <1>10 DEF TypeOK, RecordInv, LinkInv, FileInv, RunInv, Present, Protected,
     Preparing, Carrying, NoPending, Link, RecordPrevious, Goto, Fault, durable, process, locals,
     outside
<1>11. CASE PersistApplied
  BY <1>11 DEF TypeOK, RecordInv, LinkInv, FileInv, RunInv, Present, Protected,
     Preparing, Carrying, NoPending, Link, PersistApplied, Goto, Fault, durable, process, locals,
     outside
<1>12. CASE RemovePending
  BY <1>12 DEF TypeOK, RecordInv, LinkInv, FileInv, RunInv, Present, Protected,
     Preparing, Carrying, NoPending, Link, RemovePending, Failing, Goto, Fault, Return,
     durable, process, locals, outside
<1>13. CASE RemoveFailed
  BY <1>13 DEF TypeOK, RecordInv, LinkInv, FileInv, RunInv, Present, Protected,
     Preparing, Carrying, NoPending, Link, RemoveFailed, Failing, Goto, Fault, Return,
     durable, process, locals, outside
<1>14. CASE PruneAndReturn
  BY <1>14 DEF TypeOK, RecordInv, LinkInv, FileInv, RunInv, Present, Protected,
     Preparing, Carrying, NoPending, Link, PruneAndReturn, PruneVersions, Kept,
     KeepFiles, Goto, Fault, Return, durable, process, locals, outside
<1>15. CASE RollbackCurrent
  BY <1>15 DEF TypeOK, RecordInv, LinkInv, FileInv, RunInv, Present, Protected,
     Preparing, Carrying, NoPending, Link, RollbackCurrent, Verified, Goto, Fault,
     durable, process, locals, outside
<1>16. CASE RollbackApplied
  BY <1>16 DEF TypeOK, RecordInv, LinkInv, FileInv, RunInv, Present, Protected,
     Preparing, Carrying, NoPending, Link, RollbackApplied, Goto, Fault, durable, process,
     locals, outside
<1>17. CASE RollbackRestart
  BY <1>17 DEF TypeOK, RecordInv, LinkInv, FileInv, RunInv, Present, Protected,
     Preparing, Carrying, NoPending, Link, RollbackRestart, RestartAndWait, MayStart,
     MustStart, Verified, UnseenComesUp, Healthy, Goto, Fault, durable, process, locals, outside
<1>18. CASE RollbackRemoveApplied
  BY <1>18 DEF TypeOK, RecordInv, LinkInv, FileInv, RunInv, Present, Protected,
     Preparing, Carrying, NoPending, Link, RollbackRemoveApplied, Goto, Fault, durable, process,
     locals, outside
<1>19. CASE RollbackStop
  BY <1>19 DEF TypeOK, RecordInv, LinkInv, FileInv, RunInv, Present, Protected,
     Preparing, Carrying, NoPending, Link, RollbackStop, StopAndWait, Goto, Fault,
     durable, process, locals, outside
<1>20. CASE RollbackPersistFailed
  BY <1>20 DEF TypeOK, RecordInv, LinkInv, FileInv, RunInv, Present, Protected,
     Preparing, Carrying, NoPending, Link, RollbackPersistFailed, Goto, Fault, durable, process,
     locals, outside
<1>21. CASE RollbackClearPending
  BY <1>21 DEF TypeOK, RecordInv, LinkInv, FileInv, RunInv, Present, Protected,
     Preparing, Carrying, NoPending, Link, RollbackClearPending, Goto, Fault, Return,
     durable, process, locals, outside
<1>22. CASE RollbackFailed
  BY <1>22 DEF TypeOK, RecordInv, LinkInv, FileInv, RunInv, Present, Protected,
     Preparing, Carrying, NoPending, Link, RollbackFailed, Goto, Fault, Return, durable, process,
     locals, outside
<1>23. CASE Recover
  BY <1>23 DEF TypeOK, RecordInv, LinkInv, FileInv, RunInv, Present, Protected,
     Preparing, Carrying, NoPending, Link, Recover, VerifyApplied, Verified, Goto,
     durable, process, locals, outside
<1>24. CASE Crash
  BY <1>24 DEF TypeOK, RecordInv, LinkInv, FileInv, RunInv, Present, Protected,
     Preparing, Carrying, NoPending, Link, Crash, Fault, Return, durable, process, locals,
     outside
<1>25. CASE Restart
  BY <1>25 DEF TypeOK, RecordInv, LinkInv, FileInv, RunInv, Present, Protected,
     Preparing, Carrying, NoPending, Link, Restart, Goto, durable, process, locals, outside
<1>26. CASE SupervisorRead
  BY <1>26 DEF TypeOK, RecordInv, LinkInv, FileInv, RunInv, Present, Protected,
     Preparing, Carrying, NoPending, Link, SupervisorRead, durable, process, locals,
     outside
<1>27. CASE SupervisorStart
  BY <1>27 DEF TypeOK, RecordInv, LinkInv, FileInv, RunInv, Present, Protected,
     Preparing, Carrying, NoPending, Link, SupervisorStart, durable, process, locals,
     outside
<1>28. CASE XrayExit
  BY <1>28 DEF TypeOK, RecordInv, LinkInv, FileInv, RunInv, Present, Protected,
     Preparing, Carrying, NoPending, Link, XrayExit, durable, process, locals,
     outside
<1>29. CASE Drift
  BY <1>29 DEF TypeOK, RecordInv, LinkInv, FileInv, RunInv, Present, Protected,
     Preparing, Carrying, NoPending, Link, Drift, KeepFiles, Return, durable, process, locals,
     outside
<1>30. CASE UNCHANGED vars
  BY <1>30 DEF TypeOK, RecordInv, LinkInv, FileInv, RunInv, Present, Protected,
     Preparing, Carrying, NoPending, Link, vars, durable, process, locals, outside
<1> QED
  BY <1>1, <1>2, <1>3, <1>4, <1>5, <1>6, <1>7, <1>8, <1>9, <1>10, <1>11, <1>12, <1>13,
     <1>14, <1>15, <1>16, <1>17, <1>18, <1>19, <1>20, <1>21, <1>22, <1>23, <1>24, <1>25,
     <1>26, <1>27, <1>28, <1>29, <1>30
     DEF Next, Command, ApplyStep, RollbackStep

\* Every step keeps the answers true, and what the next answer will say.
LEMMA AnswerStep ==
    ASSUME TypeOK, RecordInv, CommandInv, TruthInv, AnswerIsTrue, [Next]_vars
    PROVE  (CommandInv /\ TruthInv /\ AnswerIsTrue)'
<1> DEFINE Goal == (CommandInv /\ TruthInv /\ AnswerIsTrue)'
<1> USE ConstantsAssumption, NoneAssumption
    DEF CommandInv, TruthInv, AnswerIsTrue, Approved, AskedFor, Verified,
        Asking, Holding, Finishing, durable, process, locals, outside
<1>1. ASSUME NEW v \in Versions, NEW d \in Digests, NEW ok \in BOOLEAN, ValidateCommand(v, d, ok)
      PROVE  Goal
  BY <1>1 DEF TypeOK, RecordInv, NoPending, Carrying, ValidateCommand, Stale, Validated,
     Goto, Fault
<1>2. ASSUME NEW v \in Versions, NEW d \in Digests, NEW ok \in BOOLEAN, Apply(v, d, ok)
      PROVE  Goal
  BY <1>2 DEF TypeOK, RecordInv, NoPending, Carrying, Apply, Stale, Validated, Goto,
     Fault, Return
<1>3. CASE LoadApplied
  BY <1>3 DEF TypeOK, RecordInv, NoPending, Carrying, LoadApplied, VerifyApplied,
     RollbackTarget, Goto, Fault, Return
<1>4. CASE Prune
  BY <1>4 DEF TypeOK, RecordInv, NoPending, Carrying, Prune, PruneVersions, Goto, Fault,
     Return
<1>5. CASE InstallVersion
  <2>1. /\ pc = "install" /\ pc' \in {"pend", "idle"}
        /\ result' \in {result, "not_required"}
    BY <1>5 DEF InstallVersion, Goto, Fault, Return
  <2>2. pc' = "pend" => AskedFor(tgt)' /\ Verified(tgt)'
    <3> DEFINE plain == [ver |-> req.ver, dig |-> req.dig, rep |-> 0]
               name  == IF repair THEN [plain EXCEPT !.rep = clock + 1] ELSE plain
    <3>1. /\ plain \in Targets /\ name \in Targets
          /\ plain.ver = req.ver /\ name.ver = req.ver
          /\ plain.dig = req.dig /\ name.dig = req.dig
      BY <1>5 DEF TypeOK, InstallVersion, Targets
    <3>2. pc' = "pend" => \/ tgt' = plain /\ Verified(plain) /\ UNCHANGED <<mtime, corrupt>>
                          \/ tgt' = name /\ WriteFile(name)
      BY <1>5 DEF InstallVersion, Goto, Fault
    <3> HIDE DEF plain, name
    <3> QED  BY <1>5, <3>1, <3>2 DEF InstallVersion, WriteFile
  <2> QED
    BY <1>5, <2>1, <2>2 DEF InstallVersion
<1>6. CASE PersistPending
  BY <1>6 DEF TypeOK, RecordInv, NoPending, Carrying, PersistPending, Goto, Fault,
     Return
<1>7. CASE SwitchCurrent
  BY <1>7 DEF TypeOK, RecordInv, NoPending, Carrying, SwitchCurrent, Goto, Fault
<1>8. CASE ClearPending
  BY <1>8 DEF TypeOK, RecordInv, NoPending, Carrying, ClearPending, Goto, Fault, Return
<1>9. CASE Activate
  BY <1>9 DEF TypeOK, RecordInv, NoPending, Carrying, Activate, RestartAndWait, Goto,
     Fault
<1>10. CASE RecordPrevious
  BY <1>10 DEF TypeOK, RecordInv, NoPending, Carrying, RecordPrevious, Goto, Fault
<1>11. CASE PersistApplied
  BY <1>11 DEF TypeOK, RecordInv, NoPending, Carrying, PersistApplied, Goto, Fault
<1>12. CASE RemovePending
  BY <1>12 DEF TypeOK, RecordInv, NoPending, Carrying, RemovePending, Failing, Goto,
     Fault, Return
<1>13. CASE RemoveFailed
  BY <1>13 DEF TypeOK, RecordInv, NoPending, Carrying, RemoveFailed, Failing, Goto,
     Fault, Return
<1>14. CASE PruneAndReturn
  <2>1. /\ pc = "prune_end" /\ pc' = "idle" /\ result' \in {"applied", "not_required"}
        /\ \A t \in Protected \cap DOMAIN mtime : t \in DOMAIN mtime'
    <3>1. PICK S \in SUBSET DOMAIN mtime : KeepFiles(S) /\ Protected \cap DOMAIN mtime \subseteq S
      BY <1>14, PruneKeeps DEF PruneAndReturn
    <3>2. DOMAIN mtime' = S
      BY <3>1, KeepFilesType
    <3> QED  BY <1>14, <3>1, <3>2, PruneKeeps DEF PruneAndReturn
  <2>2. ~disturbed => applied # None /\ applied \in Protected
    BY <2>1 DEF Protected
  <2> QED
    BY <1>14, <2>1, <2>2 DEF PruneAndReturn
<1>15. CASE RollbackCurrent
  BY <1>15 DEF TypeOK, RecordInv, NoPending, Carrying, RollbackCurrent, Goto, Fault
<1>16. CASE RollbackApplied
  BY <1>16 DEF TypeOK, RecordInv, NoPending, Carrying, RollbackApplied, Goto, Fault
<1>17. CASE RollbackRestart
  BY <1>17 DEF TypeOK, RecordInv, NoPending, Carrying, RollbackRestart, RestartAndWait,
     UnseenComesUp, Healthy, Goto, Fault
<1>18. CASE RollbackRemoveApplied
  BY <1>18 DEF TypeOK, RecordInv, NoPending, Carrying, RollbackRemoveApplied, Goto,
     Fault
<1>19. CASE RollbackStop
  BY <1>19 DEF TypeOK, RecordInv, NoPending, Carrying, RollbackStop, StopAndWait, Goto,
     Fault
<1>20. CASE RollbackPersistFailed
  BY <1>20 DEF TypeOK, RecordInv, NoPending, Carrying, RollbackPersistFailed, Goto,
     Fault
<1>21. CASE RollbackClearPending
  BY <1>21 DEF TypeOK, RecordInv, NoPending, Carrying, RollbackClearPending, Goto,
     Fault, Return
<1>22. CASE RollbackFailed
  BY <1>22 DEF TypeOK, RecordInv, NoPending, Carrying, RollbackFailed, Goto, Fault,
     Return
<1>23. CASE Recover
  BY <1>23 DEF TypeOK, RecordInv, NoPending, Carrying, Recover, VerifyApplied, Goto
<1>24. CASE Crash
  BY <1>24 DEF TypeOK, RecordInv, NoPending, Carrying, Crash, Fault, Return
<1>25. CASE Restart
  BY <1>25 DEF TypeOK, RecordInv, NoPending, Carrying, Restart, Goto
<1>26. CASE SupervisorRead
  BY <1>26 DEF TypeOK, RecordInv, NoPending, Carrying, SupervisorRead
<1>27. CASE SupervisorStart
  BY <1>27 DEF TypeOK, RecordInv, NoPending, Carrying, SupervisorStart
<1>28. CASE XrayExit
  BY <1>28 DEF TypeOK, RecordInv, NoPending, Carrying, XrayExit
<1>29. CASE Drift
  BY <1>29 DEF TypeOK, RecordInv, NoPending, Carrying, Drift, Return
<1>30. CASE UNCHANGED vars
  BY <1>30 DEF vars
<1> QED
  BY <1>1, <1>2, <1>3, <1>4, <1>5, <1>6, <1>7, <1>8, <1>9, <1>10, <1>11, <1>12, <1>13,
     <1>14, <1>15, <1>16, <1>17, <1>18, <1>19, <1>20, <1>21, <1>22, <1>23, <1>24, <1>25,
     <1>26, <1>27, <1>28, <1>29, <1>30 DEF Next, Command, ApplyStep, RollbackStep

-----------------------------------------------------------------------------
(* Theorems *)

\* Every reachable state, whatever crashed, failed or drifted, satisfies the
\* inductive invariant.
THEOREM Invariance == Spec => []Inv
<1>1. Init => Inv
  <2> SUFFICES ASSUME Init PROVE Inv
    OBVIOUS
  <2> USE ConstantsAssumption, NoneAssumption
  <2>1. TypeOK
    BY DEF Init, TypeOK, Link, NoPending, NoResult, Labels, Results
  <2>2. RecordInv /\ LinkInv
    BY DEF Init, RecordInv, LinkInv, NoPending, Preparing, Carrying
  <2>3. FileInv /\ RunInv
    BY DEF Init, FileInv, RunInv, Protected, NoPending, Preparing
  <2>4. CommandInv /\ TruthInv /\ AnswerIsTrue
    BY DEF Init, CommandInv, TruthInv, AnswerIsTrue, Asking, Holding, Finishing
  <2> QED  BY <2>1, <2>2, <2>3, <2>4 DEF Inv
<1>2. Inv /\ [Next]_vars => Inv'
  BY TypeStep, RecordStep, LinkStep, FileStep, RunStep, AnswerStep DEF Inv
<1> QED  BY <1>1, <1>2, PTL DEF Spec

\* The files, links, records and locals of Apply and Recover stay well formed.
THEOREM TypeCorrect == Spec => []TypeOK
<1>1. Inv => TypeOK
  BY DEF Inv
<1> QED  BY <1>1, Invariance, PTL

\* Crash consistency: stopped after any write of Apply, rollback or Recover,
\* the node either has a pending record or current.json names what
\* applied.json records.
THEOREM CrashConsistency == Spec => []NoRecordMeansConsistent
<1>1. Inv => NoRecordMeansConsistent
  BY DEF Inv, LinkInv, NoRecordMeansConsistent
<1> QED  BY <1>1, Invariance, PTL

\* pruneVersions never removes a version that a link, applied.json or the
\* pending record names, so the file a rollback needs is there.
THEOREM PruneIsSafe == Spec => []NoDanglingReference
<1>1. Inv => NoDanglingReference
  BY DEF Inv, FileInv, Present, NoDanglingReference
<1> QED  BY <1>1, Invariance, PTL

\* As long as nothing interferes from outside, Xray runs or is being started
\* with the applied version, or during an apply its candidate or rollback
\* target, or nothing; only a process that a confirmed restart or stop did not
\* see, because xray.pid was not written yet, escapes until it ends.
THEOREM XrayIsAccountedFor == Spec => []RunningIsAccountedFor
<1>1. Inv => RunningIsAccountedFor
  BY DEF Inv, RunInv, RunningIsAccountedFor
<1> QED  BY <1>1, Invariance, PTL

\* Apply answers "applied" only for the version the validator approved, when
\* it is in place, intact, with no record left behind, and "rolled_back" only
\* when the rollback target is in place again and nothing else runs or is
\* being started, a process the confirmed call did not see apart.
THEOREM AnswersAreTrue == Spec => []AnswerIsTrue
<1>1. Inv => AnswerIsTrue
  BY DEF Inv
<1> QED  BY <1>1, Invariance, PTL
=============================================================================
