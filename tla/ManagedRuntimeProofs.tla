------------------------ MODULE ManagedRuntimeProofs ------------------------
(***************************************************************************)
(* Proofs about ManagedRuntime, for every set of configurations and        *)
(* bundles, every set of working pairs and every number of faults.         *)
(*                                                                         *)
(* Each manager is crash consistent by itself (ConfigApplyProofs,          *)
(* BinaryUpdateProofs).  What has to be proved here is what they share:    *)
(* each restarts the one process with whatever the other one's link names, *)
(* and each may leave its own record undecided while the other goes on.    *)
(* The invariant therefore speaks of all four combinations of records.     *)
(***************************************************************************)
EXTENDS ManagedRuntime, TLAPS

-----------------------------------------------------------------------------
(* The inductive invariant *)

\* What the type invariant leaves open: links and records are functions.
ShapeInv ==
    /\ DOMAIN current = Managers /\ current = [m \in Managers |-> current[m]]
    /\ DOMAIN applied = Managers /\ applied = [m \in Managers |-> applied[m]]
    /\ DOMAIN pending = Managers /\ pending = [m \in Managers |-> pending[m]]

\* The record of the manager that takes the step is on disk.
Carrying ==
    {"stop", "switch", "restart", "persist", "clear",
     "rb", "rb_switch", "rb_applied", "rb_process", "rb_clear"}

\* A command has not yet persisted what it activates.
Activating == {"pend", "stop", "switch", "restart", "persist"}

\* Links, applied.json and record of each manager, whatever the other one does.
RecordInv ==
    /\ \A m \in Managers :
          /\ ~Undecided(m) => current[m] = applied[m]
          /\ Undecided(m) =>
               /\ pending[m].target # None /\ pending[m].target # pending[m].prev
               /\ current[m] \in {pending[m].target, pending[m].prev}
               /\ applied[m] \in {pending[m].target, pending[m].prev}
    /\ pc \in Carrying => Undecided(who)
    /\ pc = "pend" => ~Undecided(who) /\ target # None /\ target # applied[who]
    /\ pc \in Activating \ {"pend"} => pending[who].target = target
    /\ pc \in {"stop", "switch"} => current[who] = Prev /\ applied[who] = Prev
    /\ pc \in {"restart", "persist"} => current[who] = target /\ applied[who] = Prev
    /\ pc = "clear" => Confirmed(who)
    /\ pc = "rb_applied" => current[who] = Prev
    /\ pc \in {"rb_process", "rb_clear"} => current[who] = Prev /\ applied[who] = Prev
    /\ pc \in Activating => mode = "command"
    /\ pc = "recover" => mode = "recover"

\* xrayupdate knows whether there is a configuration, and handles a process
\* only then.
HandledInv ==
    /\ pc \in Carrying \cup {"pend"} /\ who = Bundle => hasConfig = (applied[Config] # None)
    /\ pc = "stop" => who = Bundle /\ hasConfig
    /\ pc = "restart" => who = Config \/ hasConfig

\* The executable a bundle state file stands for.
Executable(b) == IF b = None THEN Bootstrap ELSE b

\* The configuration Xray runs or is started with, of every process that did
\* not outlive its replacement.
ConfigRuns ==
    xray # None /\ ~stale =>
        /\ ~Undecided(Config) => xray[1] = applied[Config]
        /\ Undecided(Config) => xray[1] \in {pending[Config].target, pending[Config].prev}
        /\ Undecided(Config) /\ Confirmed(Config) => xray[1] = applied[Config]
        /\ pc = "switch" /\ who = Config => xray[1] = applied[Config]
        /\ pc = "persist" /\ who = Config => xray[1] = target
        /\ pc = "rb_clear" /\ who = Config => xray[1] = Prev

\* The executable Xray runs, once it is known.
BundleRuns ==
    xray # None /\ xray[2] # None /\ ~stale =>
        /\ ~Undecided(Bundle) => xray[2] = Executable(applied[Bundle])
        /\ Undecided(Bundle) =>
             xray[2] \in {pending[Bundle].target, Executable(pending[Bundle].prev)}
        /\ /\ Undecided(Bundle) /\ applied[Bundle] = pending[Bundle].target
           /\ current[Bundle] \in {None, applied[Bundle]} /\ applied[Config] # None
           => xray[2] = applied[Bundle]
        /\ pc = "rb_clear" /\ who = Bundle /\ hasConfig => xray[2] = Executable(Prev)

\* What a restart within a command has shown before a link is recorded as
\* applied or a record removed.
ProcessInv ==
    /\ pc = "persist" /\ (who = Config \/ hasConfig) =>
         /\ xray # None => xray[2] \in {None, Active}
         /\ ~unproven => Selected \in works
    /\ /\ pc = "rb_clear" /\ applied[Config] # None /\ (who = Config \/ hasConfig)
       /\ ~unproven
       => Selected \in works

\* What is, or could become, confirmed together works together; a configuration
\* whose switch fails may still drop its record.
WorksInv ==
    /\ applied[Config] # None /\ ~unproven
    /\ \/ ~Undecided(Config) \/ Confirmed(Config)
       \/ pc = "switch" /\ who = Config
    /\ \/ ~Undecided(Bundle)
       \/ /\ applied[Bundle] = pending[Bundle].target
          /\ current[Bundle] \in {None, applied[Bundle]}
    => <<applied[Config], Executable(applied[Bundle])>> \in works

Inv ==
    TypeOK /\ ShapeInv /\ RecordInv /\ HandledInv /\ ConfigRuns /\ BundleRuns /\ ProcessInv
    /\ WorksInv

-----------------------------------------------------------------------------
(* The process controller *)

\* The pair that is selected, or comes of a start that has begun, is a pair
\* once it is known to work.
LEMMA WorkingPair ==
    ASSUME TypeOK, NEW x \in works
    PROVE  /\ x \in Starts \cup {None}
           /\ x \in Pairs /\ x # None /\ x[2] # None
BY ManagedAssumption DEF TypeOK, Pairs, Starts

\* StopAndWait changes nothing but the process, which it ends or leaves; what
\* outlives a success is marked.
LEMMA StopEffect ==
    ASSUME TypeOK, NEW next, NEW else, StopAndWait(next, else)
    PROVE  /\ xray' \in Starts \cup {None}
           /\ seen' \in BOOLEAN /\ stale' \in BOOLEAN /\ unproven' = unproven
           /\ faults' \in 0..MaxFaults
           /\ \/ pc' = next /\ xray' = None
              \/ pc' = next /\ xray' = xray /\ stale' = TRUE
              \/ pc' = else /\ xray' = xray /\ stale' = stale
<1>1. CASE seen /\ Recognised /\ Goto(next) /\ xray' = None /\ seen' = FALSE /\ stale' = FALSE
           /\ UNCHANGED unproven
  BY <1>1 DEF TypeOK, Goto
<1>2. CASE ~seen /\ Goto(next) /\ stale' = (xray # None) /\ UNCHANGED <<xray, seen, unproven>>
  <2>1. stale' \in BOOLEAN
    BY <1>2, Zenon
  <2>2. xray' = None \/ stale' = TRUE
    <3>1. CASE xray = None
      BY <1>2, <3>1
    <3>2. CASE xray # None
      BY <1>2, <3>2, Zenon
    <3> QED  BY <3>1, <3>2
  <2> QED  BY <1>2, <2>1, <2>2 DEF TypeOK, Goto
<1>3. CASE UNCHANGED process /\ (Goto(else) \/ Fault(else))
  BY <1>3, ManagedAssumption DEF TypeOK, Goto, Fault, process
<1> QED  BY <1>1, <1>2, <1>3 DEF StopAndWait

\* RestartAndWait succeeds with the selected pair, or with another one that
\* runs the active executable, which is marked; an error leaves the process.
LEMMA RestartEffect ==
    ASSUME TypeOK, NEW next, NEW else, RestartAndWait(next, else)
    PROVE  /\ xray' \in Starts \cup {None}
           /\ seen' \in BOOLEAN /\ stale' \in BOOLEAN /\ unproven' \in BOOLEAN
           /\ faults' \in 0..MaxFaults
           /\ \/ /\ pc' = next /\ Selected \in works /\ xray' = Selected
                 /\ stale' = FALSE /\ unproven' = FALSE
              \/ /\ pc' = next /\ xray' # None /\ xray'[2] = Active
                 /\ stale' = TRUE /\ unproven' = TRUE
              \/ pc' = else /\ xray' = xray /\ stale' = stale /\ unproven' = unproven
<1>1. CASE /\ Selected \in works /\ xray' = Selected /\ seen' = TRUE /\ stale' = FALSE
           /\ unproven' = FALSE /\ Goto(next)
  BY <1>1, WorkingPair DEF TypeOK, Goto
<1>2. CASE /\ Launched \in works /\ Launched[2] = Active
           /\ xray' = Launched /\ seen' = TRUE
           /\ stale' = (Launched # Selected) /\ unproven' = stale' /\ Goto(next)
  <2>1. /\ xray' \in Starts \cup {None}
        /\ xray' # None /\ xray'[2] = Active
    BY <1>2, WorkingPair
  <2>2. stale' \in BOOLEAN /\ unproven' \in BOOLEAN
    BY <1>2, Zenon
  <2>3. CASE Launched = Selected
    <3>1. stale' = FALSE /\ unproven' = FALSE
      BY <1>2, <2>3, Zenon
    <3> QED  BY <1>2, <2>1, <2>3, <3>1 DEF TypeOK, Goto
  <2>4. CASE Launched # Selected
    <3>1. stale' = TRUE /\ unproven' = TRUE
      BY <1>2, <2>4, Zenon
    <3> QED  BY <1>2, <2>1, <3>1 DEF TypeOK, Goto
  <2> QED  BY <2>3, <2>4
<1>3. CASE seen' = TRUE /\ UNCHANGED <<xray, stale, unproven>> /\ Goto(else)
  BY <1>3 DEF TypeOK, Goto
<1>4. CASE UNCHANGED process /\ (Goto(else) \/ Fault(else))
  BY <1>4, ManagedAssumption DEF TypeOK, Goto, Fault, process
<1> QED  BY <1>1, <1>2, <1>3, <1>4 DEF RestartAndWait

\* The steps that call the controller, by what they do.
LEMMA StopCurrentEffect ==
    ASSUME TypeOK, StopCurrent
    PROVE  /\ UNCHANGED <<works, validation, current, applied, pending>>
           /\ UNCHANGED <<who, mode, target, hasConfig>>
           /\ pc = "stop"
           /\ xray' \in Starts \cup {None} /\ seen' \in BOOLEAN /\ stale' \in BOOLEAN
           /\ unproven' = unproven /\ faults' \in 0..MaxFaults
           /\ \/ pc' = "switch" /\ xray' = None
              \/ pc' = "switch" /\ xray' = xray /\ stale' = TRUE
              \/ pc' = "rb" /\ xray' = xray /\ stale' = stale
BY StopEffect DEF StopCurrent, state

\* A restart of the candidate.
LEMMA ActivateEffect ==
    ASSUME TypeOK, Activate
    PROVE  /\ UNCHANGED <<works, validation, current, applied, pending>>
           /\ UNCHANGED <<who, mode, target, hasConfig>>
           /\ pc = "restart"
           /\ xray' \in Starts \cup {None} /\ seen' \in BOOLEAN /\ stale' \in BOOLEAN
           /\ unproven' \in BOOLEAN /\ faults' \in 0..MaxFaults
           /\ \/ /\ pc' = "persist" /\ Selected \in works /\ xray' = Selected
                 /\ stale' = FALSE /\ unproven' = FALSE
              \/ /\ pc' = "persist" /\ xray' # None /\ xray'[2] = Active
                 /\ stale' = TRUE /\ unproven' = TRUE
              \/ pc' = "rb" /\ xray' = xray /\ stale' = stale /\ unproven' = unproven
BY RestartEffect DEF Activate, state

\* The stop before a rollback of the bundle, and the link it may need.
LEMMA RollbackEffect ==
    ASSUME TypeOK, Rollback
    PROVE  /\ UNCHANGED <<works, validation, applied, pending, who, mode, target, hasConfig>>
           /\ pc = "rb"
           /\ xray' \in Starts \cup {None} /\ seen' \in BOOLEAN /\ stale' \in BOOLEAN
           /\ unproven' = unproven /\ faults' \in 0..MaxFaults
           /\ \/ xray' = None
              \/ xray' = xray /\ stale' = TRUE
              \/ xray' = xray /\ stale' = stale
           /\ \/ current' = current /\ pc' \in {"rb_switch", Failed}
              \/ /\ who = Bundle /\ hasConfig /\ pc' \in {"rb", Failed}
                 /\ applied[Bundle] = pending[Bundle].target /\ current[Bundle] = None
                 /\ current' \in {current, [current EXCEPT ![who] = applied[Bundle]]}
<1>1. CASE StopAndWait("rb_switch", Failed) /\ UNCHANGED current
  BY <1>1, StopEffect DEF Rollback
<1>2. CASE Goto("rb_switch") /\ UNCHANGED <<current, process>>
  BY <1>2 DEF Rollback, Goto, TypeOK, process
<1>3. CASE /\ who = Bundle /\ hasConfig
           /\ applied[Bundle] = pending[Bundle].target /\ current[Bundle] = None
           /\ Write(current, applied[Bundle], "rb", Failed) /\ UNCHANGED process
  BY <1>3, ManagedAssumption DEF Rollback, Write, Goto, Fault, TypeOK, process
<1> QED  BY <1>1, <1>2, <1>3 DEF Rollback

\* The process at the end of a rollback.
LEMMA RollbackProcessEffect ==
    ASSUME TypeOK, RollbackProcess
    PROVE  /\ UNCHANGED <<works, validation, current, applied, pending>>
           /\ UNCHANGED <<who, mode, target, hasConfig>>
           /\ pc = "rb_process"
           /\ xray' \in Starts \cup {None} /\ seen' \in BOOLEAN /\ stale' \in BOOLEAN
           /\ unproven' \in BOOLEAN /\ faults' \in 0..MaxFaults
           /\ \/ /\ pc' = "rb_clear" /\ who = Config /\ Prev = None
                 /\ xray' = None \/ stale' = TRUE
              \/ /\ pc' = "rb_clear" /\ who = Bundle /\ ~hasConfig
                 /\ xray' = xray /\ stale' = stale
              \/ /\ pc' = "rb_clear" /\ Selected \in works /\ xray' = Selected
                 /\ stale' = FALSE /\ unproven' = FALSE
              \/ /\ pc' = "rb_clear" /\ xray' # None /\ xray'[2] = Active
                 /\ stale' = TRUE /\ unproven' = TRUE
              \/ pc' = Failed /\ xray' = xray /\ stale' = stale /\ unproven' = unproven
<1>1. CASE who = Config /\ Prev = None /\ StopAndWait("rb_clear", Failed)
  BY <1>1, StopEffect DEF RollbackProcess, state, TypeOK
<1>2. CASE who = Bundle /\ ~hasConfig /\ Goto("rb_clear") /\ UNCHANGED process
  BY <1>2 DEF RollbackProcess, Goto, TypeOK, state, process
<1>3. CASE RestartAndWait("rb_clear", Failed)
  BY <1>3, RestartEffect DEF RollbackProcess, state
<1> QED  BY <1>1, <1>2, <1>3 DEF RollbackProcess, Config, Bundle

-----------------------------------------------------------------------------
(* One lemma per part of the invariant, one step per action *)

\* Every step keeps the type invariant.
LEMMA TypeStep ==
    ASSUME TypeOK, ShapeInv, [Next]_vars
    PROVE  TypeOK' /\ ShapeInv'
<1> USE ManagedAssumption
<1> USE DEF TypeOK, ShapeInv, Managers, Config, Bundle, Values, NoRecord, Pairs, Starts,
   Selected, Active, Startable, Recognised
<1>1. ASSUME NEW t \in Bundles, UpdateBundle(t)
      PROVE  TypeOK' /\ ShapeInv'
  BY <1>1 DEF UpdateBundle, Goto, Gate, ConfigKnown, state, process
<1>2. ASSUME NEW t \in Configs, ValidateConfig(t)
      PROVE  TypeOK' /\ ShapeInv'
  BY <1>2 DEF ValidateConfig, Validate, Goto, state, process
<1>3. ASSUME NEW t \in Configs, ApplyConfig(t)
      PROVE  TypeOK' /\ ShapeInv'
  BY <1>3 DEF ApplyConfig, Validate, Goto, state, process
<1>4. ASSUME NEW t \in Configs, ApplyAgain(t)
      PROVE  TypeOK' /\ ShapeInv'
  BY <1>4 DEF ApplyAgain, Validate, Goto, state, process
<1>5. CASE PersistPending
  BY <1>5 DEF PersistPending, Write, Goto, Fault, state, process
<1>6. CASE StopCurrent
  <2> HIDE DEF TypeOK, Selected, Active, Recognised
  <2>1. /\ xray' \in Starts \cup {None}
        /\ seen' \in BOOLEAN /\ stale' \in BOOLEAN
    BY <1>6, StopCurrentEffect, Zenon
  <2>2. unproven' \in BOOLEAN
    BY <1>6, StopCurrentEffect, Zenon DEF TypeOK
  <2>3. faults' \in 0..MaxFaults /\ pc' \in {"switch", "rb"}
    BY <1>6, StopCurrentEffect DEF Failed
  <2>4. UNCHANGED <<works, validation, current, applied, pending, who, mode, target, hasConfig>>
    BY <1>6, StopCurrentEffect
  <2> QED  BY <2>1, <2>2, <2>3, <2>4 DEF TypeOK
<1>7. CASE Switch
  BY <1>7 DEF Switch, Write, Goto, Fault, state, process
<1>8. CASE Activate
  <2> HIDE DEF TypeOK, Selected, Active, Recognised
  <2>1. /\ xray' \in Starts \cup {None}
        /\ seen' \in BOOLEAN /\ stale' \in BOOLEAN
    BY <1>8, ActivateEffect, Zenon
  <2>2. unproven' \in BOOLEAN
    BY <1>8, ActivateEffect, Zenon DEF TypeOK
  <2>3. faults' \in 0..MaxFaults /\ pc' \in {"persist", "rb"}
    BY <1>8, ActivateEffect DEF Failed
  <2>4. UNCHANGED <<works, validation, current, applied, pending, who, mode, target, hasConfig>>
    BY <1>8, ActivateEffect
  <2> QED  BY <2>1, <2>2, <2>3, <2>4 DEF TypeOK
<1>9. CASE PersistApplied
  BY <1>9 DEF PersistApplied, Write, Goto, Fault, state, process
<1>10. CASE Confirm
  BY <1>10 DEF Confirm, Decided, Write, Goto, Fault, Failed, state, process
<1>11. CASE Rollback
  <2> HIDE DEF TypeOK, Selected, Active, Recognised
  <2>1. /\ xray' \in Starts \cup {None}
        /\ seen' \in BOOLEAN /\ stale' \in BOOLEAN
    BY <1>11, RollbackEffect, Zenon
  <2>2. unproven' \in BOOLEAN
    BY <1>11, RollbackEffect, Zenon DEF TypeOK
  <2>3. faults' \in 0..MaxFaults /\ pc' \in {"rb", "rb_switch", "idle", "down"}
    BY <1>11, RollbackEffect DEF Failed
  <2>4. UNCHANGED <<works, validation, applied, pending, who, mode, target, hasConfig>>
    BY <1>11, RollbackEffect
  <2>5. \/ current' = current
        \/ /\ who = Bundle
           /\ current' \in {current, [current EXCEPT ![who] = applied[Bundle]]}
    BY <1>11, RollbackEffect, Zenon
  <2> QED  BY <2>1, <2>2, <2>3, <2>4, <2>5 DEF TypeOK
<1>12. CASE RollbackSwitch
  BY <1>12 DEF RollbackSwitch, Write, Goto, Fault, Failed, state, process, Prev
<1>13. CASE RollbackApplied
  BY <1>13 DEF RollbackApplied, Write, Goto, Fault, Failed, state, process, Prev
<1>14. CASE RollbackProcess
  <2> HIDE DEF TypeOK, Selected, Active, Recognised
  <2>1. /\ xray' \in Starts \cup {None}
        /\ seen' \in BOOLEAN /\ stale' \in BOOLEAN
    BY <1>14, RollbackProcessEffect, Zenon
  <2>2. unproven' \in BOOLEAN
    BY <1>14, RollbackProcessEffect, Zenon DEF TypeOK
  <2>3. faults' \in 0..MaxFaults /\ pc' \in {"rb_clear", "idle", "down"}
    BY <1>14, RollbackProcessEffect DEF Failed
  <2>4. UNCHANGED <<works, validation, current, applied, pending, who, mode, target, hasConfig>>
    BY <1>14, RollbackProcessEffect
  <2> QED  BY <2>1, <2>2, <2>3, <2>4 DEF TypeOK
<1>15. CASE RollbackClear
  BY <1>15 DEF RollbackClear, Decided, Write, Goto, Fault, Failed, state, process
<1>16. CASE Recover
  <2>1. hasConfig' \in BOOLEAN
    BY <1>16, Zenon DEF Recover
  <2>2. /\ UNCHANGED <<works, current, applied, pending, validation, process, faults>>
        /\ who' \in Managers /\ mode' \in {"command", "recover"} /\ target' = None
        /\ pc' \in {"idle", "down", "recover", "clear", "rb"}
    BY <1>16 DEF Recover, Goto, state
  <2> QED  BY <2>1, <2>2 DEF process
<1>17. CASE Restart
  BY <1>17 DEF Restart, Goto, state, process
<1>18. CASE Exit
  BY <1>18 DEF Exit, Goto, state, process
<1>19. CASE Crash
  BY <1>19 DEF Crash, Fault, state, process
<1>20. CASE SupervisorRead
  BY <1>20 DEF SupervisorRead, state, process
<1>21. CASE SupervisorStart
  BY <1>21 DEF SupervisorStart, Launched, state, process
<1>22. CASE SupervisorWritePID
  BY <1>22 DEF SupervisorWritePID, state, process
<1>23. CASE XrayExit
  <2>1. xray' = None /\ seen' \in BOOLEAN /\ stale' \in BOOLEAN
    BY <1>23, Zenon DEF XrayExit
  <2>2. UNCHANGED <<works, validation, state, unproven, pc, who, mode, target, hasConfig, faults>>
    BY <1>23 DEF XrayExit
  <2> QED  BY <2>1, <2>2 DEF state
<1>24. CASE UNCHANGED vars
  BY <1>24 DEF vars, state, process
<1> QED
  BY <1>1, <1>2, <1>3, <1>4, <1>5, <1>6, <1>7, <1>8, <1>9, <1>10, <1>11, <1>12, <1>13,
     <1>14, <1>15, <1>16, <1>17, <1>18, <1>19, <1>20, <1>21, <1>22, <1>23, <1>24
     DEF Next, Command, Step

\* Every step keeps the links, applied.json and record of each manager
\* together.
LEMMA RecordStep ==
    ASSUME TypeOK, ShapeInv, RecordInv, [Next]_vars
    PROVE  RecordInv'
<1> USE ManagedAssumption
<1> USE DEF TypeOK, ShapeInv, Managers, Config, Bundle, Values, NoRecord, RecordInv,
   Undecided, Prev, Confirmed, Carrying, Activating
<1>1. ASSUME NEW t \in Bundles, UpdateBundle(t)
      PROVE  RecordInv'
  BY <1>1 DEF UpdateBundle, Goto, Gate, ConfigKnown, state, process
<1>2. ASSUME NEW t \in Configs, ValidateConfig(t)
      PROVE  RecordInv'
  BY <1>2 DEF ValidateConfig, Validate, Goto, state, process
<1>3. ASSUME NEW t \in Configs, ApplyConfig(t)
      PROVE  RecordInv'
  BY <1>3 DEF ApplyConfig, Validate, Goto, state, process
<1>4. ASSUME NEW t \in Configs, ApplyAgain(t)
      PROVE  RecordInv'
  BY <1>4 DEF ApplyAgain, Validate, Goto, state, process
<1>5. CASE PersistPending
  BY <1>5 DEF PersistPending, Write, Goto, Fault, state, process
<1>6. CASE StopCurrent
  BY <1>6, StopCurrentEffect
<1>7. CASE Switch
  BY <1>7 DEF Switch, Write, Goto, Fault, state, process
<1>8. CASE Activate
  BY <1>8, ActivateEffect
<1>9. CASE PersistApplied
  BY <1>9 DEF PersistApplied, Write, Goto, Fault, state, process
<1>10. CASE Confirm
  BY <1>10 DEF Confirm, Decided, Write, Goto, Fault, Failed, state, process
<1>11. CASE Rollback
  <2>1. /\ UNCHANGED <<applied, pending, who, mode, target>>
        /\ pc = "rb" /\ pc' \in {"rb", "rb_switch", "idle", "down"}
    BY <1>11, RollbackEffect DEF Failed
  <2>2. CASE current' = current
    BY <2>1, <2>2
  <2>3. CASE /\ who = Bundle /\ applied[Bundle] = pending[Bundle].target
             /\ current' = [current EXCEPT ![Bundle] = applied[Bundle]]
    BY <2>1, <2>3
  <2> QED  BY <1>11, <2>2, <2>3, RollbackEffect
<1>12. CASE RollbackSwitch
  BY <1>12 DEF RollbackSwitch, Write, Goto, Fault, Failed, state, process
<1>13. CASE RollbackApplied
  BY <1>13 DEF RollbackApplied, Write, Goto, Fault, Failed, state, process
<1>14. CASE RollbackProcess
  BY <1>14, RollbackProcessEffect DEF Failed
<1>15. CASE RollbackClear
  BY <1>15 DEF RollbackClear, Decided, Write, Goto, Fault, Failed, state, process
<1>16. CASE Recover
  BY <1>16 DEF Recover, ConfigKnown, Goto, state, process
<1>17. CASE Restart
  BY <1>17 DEF Restart, Goto, state, process
<1>18. CASE Exit
  BY <1>18 DEF Exit, Goto, state, process
<1>19. CASE Crash
  BY <1>19 DEF Crash, Fault, state, process
<1>20. CASE SupervisorRead
  BY <1>20 DEF SupervisorRead, state, process
<1>21. CASE SupervisorStart
  BY <1>21 DEF SupervisorStart, Launched, state, process
<1>22. CASE SupervisorWritePID
  BY <1>22 DEF SupervisorWritePID, state, process
<1>23. CASE XrayExit
  BY <1>23 DEF XrayExit, state, process
<1>24. CASE UNCHANGED vars
  BY <1>24 DEF vars, state, process
<1> QED
  BY <1>1, <1>2, <1>3, <1>4, <1>5, <1>6, <1>7, <1>8, <1>9, <1>10, <1>11, <1>12, <1>13,
     <1>14, <1>15, <1>16, <1>17, <1>18, <1>19, <1>20, <1>21, <1>22, <1>23, <1>24
     DEF Next, Command, Step

\* Every step keeps what xrayupdate knows of the configuration.
LEMMA HandledStep ==
    ASSUME TypeOK, ShapeInv, RecordInv, HandledInv, [Next]_vars
    PROVE  HandledInv'
<1> USE ManagedAssumption
<1> USE DEF TypeOK, ShapeInv, Managers, Config, Bundle, Values, NoRecord, RecordInv,
   Undecided, Prev, Confirmed, Carrying, Activating, HandledInv
<1>1. ASSUME NEW t \in Bundles, UpdateBundle(t)
      PROVE  HandledInv'
  BY <1>1 DEF UpdateBundle, Goto, Gate, ConfigKnown, state, process
<1>2. ASSUME NEW t \in Configs, ValidateConfig(t)
      PROVE  HandledInv'
  BY <1>2 DEF ValidateConfig, Validate, Goto, state, process
<1>3. ASSUME NEW t \in Configs, ApplyConfig(t)
      PROVE  HandledInv'
  BY <1>3 DEF ApplyConfig, Validate, Goto, state, process
<1>4. ASSUME NEW t \in Configs, ApplyAgain(t)
      PROVE  HandledInv'
  BY <1>4 DEF ApplyAgain, Validate, Goto, state, process
<1>5. CASE PersistPending
  BY <1>5 DEF PersistPending, Write, Goto, Fault, state, process
<1>6. CASE StopCurrent
  BY <1>6, StopCurrentEffect
<1>7. CASE Switch
  BY <1>7 DEF Switch, Write, Goto, Fault, state, process
<1>8. CASE Activate
  BY <1>8, ActivateEffect
<1>9. CASE PersistApplied
  BY <1>9 DEF PersistApplied, Write, Goto, Fault, state, process
<1>10. CASE Confirm
  BY <1>10 DEF Confirm, Decided, Write, Goto, Fault, Failed, state, process
<1>11. CASE Rollback
  BY <1>11, RollbackEffect DEF Failed
<1>12. CASE RollbackSwitch
  BY <1>12 DEF RollbackSwitch, Write, Goto, Fault, Failed, state, process
<1>13. CASE RollbackApplied
  BY <1>13 DEF RollbackApplied, Write, Goto, Fault, Failed, state, process
<1>14. CASE RollbackProcess
  BY <1>14, RollbackProcessEffect DEF Failed
<1>15. CASE RollbackClear
  BY <1>15 DEF RollbackClear, Decided, Write, Goto, Fault, Failed, state, process
<1>16. CASE Recover
  BY <1>16 DEF Recover, ConfigKnown, Goto, state, process
<1>17. CASE Restart
  BY <1>17 DEF Restart, Goto, state, process
<1>18. CASE Exit
  BY <1>18 DEF Exit, Goto, state, process
<1>19. CASE Crash
  BY <1>19 DEF Crash, Fault, state, process
<1>20. CASE SupervisorRead
  BY <1>20 DEF SupervisorRead, state, process
<1>21. CASE SupervisorStart
  BY <1>21 DEF SupervisorStart, Launched, state, process
<1>22. CASE SupervisorWritePID
  BY <1>22 DEF SupervisorWritePID, state, process
<1>23. CASE XrayExit
  BY <1>23 DEF XrayExit, state, process
<1>24. CASE UNCHANGED vars
  BY <1>24 DEF vars, state, process
<1> QED
  BY <1>1, <1>2, <1>3, <1>4, <1>5, <1>6, <1>7, <1>8, <1>9, <1>10, <1>11, <1>12, <1>13,
     <1>14, <1>15, <1>16, <1>17, <1>18, <1>19, <1>20, <1>21, <1>22, <1>23, <1>24
     DEF Next, Command, Step

\* Every step keeps Xray on a configuration the records account for.
LEMMA ConfigStep ==
    ASSUME TypeOK, ShapeInv, RecordInv, HandledInv, ProcessInv, ConfigRuns, [Next]_vars
    PROVE  ConfigRuns'
<1> USE ManagedAssumption
<1> USE DEF TypeOK, ShapeInv, Managers, Config, Bundle, Values, NoRecord, RecordInv,
   Undecided, Prev, Confirmed, Carrying, Activating, HandledInv, ProcessInv, Pairs,
   Selected, Active, Startable, Recognised, ConfigRuns
<1>1. ASSUME NEW t \in Bundles, UpdateBundle(t)
      PROVE  ConfigRuns'
  BY <1>1 DEF UpdateBundle, Goto, Gate, ConfigKnown, state, process
<1>2. ASSUME NEW t \in Configs, ValidateConfig(t)
      PROVE  ConfigRuns'
  BY <1>2 DEF ValidateConfig, Validate, Goto, state, process
<1>3. ASSUME NEW t \in Configs, ApplyConfig(t)
      PROVE  ConfigRuns'
  BY <1>3 DEF ApplyConfig, Validate, Goto, state, process
<1>4. ASSUME NEW t \in Configs, ApplyAgain(t)
      PROVE  ConfigRuns'
  BY <1>4 DEF ApplyAgain, Validate, Goto, state, process
<1>5. CASE PersistPending
  BY <1>5 DEF PersistPending, Write, Goto, Fault, state, process
<1>6. CASE StopCurrent
  BY <1>6, StopCurrentEffect
<1>7. CASE Switch
  BY <1>7 DEF Switch, Write, Goto, Fault, state, process
<1>8. CASE Activate
  <2>1. UNCHANGED <<works, validation, current, applied, pending, who, mode, target, hasConfig>>
        /\ pc = "restart"
    BY <1>8, ActivateEffect
  <2>2. CASE /\ pc' = "persist" /\ Selected \in works /\ xray' = Selected
             /\ stale' = FALSE /\ unproven' = FALSE
    BY <2>1, <2>2
  <2>3. CASE /\ pc' = "persist" /\ xray' # None /\ xray'[2] = Active
             /\ stale' = TRUE /\ unproven' = TRUE
    BY <2>1, <2>3
  <2>4. CASE pc' = "rb" /\ xray' = xray /\ stale' = stale /\ unproven' = unproven
    BY <2>1, <2>4
  <2> QED  BY <1>8, <2>2, <2>3, <2>4, ActivateEffect
<1>9. CASE PersistApplied
  BY <1>9 DEF PersistApplied, Write, Goto, Fault, state, process
<1>10. CASE Confirm
  BY <1>10 DEF Confirm, Decided, Write, Goto, Fault, Failed, state, process
<1>11. CASE Rollback
  <2>1. /\ UNCHANGED <<works, applied, pending, who, mode, target, hasConfig, unproven>>
        /\ pc = "rb" /\ pc' \in {"rb", "rb_switch", "idle", "down"}
    BY <1>11, RollbackEffect DEF Failed
  <2>2. xray' # None /\ ~stale' => xray' = xray /\ ~stale
    BY <1>11, RollbackEffect
  <2>3. CASE current' = current
    BY <2>1, <2>2, <2>3
  <2>4. CASE /\ who = Bundle /\ applied[Bundle] = pending[Bundle].target
             /\ current[Bundle] = None
             /\ current' = [current EXCEPT ![Bundle] = applied[Bundle]]
    BY <2>1, <2>2, <2>4
  <2> QED  BY <1>11, <2>3, <2>4, RollbackEffect
<1>12. CASE RollbackSwitch
  BY <1>12 DEF RollbackSwitch, Write, Goto, Fault, Failed, state, process
<1>13. CASE RollbackApplied
  BY <1>13 DEF RollbackApplied, Write, Goto, Fault, Failed, state, process
<1>14. CASE RollbackProcess
  <2>1. UNCHANGED <<works, validation, current, applied, pending, who, mode, target, hasConfig>>
        /\ pc = "rb_process"
    BY <1>14, RollbackProcessEffect
  <2>2. CASE /\ pc' = "rb_clear" /\ who = Config /\ Prev = None
             /\ xray' = None \/ stale' = TRUE
    BY <2>1, <2>2 DEF Failed
  <2>3. CASE /\ pc' = "rb_clear" /\ who = Bundle /\ ~hasConfig
             /\ xray' = xray /\ stale' = stale
    BY <2>1, <2>3 DEF Failed
  <2>4. CASE /\ pc' = "rb_clear" /\ Selected \in works /\ xray' = Selected
             /\ stale' = FALSE /\ unproven' = FALSE
    BY <2>1, <2>4 DEF Failed
  <2>5. CASE /\ pc' = "rb_clear" /\ xray' # None /\ xray'[2] = Active
             /\ stale' = TRUE /\ unproven' = TRUE
    BY <2>1, <2>5 DEF Failed
  <2>6. CASE pc' = Failed /\ xray' = xray /\ stale' = stale /\ unproven' = unproven
    BY <2>1, <2>6 DEF Failed
  <2> QED  BY <1>14, <2>2, <2>3, <2>4, <2>5, <2>6, RollbackProcessEffect
<1>15. CASE RollbackClear
  BY <1>15 DEF RollbackClear, Decided, Write, Goto, Fault, Failed, state, process
<1>16. CASE Recover
  BY <1>16 DEF Recover, ConfigKnown, Goto, state, process
<1>17. CASE Restart
  BY <1>17 DEF Restart, Goto, state, process
<1>18. CASE Exit
  BY <1>18 DEF Exit, Goto, state, process
<1>19. CASE Crash
  BY <1>19 DEF Crash, Fault, state, process
<1>20. CASE SupervisorRead
  BY <1>20 DEF SupervisorRead, state, process
<1>21. CASE SupervisorStart
  BY <1>21 DEF SupervisorStart, Launched, state, process
<1>22. CASE SupervisorWritePID
  BY <1>22 DEF SupervisorWritePID, state, process
<1>23. CASE XrayExit
  BY <1>23 DEF XrayExit, state, process
<1>24. CASE UNCHANGED vars
  BY <1>24 DEF vars, state, process
<1> QED
  BY <1>1, <1>2, <1>3, <1>4, <1>5, <1>6, <1>7, <1>8, <1>9, <1>10, <1>11, <1>12, <1>13,
     <1>14, <1>15, <1>16, <1>17, <1>18, <1>19, <1>20, <1>21, <1>22, <1>23, <1>24
     DEF Next, Command, Step

\* Every step keeps Xray on an executable the records account for.
LEMMA BundleStep ==
    ASSUME TypeOK, ShapeInv, RecordInv, HandledInv, ProcessInv, ConfigRuns, BundleRuns,
           [Next]_vars
    PROVE  BundleRuns'
<1> USE ManagedAssumption
<1> USE DEF TypeOK, ShapeInv, Managers, Config, Bundle, Values, NoRecord, RecordInv,
   Undecided, Prev, Confirmed, Carrying, Activating, HandledInv, ProcessInv, Pairs,
   Selected, Active, Startable, Recognised, ConfigRuns, BundleRuns, Executable
<1>1. ASSUME NEW t \in Bundles, UpdateBundle(t)
      PROVE  BundleRuns'
  BY <1>1 DEF UpdateBundle, Goto, Gate, ConfigKnown, state, process
<1>2. ASSUME NEW t \in Configs, ValidateConfig(t)
      PROVE  BundleRuns'
  BY <1>2 DEF ValidateConfig, Validate, Goto, state, process
<1>3. ASSUME NEW t \in Configs, ApplyConfig(t)
      PROVE  BundleRuns'
  BY <1>3 DEF ApplyConfig, Validate, Goto, state, process
<1>4. ASSUME NEW t \in Configs, ApplyAgain(t)
      PROVE  BundleRuns'
  BY <1>4 DEF ApplyAgain, Validate, Goto, state, process
<1>5. CASE PersistPending
  BY <1>5 DEF PersistPending, Write, Goto, Fault, state, process
<1>6. CASE StopCurrent
  BY <1>6, StopCurrentEffect
<1>7. CASE Switch
  BY <1>7 DEF Switch, Write, Goto, Fault, state, process
<1>8. CASE Activate
  <2>1. UNCHANGED <<works, validation, current, applied, pending, who, mode, target, hasConfig>>
        /\ pc = "restart"
    BY <1>8, ActivateEffect
  <2>2. CASE /\ pc' = "persist" /\ Selected \in works /\ xray' = Selected
             /\ stale' = FALSE /\ unproven' = FALSE
    BY <2>1, <2>2
  <2>3. CASE /\ pc' = "persist" /\ xray' # None /\ xray'[2] = Active
             /\ stale' = TRUE /\ unproven' = TRUE
    BY <2>1, <2>3
  <2>4. CASE pc' = "rb" /\ xray' = xray /\ stale' = stale /\ unproven' = unproven
    BY <2>1, <2>4
  <2> QED  BY <1>8, <2>2, <2>3, <2>4, ActivateEffect
<1>9. CASE PersistApplied
  BY <1>9 DEF PersistApplied, Write, Goto, Fault, state, process
<1>10. CASE Confirm
  <2>1. /\ UNCHANGED <<works, validation, current, applied, who, mode, target, hasConfig, xray>>
        /\ pc = "clear" /\ pc' \in {"idle", "recover", "down"}
        /\ pending' \in {pending, [pending EXCEPT ![who] = NoRecord]}
    BY <1>10 DEF Confirm, Decided, Write, Goto, Fault, Failed
  <2>2. /\ stale => stale'
        /\ /\ pending'[who] = NoRecord /\ who = Bundle /\ applied[Config] = None
           /\ xray # None /\ xray[2] \notin {None, Active}
           => stale'
    BY <1>10, Zenon DEF Confirm, Decided
  <2>3. CASE who = Config
    BY <2>1, <2>2, <2>3
  <2>4. CASE who = Bundle /\ pending' = pending
    BY <2>1, <2>2, <2>4
  <2>5. CASE who = Bundle /\ pending' # pending
    BY <2>1, <2>2, <2>5
  <2> QED  BY <2>3, <2>4, <2>5
<1>11. CASE Rollback
  <2>1. /\ UNCHANGED <<works, applied, pending, who, mode, target, hasConfig, unproven>>
        /\ pc = "rb" /\ pc' \in {"rb", "rb_switch", "idle", "down"}
    BY <1>11, RollbackEffect DEF Failed
  <2>2. xray' # None /\ ~stale' => xray' = xray /\ ~stale
    BY <1>11, RollbackEffect
  <2>3. CASE current' = current
    BY <2>1, <2>2, <2>3
  <2>4. CASE /\ who = Bundle /\ applied[Bundle] = pending[Bundle].target
             /\ current[Bundle] = None
             /\ current' = [current EXCEPT ![Bundle] = applied[Bundle]]
    BY <2>1, <2>2, <2>4
  <2> QED  BY <1>11, <2>3, <2>4, RollbackEffect
<1>12. CASE RollbackSwitch
  BY <1>12 DEF RollbackSwitch, Write, Goto, Fault, Failed, state, process
<1>13. CASE RollbackApplied
  BY <1>13 DEF RollbackApplied, Write, Goto, Fault, Failed, state, process
<1>14. CASE RollbackProcess
  <2>1. UNCHANGED <<works, validation, current, applied, pending, who, mode, target, hasConfig>>
        /\ pc = "rb_process"
    BY <1>14, RollbackProcessEffect
  <2>2. CASE /\ pc' = "rb_clear" /\ who = Config /\ Prev = None
             /\ xray' = None \/ stale' = TRUE
    BY <2>1, <2>2 DEF Failed
  <2>3. CASE /\ pc' = "rb_clear" /\ who = Bundle /\ ~hasConfig
             /\ xray' = xray /\ stale' = stale
    BY <2>1, <2>3 DEF Failed
  <2>4. CASE /\ pc' = "rb_clear" /\ Selected \in works /\ xray' = Selected
             /\ stale' = FALSE /\ unproven' = FALSE
    BY <2>1, <2>4 DEF Failed
  <2>5. CASE /\ pc' = "rb_clear" /\ xray' # None /\ xray'[2] = Active
             /\ stale' = TRUE /\ unproven' = TRUE
    BY <2>1, <2>5 DEF Failed
  <2>6. CASE pc' = Failed /\ xray' = xray /\ stale' = stale /\ unproven' = unproven
    BY <2>1, <2>6 DEF Failed
  <2> QED  BY <1>14, <2>2, <2>3, <2>4, <2>5, <2>6, RollbackProcessEffect
<1>15. CASE RollbackClear
  <2>1. /\ UNCHANGED <<works, validation, current, applied, who, mode, target, hasConfig, xray>>
        /\ pc = "rb_clear" /\ pc' \in {"idle", "recover", "down"}
        /\ pending' \in {pending, [pending EXCEPT ![who] = NoRecord]}
    BY <1>15 DEF RollbackClear, Decided, Write, Goto, Fault, Failed
  <2>2. /\ stale => stale'
        /\ /\ pending'[who] = NoRecord /\ who = Bundle /\ applied[Config] = None
           /\ xray # None /\ xray[2] \notin {None, Active}
           => stale'
    BY <1>15, Zenon DEF RollbackClear, Decided
  <2>3. CASE who = Config
    BY <2>1, <2>2, <2>3
  <2>4. CASE who = Bundle /\ pending' = pending
    BY <2>1, <2>2, <2>4
  <2>5. CASE who = Bundle /\ pending' # pending
    BY <2>1, <2>2, <2>5
  <2> QED  BY <2>3, <2>4, <2>5
<1>16. CASE Recover
  BY <1>16 DEF Recover, ConfigKnown, Goto, state, process
<1>17. CASE Restart
  BY <1>17 DEF Restart, Goto, state, process
<1>18. CASE Exit
  BY <1>18 DEF Exit, Goto, state, process
<1>19. CASE Crash
  BY <1>19 DEF Crash, Fault, state, process
<1>20. CASE SupervisorRead
  BY <1>20 DEF SupervisorRead, state, process
<1>21. CASE SupervisorStart
  BY <1>21 DEF SupervisorStart, Launched, state, process
<1>22. CASE SupervisorWritePID
  BY <1>22 DEF SupervisorWritePID, state, process
<1>23. CASE XrayExit
  BY <1>23 DEF XrayExit, state, process
<1>24. CASE UNCHANGED vars
  BY <1>24 DEF vars, state, process
<1> QED
  BY <1>1, <1>2, <1>3, <1>4, <1>5, <1>6, <1>7, <1>8, <1>9, <1>10, <1>11, <1>12, <1>13,
     <1>14, <1>15, <1>16, <1>17, <1>18, <1>19, <1>20, <1>21, <1>22, <1>23, <1>24
     DEF Next, Command, Step

\* Every step keeps the process where the command expects it.
LEMMA ProcessStep ==
    ASSUME TypeOK, ShapeInv, RecordInv, HandledInv, ProcessInv, [Next]_vars
    PROVE  ProcessInv'
<1> USE ManagedAssumption
<1> USE DEF TypeOK, ShapeInv, Managers, Config, Bundle, Values, NoRecord, RecordInv,
   Undecided, Prev, Confirmed, Carrying, Activating, HandledInv, ProcessInv, Pairs,
   Selected, Active, Startable, Recognised
<1>1. ASSUME NEW t \in Bundles, UpdateBundle(t)
      PROVE  ProcessInv'
  BY <1>1 DEF UpdateBundle, Goto, Gate, ConfigKnown, state, process
<1>2. ASSUME NEW t \in Configs, ValidateConfig(t)
      PROVE  ProcessInv'
  BY <1>2 DEF ValidateConfig, Validate, Goto, state, process
<1>3. ASSUME NEW t \in Configs, ApplyConfig(t)
      PROVE  ProcessInv'
  BY <1>3 DEF ApplyConfig, Validate, Goto, state, process
<1>4. ASSUME NEW t \in Configs, ApplyAgain(t)
      PROVE  ProcessInv'
  BY <1>4 DEF ApplyAgain, Validate, Goto, state, process
<1>5. CASE PersistPending
  BY <1>5 DEF PersistPending, Write, Goto, Fault, state, process
<1>6. CASE StopCurrent
  BY <1>6, StopCurrentEffect
<1>7. CASE Switch
  BY <1>7 DEF Switch, Write, Goto, Fault, state, process
<1>8. CASE Activate
  <2>1. UNCHANGED <<works, validation, current, applied, pending, who, mode, target, hasConfig>>
        /\ pc = "restart"
    BY <1>8, ActivateEffect
  <2>2. CASE /\ pc' = "persist" /\ Selected \in works /\ xray' = Selected
             /\ stale' = FALSE /\ unproven' = FALSE
    BY <2>1, <2>2
  <2>3. CASE /\ pc' = "persist" /\ xray' # None /\ xray'[2] = Active
             /\ stale' = TRUE /\ unproven' = TRUE
    BY <2>1, <2>3
  <2>4. CASE pc' = "rb" /\ xray' = xray /\ stale' = stale /\ unproven' = unproven
    BY <2>1, <2>4
  <2> QED  BY <1>8, <2>2, <2>3, <2>4, ActivateEffect
<1>9. CASE PersistApplied
  BY <1>9 DEF PersistApplied, Write, Goto, Fault, state, process
<1>10. CASE Confirm
  BY <1>10 DEF Confirm, Decided, Write, Goto, Fault, Failed, state, process
<1>11. CASE Rollback
  <2>1. /\ UNCHANGED <<works, applied, pending, who, mode, target, hasConfig, unproven>>
        /\ pc = "rb" /\ pc' \in {"rb", "rb_switch", "idle", "down"}
    BY <1>11, RollbackEffect DEF Failed
  <2>2. xray' # None /\ ~stale' => xray' = xray /\ ~stale
    BY <1>11, RollbackEffect
  <2>3. CASE current' = current
    BY <2>1, <2>2, <2>3
  <2>4. CASE /\ who = Bundle /\ applied[Bundle] = pending[Bundle].target
             /\ current[Bundle] = None
             /\ current' = [current EXCEPT ![Bundle] = applied[Bundle]]
    BY <2>1, <2>2, <2>4
  <2> QED  BY <1>11, <2>3, <2>4, RollbackEffect
<1>12. CASE RollbackSwitch
  BY <1>12 DEF RollbackSwitch, Write, Goto, Fault, Failed, state, process
<1>13. CASE RollbackApplied
  BY <1>13 DEF RollbackApplied, Write, Goto, Fault, Failed, state, process
<1>14. CASE RollbackProcess
  <2>1. UNCHANGED <<works, validation, current, applied, pending, who, mode, target, hasConfig>>
        /\ pc = "rb_process"
    BY <1>14, RollbackProcessEffect
  <2>2. CASE /\ pc' = "rb_clear" /\ who = Config /\ Prev = None
             /\ xray' = None \/ stale' = TRUE
    BY <2>1, <2>2 DEF Failed
  <2>3. CASE /\ pc' = "rb_clear" /\ who = Bundle /\ ~hasConfig
             /\ xray' = xray /\ stale' = stale
    BY <2>1, <2>3 DEF Failed
  <2>4. CASE /\ pc' = "rb_clear" /\ Selected \in works /\ xray' = Selected
             /\ stale' = FALSE /\ unproven' = FALSE
    BY <2>1, <2>4 DEF Failed
  <2>5. CASE /\ pc' = "rb_clear" /\ xray' # None /\ xray'[2] = Active
             /\ stale' = TRUE /\ unproven' = TRUE
    BY <2>1, <2>5 DEF Failed
  <2>6. CASE pc' = Failed /\ xray' = xray /\ stale' = stale /\ unproven' = unproven
    BY <2>1, <2>6 DEF Failed
  <2> QED  BY <1>14, <2>2, <2>3, <2>4, <2>5, <2>6, RollbackProcessEffect
<1>15. CASE RollbackClear
  BY <1>15 DEF RollbackClear, Decided, Write, Goto, Fault, Failed, state, process
<1>16. CASE Recover
  BY <1>16 DEF Recover, ConfigKnown, Goto, state, process
<1>17. CASE Restart
  BY <1>17 DEF Restart, Goto, state, process
<1>18. CASE Exit
  BY <1>18 DEF Exit, Goto, state, process
<1>19. CASE Crash
  BY <1>19 DEF Crash, Fault, state, process
<1>20. CASE SupervisorRead
  BY <1>20 DEF SupervisorRead, state, process
<1>21. CASE SupervisorStart
  BY <1>21 DEF SupervisorStart, Launched, state, process
<1>22. CASE SupervisorWritePID
  BY <1>22 DEF SupervisorWritePID, state, process
<1>23. CASE XrayExit
  BY <1>23 DEF XrayExit, state, process
<1>24. CASE UNCHANGED vars
  BY <1>24 DEF vars, state, process
<1> QED
  BY <1>1, <1>2, <1>3, <1>4, <1>5, <1>6, <1>7, <1>8, <1>9, <1>10, <1>11, <1>12, <1>13,
     <1>14, <1>15, <1>16, <1>17, <1>18, <1>19, <1>20, <1>21, <1>22, <1>23, <1>24
     DEF Next, Command, Step

\* Every step keeps confirmed pairs working ones.
LEMMA WorksStep ==
    ASSUME TypeOK, ShapeInv, RecordInv, HandledInv, ProcessInv, WorksInv, [Next]_vars
    PROVE  WorksInv'
<1> USE ManagedAssumption
<1> USE DEF TypeOK, ShapeInv, Managers, Config, Bundle, Values, NoRecord, RecordInv,
   Undecided, Prev, Confirmed, Carrying, Activating, HandledInv, ProcessInv, Pairs,
   Selected, Active, Startable, Recognised, WorksInv, Executable
<1>1. ASSUME NEW t \in Bundles, UpdateBundle(t)
      PROVE  WorksInv'
  BY <1>1 DEF UpdateBundle, Goto, Gate, ConfigKnown, state, process
<1>2. ASSUME NEW t \in Configs, ValidateConfig(t)
      PROVE  WorksInv'
  BY <1>2 DEF ValidateConfig, Validate, Goto, state, process
<1>3. ASSUME NEW t \in Configs, ApplyConfig(t)
      PROVE  WorksInv'
  BY <1>3 DEF ApplyConfig, Validate, Goto, state, process
<1>4. ASSUME NEW t \in Configs, ApplyAgain(t)
      PROVE  WorksInv'
  BY <1>4 DEF ApplyAgain, Validate, Goto, state, process
<1>5. CASE PersistPending
  BY <1>5 DEF PersistPending, Write, Goto, Fault, state, process
<1>6. CASE StopCurrent
  BY <1>6, StopCurrentEffect
<1>7. CASE Switch
  BY <1>7 DEF Switch, Write, Goto, Fault, state, process
<1>8. CASE Activate
  <2>1. UNCHANGED <<works, validation, current, applied, pending, who, mode, target, hasConfig>>
        /\ pc = "restart"
    BY <1>8, ActivateEffect
  <2>2. CASE /\ pc' = "persist" /\ Selected \in works /\ xray' = Selected
             /\ stale' = FALSE /\ unproven' = FALSE
    BY <2>1, <2>2
  <2>3. CASE /\ pc' = "persist" /\ xray' # None /\ xray'[2] = Active
             /\ stale' = TRUE /\ unproven' = TRUE
    BY <2>1, <2>3
  <2>4. CASE pc' = "rb" /\ xray' = xray /\ stale' = stale /\ unproven' = unproven
    BY <2>1, <2>4
  <2> QED  BY <1>8, <2>2, <2>3, <2>4, ActivateEffect
<1>9. CASE PersistApplied
  BY <1>9 DEF PersistApplied, Write, Goto, Fault, state, process
<1>10. CASE Confirm
  BY <1>10 DEF Confirm, Decided, Write, Goto, Fault, Failed, state, process
<1>11. CASE Rollback
  <2>1. /\ UNCHANGED <<works, applied, pending, who, mode, target, hasConfig, unproven>>
        /\ pc = "rb" /\ pc' \in {"rb", "rb_switch", "idle", "down"}
    BY <1>11, RollbackEffect DEF Failed
  <2>2. xray' # None /\ ~stale' => xray' = xray /\ ~stale
    BY <1>11, RollbackEffect
  <2>3. CASE current' = current
    BY <2>1, <2>2, <2>3
  <2>4. CASE /\ who = Bundle /\ applied[Bundle] = pending[Bundle].target
             /\ current[Bundle] = None
             /\ current' = [current EXCEPT ![Bundle] = applied[Bundle]]
    BY <2>1, <2>2, <2>4
  <2> QED  BY <1>11, <2>3, <2>4, RollbackEffect
<1>12. CASE RollbackSwitch
  BY <1>12 DEF RollbackSwitch, Write, Goto, Fault, Failed, state, process
<1>13. CASE RollbackApplied
  BY <1>13 DEF RollbackApplied, Write, Goto, Fault, Failed, state, process
<1>14. CASE RollbackProcess
  <2>1. UNCHANGED <<works, validation, current, applied, pending, who, mode, target, hasConfig>>
        /\ pc = "rb_process"
    BY <1>14, RollbackProcessEffect
  <2>2. CASE /\ pc' = "rb_clear" /\ who = Config /\ Prev = None
             /\ xray' = None \/ stale' = TRUE
    BY <2>1, <2>2 DEF Failed
  <2>3. CASE /\ pc' = "rb_clear" /\ who = Bundle /\ ~hasConfig
             /\ xray' = xray /\ stale' = stale
    BY <2>1, <2>3 DEF Failed
  <2>4. CASE /\ pc' = "rb_clear" /\ Selected \in works /\ xray' = Selected
             /\ stale' = FALSE /\ unproven' = FALSE
    BY <2>1, <2>4 DEF Failed
  <2>5. CASE /\ pc' = "rb_clear" /\ xray' # None /\ xray'[2] = Active
             /\ stale' = TRUE /\ unproven' = TRUE
    BY <2>1, <2>5 DEF Failed
  <2>6. CASE pc' = Failed /\ xray' = xray /\ stale' = stale /\ unproven' = unproven
    BY <2>1, <2>6 DEF Failed
  <2> QED  BY <1>14, <2>2, <2>3, <2>4, <2>5, <2>6, RollbackProcessEffect
<1>15. CASE RollbackClear
  BY <1>15 DEF RollbackClear, Decided, Write, Goto, Fault, Failed, state, process
<1>16. CASE Recover
  BY <1>16 DEF Recover, ConfigKnown, Goto, state, process
<1>17. CASE Restart
  BY <1>17 DEF Restart, Goto, state, process
<1>18. CASE Exit
  BY <1>18 DEF Exit, Goto, state, process
<1>19. CASE Crash
  BY <1>19 DEF Crash, Fault, state, process
<1>20. CASE SupervisorRead
  BY <1>20 DEF SupervisorRead, state, process
<1>21. CASE SupervisorStart
  BY <1>21 DEF SupervisorStart, Launched, state, process
<1>22. CASE SupervisorWritePID
  BY <1>22 DEF SupervisorWritePID, state, process
<1>23. CASE XrayExit
  BY <1>23 DEF XrayExit, state, process
<1>24. CASE UNCHANGED vars
  BY <1>24 DEF vars, state, process
<1> QED
  BY <1>1, <1>2, <1>3, <1>4, <1>5, <1>6, <1>7, <1>8, <1>9, <1>10, <1>11, <1>12, <1>13,
     <1>14, <1>15, <1>16, <1>17, <1>18, <1>19, <1>20, <1>21, <1>22, <1>23, <1>24
     DEF Next, Command, Step

-----------------------------------------------------------------------------
(* Theorems *)

\* Every reachable state of the two managers and the process satisfies the
\* inductive invariant.
THEOREM Invariance == Spec => []Inv
<1>1. Init => Inv
  <2> SUFFICES ASSUME Init PROVE Inv
    OBVIOUS
  <2> USE ManagedAssumption DEF Init, Managers, Config, Bundle, NoRecord
  <2>1. TypeOK /\ ShapeInv
    <3>1. validation \in [ver : Values(Config), ok : BOOLEAN] /\ hasConfig \in BOOLEAN
      BY DEF Values
    <3>2. /\ DOMAIN current = Managers /\ DOMAIN applied = Managers /\ DOMAIN pending = Managers
          /\ \A m \in Managers : current[m] = None /\ applied[m] = None /\ pending[m] = NoRecord
      OBVIOUS
    <3>3. ShapeInv
      BY <3>2 DEF ShapeInv
    <3>4. works \subseteq Loads /\ xray = None /\ faults \in 0..MaxFaults
      OBVIOUS
    <3> QED  BY <3>1, <3>2, <3>3, <3>4 DEF TypeOK, Values
  <2>2. RecordInv /\ HandledInv
    BY DEF RecordInv, HandledInv, Undecided, Carrying, Activating
  <2>3. ConfigRuns /\ BundleRuns /\ ProcessInv /\ WorksInv
    BY DEF ConfigRuns, BundleRuns, ProcessInv, WorksInv
  <2> QED  BY <2>1, <2>2, <2>3 DEF Inv
<1>2. Inv /\ [Next]_vars => Inv'
  BY TypeStep, RecordStep, HandledStep, ConfigStep, BundleStep, ProcessStep, WorksStep DEF Inv
<1> QED  BY <1>1, <1>2, PTL DEF Spec

\* Links, state files and records of both managers stay well formed.
THEOREM TypeCorrect == Spec => []TypeOK
<1>1. Inv => TypeOK
  BY DEF Inv
<1> QED  BY <1>1, Invariance, PTL

\* Between commands and while the agent is down, with both managers decided,
\* Xray runs the applied configuration with the applied bundle, whichever
\* manager restarted it last and whatever failed before; only a process that
\* the controller did not see, or that an update without an applied
\* configuration left alone, may run another pair until it ends.
THEOREM XrayRunsWhatIsApplied == Spec => []RunsWhatIsApplied
<1>1. Inv => RunsWhatIsApplied
  BY DEF Inv, ConfigRuns, BundleRuns, Executable, RunsWhatIsApplied
<1> QED  BY <1>1, Invariance, PTL

\* A configuration and a bundle are never both confirmed without having been
\* seen to work together, unless the restart that was to show it was confirmed
\* by a process that the controller had not seen before.
THEOREM PairsAreProven == Spec => []ConfirmedPairWorks
<1>1. Inv => ConfirmedPairWorks
  BY DEF Inv, TypeOK, WorksInv, RecordInv, Executable, Active, Managers, ConfirmedPairWorks
<1> QED  BY <1>1, Invariance, PTL
=============================================================================
