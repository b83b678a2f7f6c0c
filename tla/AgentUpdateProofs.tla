------------------------- MODULE AgentUpdateProofs -------------------------
(***************************************************************************)
(* Proofs about AgentUpdate, for every set of binaries, version strings    *)
(* and commands, every retention and every number of faults.               *)
(*                                                                         *)
(* Agent and launcher take turns: while one works on the state directory   *)
(* the other waits for it.  TurnInv says so, and with it each step finds   *)
(* the links and the record as its own process left them.  The installer   *)
(* takes no turn, so that part of the invariant, and what follows from it, *)
(* is about a node on which none was started.  The type invariant holds    *)
(* with it as well.                                                        *)
(***************************************************************************)
EXTENDS AgentUpdate, FiniteSetTheorems, TLAPS

-----------------------------------------------------------------------------
(* The inductive invariant *)

\* Ranks are cardinalities, so the directories must be finitely many.
FiniteInv == IsFiniteSet(DOMAIN mtime)

\* install works on a candidate.
CandidateInv == \A a \in Actors : at[a] \in InstallLabels => cand[a] # None

\* No installer was started.
Alone == at[Installer] = "idle"

\* The launcher waits exactly while there is an agent process, and only a
\* process that booted with the record validates it.
TurnInv ==
    Alone =>
        /\ launcher = "run" <=> at[Agent] # "off"
        /\ at[Agent] = "boot" => bin = current
        /\ validating => at[Agent] = "session" /\ bin = current

\* What the links and the running install name is on disk.
FileInv ==
    Alone =>
        /\ {current, previous} \ {None} \subseteq DOMAIN mtime
        /\ at[Agent] \in {"read", "prev", "pend", "switch", "sync"} =>
               cand[Agent] \in DOMAIN mtime

\* The record against the links and the locals of install, and what has proved
\* its health.
RecordInv ==
    Alone =>
        /\ pending = NoPending => current \in good
        /\ pending # NoPending => previous = pending.prev /\ previous \in good
        /\ at[Agent] \in {"prune", "write", "read", "prev", "pend"} => pending = NoPending
        /\ at[Agent] \in {"prev", "pend", "switch"} => old[Agent] = current
        /\ at[Agent] \in {"pend", "switch"} => previous = current
        /\ at[Agent] \in {"switch", "sync"} => pending # NoPending
        /\ launcher = "mv" => current = previous /\ current \in good

Inv == TypeOK /\ FiniteInv /\ CandidateInv /\ TurnInv /\ FileInv /\ RecordInv

-----------------------------------------------------------------------------
(* Directories *)

\* Ranks are natural numbers.
LEMMA RankType ==
    ASSUME NEW f, IsFiniteSet(DOMAIN f)
    PROVE  /\ DOMAIN Rank(f) = DOMAIN f
           /\ Rank(f) \in [DOMAIN f -> Nat]
<1>1. ASSUME NEW b \in DOMAIN f
      PROVE  Cardinality({c \in DOMAIN f : f[c] < f[b]}) \in Nat
  <2>1. IsFiniteSet({c \in DOMAIN f : f[c] < f[b]})
    BY FS_Subset
  <2> QED  BY <2>1, FS_CardinalityType
<1> QED  BY <1>1 DEF Rank

\* Removing directories removes those and no others.
LEMMA WithoutEffect ==
    ASSUME FiniteInv, NEW S
    PROVE  /\ DOMAIN Without(S) = DOMAIN mtime \ S
           /\ Without(S) \in [DOMAIN Without(S) -> Nat]
           /\ IsFiniteSet(DOMAIN Without(S))
<1> DEFINE f == [b \in DOMAIN mtime \ S |-> mtime[b]]
<1>1. DOMAIN f = DOMAIN mtime \ S /\ IsFiniteSet(DOMAIN f)
  BY FS_Subset DEF FiniteInv
<1>2. Without(S) = Rank(f)
  BY DEF Without
<1> HIDE DEF f
<1> QED  BY <1>1, <1>2, RankType

\* Whatever its outcome, pruneVersions removes only directories that no link
\* names.
LEMMA PruneEffect ==
    ASSUME FiniteInv, NEW a, InstallPrune(a)
    PROVE  /\ DOMAIN mtime' \subseteq DOMAIN mtime
           /\ mtime' \in [DOMAIN mtime' -> Nat]
           /\ IsFiniteSet(DOMAIN mtime')
           /\ {current, previous} \cap DOMAIN mtime \subseteq DOMAIN mtime'
<1>1. {current, previous} \cap DOMAIN mtime \subseteq Kept
  BY DEF Kept
<1>2. PICK S \in SUBSET (DOMAIN mtime \ Kept) : mtime' = Without(S)
  BY DEF InstallPrune
<1>3. /\ DOMAIN mtime' = DOMAIN mtime \ S /\ mtime' \in [DOMAIN mtime' -> Nat]
      /\ IsFiniteSet(DOMAIN mtime')
  BY <1>2, WithoutEffect
<1> QED  BY <1>1, <1>3

\* install adds at most the candidate's directory.
LEMMA WriteEffect ==
    ASSUME FiniteInv, mtime \in [DOMAIN mtime -> Nat], NEW a, InstallWrite(a)
    PROVE  /\ DOMAIN mtime \subseteq DOMAIN mtime'
           /\ DOMAIN mtime' \subseteq DOMAIN mtime \cup {cand[a]}
           /\ mtime' \in [DOMAIN mtime' -> Nat]
           /\ IsFiniteSet(DOMAIN mtime')
           /\ Fail(a) \/ cand[a] \in DOMAIN mtime'
<1> DEFINE f == [b \in DOMAIN mtime \cup {cand[a]} |->
                    IF b = cand[a] THEN Cardinality(DOMAIN mtime) ELSE mtime[b]]
<1>1. DOMAIN f = DOMAIN mtime \cup {cand[a]} /\ IsFiniteSet(DOMAIN f)
  BY FS_AddElement DEF FiniteInv
<1>2. \/ mtime' = Rank(f)
      \/ mtime' = mtime /\ Fail(a)
  BY DEF InstallWrite
<1> HIDE DEF f
<1>3. DOMAIN Rank(f) = DOMAIN f /\ Rank(f) \in [DOMAIN f -> Nat]
  BY <1>1, RankType
<1>4. CASE mtime' = Rank(f)
  BY <1>1, <1>3, <1>4
<1>5. CASE mtime' = mtime /\ Fail(a)
  BY <1>5 DEF FiniteInv
<1> QED  BY <1>2, <1>4, <1>5

-----------------------------------------------------------------------------
(* One lemma per part of the invariant, one step per action *)

\* Every step keeps the type invariant, beside a running installer too.
LEMMA TypeStep ==
    ASSUME TypeOK, FiniteInv, CandidateInv, [Next]_vars
    PROVE  TypeOK' /\ FiniteInv' /\ CandidateInv'
<1> USE UpdateAssumption
<1> USE DEF TypeOK, FiniteInv, CandidateInv, InstallLabels, NoPending, Actors, Agent,
   Installer, PackageId
<1>1. ASSUME NEW a \in Actors, InstallCheck(a)
      PROVE  TypeOK' /\ FiniteInv' /\ CandidateInv'
  BY <1>1 DEF InstallCheck, Goto, Succeed, Fail, links
<1>2. ASSUME NEW a \in Actors, InstallPrune(a)
      PROVE  TypeOK' /\ FiniteInv' /\ CandidateInv'
  <2>1. /\ DOMAIN mtime' \subseteq Binaries /\ mtime' \in [DOMAIN mtime' -> Nat]
        /\ IsFiniteSet(DOMAIN mtime')
    BY <1>2, PruneEffect
  <2> QED  BY <1>2, <2>1 DEF InstallPrune, Goto, Fault, NoFault, Succeed, Fail, links
<1>3. ASSUME NEW a \in Actors, InstallWrite(a)
      PROVE  TypeOK' /\ FiniteInv' /\ CandidateInv'
  <2>1. /\ DOMAIN mtime' \subseteq Binaries /\ mtime' \in [DOMAIN mtime' -> Nat]
        /\ IsFiniteSet(DOMAIN mtime')
    BY <1>3, WriteEffect DEF InstallWrite
  <2> QED  BY <1>3, <2>1 DEF InstallWrite, Goto, Fault, NoFault, Succeed, Fail, links
<1>4. ASSUME NEW a \in Actors, InstallRead(a)
      PROVE  TypeOK' /\ FiniteInv' /\ CandidateInv'
  BY <1>4 DEF InstallRead, Goto, Succeed, Fail, links
<1>5. ASSUME NEW a \in Actors, InstallPrevious(a)
      PROVE  TypeOK' /\ FiniteInv' /\ CandidateInv'
  BY <1>5 DEF InstallPrevious, Goto, Fault, NoFault, Succeed, Fail, links
<1>6. ASSUME NEW a \in Actors, InstallPending(a)
      PROVE  TypeOK' /\ FiniteInv' /\ CandidateInv'
  BY <1>6 DEF InstallPending, Goto, Fault, NoFault, Succeed, Fail, links
<1>7. ASSUME NEW a \in Actors, InstallSwitch(a)
      PROVE  TypeOK' /\ FiniteInv' /\ CandidateInv'
  BY <1>7 DEF InstallSwitch, Goto, Fault, NoFault, Succeed, Fail, links
<1>8. ASSUME NEW a \in Actors, InstallSync(a)
      PROVE  TypeOK' /\ FiniteInv' /\ CandidateInv'
  BY <1>8 DEF InstallSync, Goto, Fault, NoFault, Succeed, Fail, links
<1>9. CASE Boot
  <2>1. validating' \in BOOLEAN
    BY <1>9 DEF Boot, Exit
  <2> QED  BY <1>9, <2>1 DEF Boot, Goto, Exit, links
<1>10. CASE Heartbeat
  <2>1. validating' \in BOOLEAN
    BY <1>10 DEF Heartbeat, Exit
  <2> QED  BY <1>10, <2>1 DEF Heartbeat, Fault, NoFault, Exit, links
<1>11. CASE SessionEnds
  BY <1>11 DEF SessionEnds, Exit, links
<1>12. CASE HealthTimeout
  BY <1>12 DEF HealthTimeout, Exit, links
<1>13. ASSUME NEW c \in Commands, UpdateCommand(c)
       PROVE  TypeOK' /\ FiniteInv' /\ CandidateInv'
  BY <1>13 DEF UpdateCommand, Goto, links
<1>14. CASE Report
  <2>1. validating' \in BOOLEAN
    BY <1>14 DEF Report, Exit
  <2> QED  BY <1>14, <2>1 DEF Report, Goto, Fault, NoFault, Exit, links
<1>15. CASE AgentCrash
  <2>1. validating' \in BOOLEAN
    BY <1>15 DEF AgentCrash, Exit
  <2> QED  BY <1>15, <2>1 DEF AgentCrash, Fault, Exit, links
<1>16. CASE LauncherStart
  BY <1>16 DEF LauncherStart, Goto, links
<1>17. CASE LauncherCheck
  BY <1>17 DEF LauncherCheck, links
<1>18. CASE LauncherRecord
  BY <1>18 DEF LauncherRecord, links
<1>19. CASE Kill
  <2>1. validating' \in BOOLEAN
    BY <1>19 DEF Kill, Stop
  <2> QED  BY <1>19, <2>1 DEF Kill, Fault, Goto, Stop, links
<1>20. CASE InstallerStart
  BY <1>20 DEF InstallerStart, Goto, links
<1>21. CASE InstallerRestart
  BY <1>21 DEF InstallerRestart, Stop, links
<1>22. CASE InstallerVerdict
  BY <1>22 DEF InstallerVerdict, Goto, links
<1>23. CASE UNCHANGED vars
  BY <1>23 DEF vars, links
<1> QED
  BY <1>1, <1>2, <1>3, <1>4, <1>5, <1>6, <1>7, <1>8, <1>9, <1>10, <1>11, <1>12, <1>13,
     <1>14, <1>15, <1>16, <1>17, <1>18, <1>19, <1>20, <1>21, <1>22, <1>23
     DEF Next, AgentStep, LauncherStep, InstallerStep, Install, Actors

\* Every step of an agent or launcher alone on the node passes the turn on or
\* keeps it.
LEMMA TurnStep ==
    ASSUME TypeOK, TurnInv, [Next]_vars
    PROVE  TurnInv'
<1> USE UpdateAssumption
<1> USE DEF TypeOK, Alone, TurnInv, InstallLabels, NoPending, Actors, Agent, Installer
<1>1. ASSUME NEW a \in Actors, InstallCheck(a)
      PROVE  TurnInv'
  BY <1>1 DEF InstallCheck, Goto, Succeed, Fail, links
<1>2. ASSUME NEW a \in Actors, InstallPrune(a)
      PROVE  TurnInv'
  BY <1>2 DEF InstallPrune, Goto, Fault, NoFault, Succeed, Fail, links
<1>3. ASSUME NEW a \in Actors, InstallWrite(a)
      PROVE  TurnInv'
  BY <1>3 DEF InstallWrite, Goto, Fault, NoFault, Succeed, Fail, links
<1>4. ASSUME NEW a \in Actors, InstallRead(a)
      PROVE  TurnInv'
  BY <1>4 DEF InstallRead, Goto, Succeed, Fail, links
<1>5. ASSUME NEW a \in Actors, InstallPrevious(a)
      PROVE  TurnInv'
  BY <1>5 DEF InstallPrevious, Goto, Fault, NoFault, Succeed, Fail, links
<1>6. ASSUME NEW a \in Actors, InstallPending(a)
      PROVE  TurnInv'
  BY <1>6 DEF InstallPending, Goto, Fault, NoFault, Succeed, Fail, links
<1>7. ASSUME NEW a \in Actors, InstallSwitch(a)
      PROVE  TurnInv'
  BY <1>7 DEF InstallSwitch, Goto, Fault, NoFault, Succeed, Fail, links
<1>8. ASSUME NEW a \in Actors, InstallSync(a)
      PROVE  TurnInv'
  BY <1>8 DEF InstallSync, Goto, Fault, NoFault, Succeed, Fail, links
<1>9. CASE Boot
  BY <1>9 DEF Boot, Goto, Exit, links
<1>10. CASE Heartbeat
  BY <1>10 DEF Heartbeat, Fault, NoFault, Exit, links
<1>11. CASE SessionEnds
  BY <1>11 DEF SessionEnds, Exit, links
<1>12. CASE HealthTimeout
  BY <1>12 DEF HealthTimeout, Exit, links
<1>13. ASSUME NEW c \in Commands, UpdateCommand(c)
       PROVE  TurnInv'
  BY <1>13 DEF UpdateCommand, Goto, links
<1>14. CASE Report
  BY <1>14 DEF Report, Goto, Fault, NoFault, Exit, links
<1>15. CASE AgentCrash
  BY <1>15 DEF AgentCrash, Fault, NoFault, Exit, links
<1>16. CASE LauncherStart
  BY <1>16 DEF LauncherStart, Goto, links
<1>17. CASE LauncherCheck
  BY <1>17 DEF LauncherCheck, links
<1>18. CASE LauncherRecord
  BY <1>18 DEF LauncherRecord, links
<1>19. CASE Kill
  BY <1>19 DEF Kill, Fault, NoFault, Goto, Stop, links
<1>20. CASE InstallerStart
  BY <1>20 DEF InstallerStart, Goto, links
<1>21. CASE InstallerRestart
  BY <1>21 DEF InstallerRestart, Stop, links
<1>22. CASE InstallerVerdict
  BY <1>22 DEF InstallerVerdict, Goto, links
<1>23. CASE UNCHANGED vars
  BY <1>23 DEF vars, links
<1> QED
  BY <1>1, <1>2, <1>3, <1>4, <1>5, <1>6, <1>7, <1>8, <1>9, <1>10, <1>11, <1>12, <1>13,
     <1>14, <1>15, <1>16, <1>17, <1>18, <1>19, <1>20, <1>21, <1>22, <1>23
     DEF Next, AgentStep, LauncherStep, InstallerStep, Install, Actors

\* Every step leaves on disk what the links and the running install name.
LEMMA FileStep ==
    ASSUME TypeOK, FiniteInv, TurnInv, RecordInv, FileInv, [Next]_vars
    PROVE  FileInv'
<1> USE UpdateAssumption
<1> USE DEF TypeOK, Alone, TurnInv, InstallLabels, NoPending, Actors, Agent,
   Installer, RecordInv, FileInv
<1>1. ASSUME NEW a \in Actors, InstallCheck(a)
      PROVE  FileInv'
  BY <1>1 DEF InstallCheck, Goto, Succeed, Fail, links
<1>2. ASSUME NEW a \in Actors, InstallPrune(a)
      PROVE  FileInv'
  <2>1. {current, previous} \cap DOMAIN mtime \subseteq DOMAIN mtime'
    BY <1>2, PruneEffect
  <2>2. UNCHANGED links /\ at'[a] \in {"write", "session", "failed"} /\ (Alone' => Alone /\ a = Agent)
    BY <1>2 DEF InstallPrune, Goto, Fail
  <2> QED  BY <2>1, <2>2 DEF links
<1>3. ASSUME NEW a \in Actors, InstallWrite(a)
      PROVE  FileInv'
  <2>1. /\ DOMAIN mtime \subseteq DOMAIN mtime'
        /\ Fail(a) \/ cand[a] \in DOMAIN mtime'
    BY <1>3, WriteEffect
  <2>2. /\ UNCHANGED <<links, cand>> /\ (Alone' => Alone /\ a = Agent)
        /\ Fail(a) => at'[a] \in {"session", "failed"}
    BY <1>3 DEF InstallWrite, Goto, Fail
  <2> QED  BY <2>1, <2>2 DEF links
<1>4. ASSUME NEW a \in Actors, InstallRead(a)
      PROVE  FileInv'
  BY <1>4 DEF InstallRead, Goto, Succeed, Fail, links
<1>5. ASSUME NEW a \in Actors, InstallPrevious(a)
      PROVE  FileInv'
  BY <1>5 DEF InstallPrevious, Goto, Fault, NoFault, Succeed, Fail, links
<1>6. ASSUME NEW a \in Actors, InstallPending(a)
      PROVE  FileInv'
  BY <1>6 DEF InstallPending, Goto, Fault, NoFault, Succeed, Fail, links
<1>7. ASSUME NEW a \in Actors, InstallSwitch(a)
      PROVE  FileInv'
  BY <1>7 DEF InstallSwitch, Goto, Fault, NoFault, Succeed, Fail, links
<1>8. ASSUME NEW a \in Actors, InstallSync(a)
      PROVE  FileInv'
  BY <1>8 DEF InstallSync, Goto, Fault, NoFault, Succeed, Fail, links
<1>9. CASE Boot
  BY <1>9 DEF Boot, Goto, Exit, links
<1>10. CASE Heartbeat
  BY <1>10 DEF Heartbeat, Fault, NoFault, Exit, links
<1>11. CASE SessionEnds
  BY <1>11 DEF SessionEnds, Exit, links
<1>12. CASE HealthTimeout
  BY <1>12 DEF HealthTimeout, Exit, links
<1>13. ASSUME NEW c \in Commands, UpdateCommand(c)
       PROVE  FileInv'
  BY <1>13 DEF UpdateCommand, Goto, links
<1>14. CASE Report
  BY <1>14 DEF Report, Goto, Fault, NoFault, Exit, links
<1>15. CASE AgentCrash
  BY <1>15 DEF AgentCrash, Fault, NoFault, Exit, links
<1>16. CASE LauncherStart
  BY <1>16 DEF LauncherStart, Goto, links
<1>17. CASE LauncherCheck
  BY <1>17 DEF LauncherCheck, links
<1>18. CASE LauncherRecord
  BY <1>18 DEF LauncherRecord, links
<1>19. CASE Kill
  BY <1>19 DEF Kill, Fault, NoFault, Goto, Stop, links
<1>20. CASE InstallerStart
  BY <1>20 DEF InstallerStart, Goto, links
<1>21. CASE InstallerRestart
  BY <1>21 DEF InstallerRestart, Stop, links
<1>22. CASE InstallerVerdict
  BY <1>22 DEF InstallerVerdict, Goto, links
<1>23. CASE UNCHANGED vars
  BY <1>23 DEF vars, links
<1> QED
  BY <1>1, <1>2, <1>3, <1>4, <1>5, <1>6, <1>7, <1>8, <1>9, <1>10, <1>11, <1>12, <1>13,
     <1>14, <1>15, <1>16, <1>17, <1>18, <1>19, <1>20, <1>21, <1>22, <1>23
     DEF Next, AgentStep, LauncherStep, InstallerStep, Install, Actors

\* Every step keeps what is selected, or what the record restores, proven.
LEMMA RecordStep ==
    ASSUME TypeOK, TurnInv, FileInv, RecordInv, [Next]_vars
    PROVE  RecordInv'
<1> USE UpdateAssumption
<1> USE DEF TypeOK, Alone, TurnInv, InstallLabels, NoPending, Actors, Agent,
   Installer, RecordInv
<1>1. ASSUME NEW a \in Actors, InstallCheck(a)
      PROVE  RecordInv'
  BY <1>1 DEF InstallCheck, Goto, Succeed, Fail, links
<1>2. ASSUME NEW a \in Actors, InstallPrune(a)
      PROVE  RecordInv'
  BY <1>2 DEF InstallPrune, Goto, Fault, NoFault, Succeed, Fail, links
<1>3. ASSUME NEW a \in Actors, InstallWrite(a)
      PROVE  RecordInv'
  BY <1>3 DEF InstallWrite, Goto, Fault, NoFault, Succeed, Fail, links
<1>4. ASSUME NEW a \in Actors, InstallRead(a)
      PROVE  RecordInv'
  BY <1>4 DEF InstallRead, Goto, Succeed, Fail, links
<1>5. ASSUME NEW a \in Actors, InstallPrevious(a)
      PROVE  RecordInv'
  BY <1>5 DEF InstallPrevious, Goto, Fault, NoFault, Succeed, Fail, links
<1>6. ASSUME NEW a \in Actors, InstallPending(a)
      PROVE  RecordInv'
  BY <1>6 DEF InstallPending, Goto, Fault, NoFault, Succeed, Fail, links
<1>7. ASSUME NEW a \in Actors, InstallSwitch(a)
      PROVE  RecordInv'
  BY <1>7 DEF InstallSwitch, Goto, Fault, NoFault, Succeed, Fail, links
<1>8. ASSUME NEW a \in Actors, InstallSync(a)
      PROVE  RecordInv'
  BY <1>8 DEF InstallSync, Goto, Fault, NoFault, Succeed, Fail, links
<1>9. CASE Boot
  BY <1>9 DEF Boot, Goto, Exit, links
<1>10. CASE Heartbeat
  BY <1>10 DEF Heartbeat, Fault, NoFault, Exit, links
<1>11. CASE SessionEnds
  BY <1>11 DEF SessionEnds, Exit, links
<1>12. CASE HealthTimeout
  BY <1>12 DEF HealthTimeout, Exit, links
<1>13. ASSUME NEW c \in Commands, UpdateCommand(c)
       PROVE  RecordInv'
  BY <1>13 DEF UpdateCommand, Goto, links
<1>14. CASE Report
  BY <1>14 DEF Report, Goto, Fault, NoFault, Exit, links
<1>15. CASE AgentCrash
  BY <1>15 DEF AgentCrash, Fault, NoFault, Exit, links
<1>16. CASE LauncherStart
  BY <1>16 DEF LauncherStart, Goto, links
<1>17. CASE LauncherCheck
  BY <1>17 DEF LauncherCheck, links
<1>18. CASE LauncherRecord
  BY <1>18 DEF LauncherRecord, links
<1>19. CASE Kill
  BY <1>19 DEF Kill, Fault, NoFault, Goto, Stop, links
<1>20. CASE InstallerStart
  BY <1>20 DEF InstallerStart, Goto, links
<1>21. CASE InstallerRestart
  BY <1>21 DEF InstallerRestart, Stop, links
<1>22. CASE InstallerVerdict
  BY <1>22 DEF InstallerVerdict, Goto, links
<1>23. CASE UNCHANGED vars
  BY <1>23 DEF vars, links
<1> QED
  BY <1>1, <1>2, <1>3, <1>4, <1>5, <1>6, <1>7, <1>8, <1>9, <1>10, <1>11, <1>12, <1>13,
     <1>14, <1>15, <1>16, <1>17, <1>18, <1>19, <1>20, <1>21, <1>22, <1>23
     DEF Next, AgentStep, LauncherStep, InstallerStep, Install, Actors

-----------------------------------------------------------------------------
(* Theorems *)

\* Every reachable state of agent, launcher and installer satisfies the
\* inductive invariant.
THEOREM Invariance == Spec => []Inv
<1>1. Init => Inv
  <2> SUFFICES ASSUME Init PROVE Inv
    OBVIOUS
  <2> USE UpdateAssumption DEF Init, NoPending, Actors, Agent, Installer
  <2>1. DOMAIN mtime = {Installed} /\ mtime \in [DOMAIN mtime -> Nat]
    OBVIOUS
  <2>2. FiniteInv
    BY <2>1, FS_Singleton DEF FiniteInv
  <2>3. at[Installer] = "idle" /\ at[Agent] = "off"
    OBVIOUS
  <2>4. TypeOK
    <3>1. validating \in BOOLEAN
      OBVIOUS
    <3>2. at \in [Actors -> {"off", "idle"}]
      OBVIOUS
    <3>3. cmd \in [Actors -> {None}] /\ cand \in [Actors -> {None}] /\ old \in [Actors -> {None}]
      OBVIOUS
    <3> QED  BY <2>1, <3>1, <3>2, <3>3 DEF TypeOK, InstallLabels, PackageId
  <2>5. CandidateInv
    BY <2>3 DEF CandidateInv, InstallLabels
  <2>6. TurnInv /\ FileInv /\ RecordInv
    BY <2>1, <2>3 DEF TurnInv, FileInv, RecordInv, Alone
  <2> QED  BY <2>2, <2>4, <2>5, <2>6 DEF Inv
<1>2. Inv /\ [Next]_vars => Inv'
  BY TypeStep, TurnStep, FileStep, RecordStep DEF Inv
<1> QED  BY <1>1, <1>2, PTL DEF Spec

\* Links, records and locals of agent, launcher and installer stay well
\* formed, the three of them interleaved in any way.
THEOREM TypeCorrect == Spec => []TypeOK
<1>1. Inv => TypeOK
  BY DEF Inv
<1> QED  BY <1>1, Invariance, PTL

\* Where the launcher would not roll back, the selected binary has reached the
\* center, and what the links name survived every pruneVersions.
THEOREM SelectedIsProven == Spec => []UnprotectedIsProven
<1>1. Inv => UnprotectedIsProven
  BY DEF Inv, FileInv, RecordInv, Alone, UnprotectedIsProven
<1> QED  BY <1>1, Invariance, PTL

\* Where the launcher would roll back, it restores a binary that has reached
\* the center and is still on disk.
THEOREM RollbackIsProven == Spec => []RollbackTargetIsProven
<1>1. Inv => RollbackTargetIsProven
  BY UpdateAssumption DEF Inv, TypeOK, FileInv, RecordInv, Alone, RollbackTargetIsProven
<1> QED  BY <1>1, Invariance, PTL
=============================================================================
