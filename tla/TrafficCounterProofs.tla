------------------------ MODULE TrafficCounterProofs ------------------------
(***************************************************************************)
(* Proofs about TrafficCounter, for every set of users and every amount of *)
(* traffic, restarts, counter resets, clock changes and faults.            *)
(*                                                                         *)
(* That nothing is counted twice rests on an accounting argument: the      *)
(* traffic the center has not counted yet (Room) always covers what Xray's *)
(* counters, and a snapshot on its way to the spool, can still add.  The   *)
(* collector cannot tell whether a counter was reset after the stored      *)
(* snapshot was taken, so the invariant keeps both cases open.             *)
(***************************************************************************)
EXTENDS TrafficCounter, TLAPS

-----------------------------------------------------------------------------
(* The inductive invariant *)

\* What Xray has counted for u in direction d, and in both.
Level(u, d) == IF <<u, d>> \in DOMAIN counters THEN counters[<<u, d>>] ELSE 0
Held(u)     == Level(u, "up") + Level(u, "down")

\* Traffic the center may still count.
Room(u) == real[u] + excess[u] - total[u]

\* The label of the stored counters.
StoredLabel(u) == [runtime |-> stored[u].runtime, epoch |-> stored[u].epoch]

\* The center's last counters for that label are the stored ones.
StoredInv ==
    \A u \in Users :
        IF stored[u] = None THEN DOMAIN last[u] = {}
        ELSE /\ StoredLabel(u) \in DOMAIN last[u]
             /\ last[u][StoredLabel(u)].up = stored[u].up
             /\ last[u][StoredLabel(u)].down = stored[u].down

\* As long as nobody sets the clock, the stored label is the newest one of its
\* user, and the process being asked is not older.
LabelInv ==
    steps = 0 =>
        /\ boot = 0 /\ started <= now
        /\ pc \in {"query", "store"} => runtimeID <= started
        /\ \A u \in Users : stored[u] # None =>
             /\ stored[u].runtime <= started
             /\ pc \in {"query", "store"} => stored[u].runtime <= runtimeID
             /\ \A l \in DOMAIN last[u] :
                   \/ l.runtime < stored[u].runtime
                   \/ l.runtime = stored[u].runtime /\ l.epoch <= stored[u].epoch

\* Xray's counters fit into the room, all of them or, when they continue the
\* stored snapshot, what they grew by.
CounterRoom(u) ==
    \/ Room(u) >= Held(u)
    \/ /\ stored[u] # None /\ source[u] = run
       /\ stored[u].up <= Level(u, "up") /\ stored[u].down <= Level(u, "down")
       /\ Room(u) >= Held(u) - Sum(stored[u])

\* The snapshot being stored continues the stored one.
Continues(u) ==
    /\ stored[u] # None /\ source[u] = from
    /\ stored[u].up <= values[u].up /\ stored[u].down <= values[u].down

\* A snapshot is on its way: it is part of what the counters hold, or, when
\* these started again, it has to fit beside them.
SnapshotRoom(u) ==
    \/ /\ from = run
       /\ values[u].up <= Level(u, "up") /\ values[u].down <= Level(u, "down")
       /\ \/ Room(u) >= Held(u)
          \/ Continues(u) /\ Room(u) >= Held(u) - Sum(stored[u])
    \/ Room(u) >= Held(u) + Sum(values[u])
    \/ Continues(u) /\ Room(u) >= Held(u) + Sum(values[u]) - Sum(stored[u])

RoomInv ==
    /\ \A u \in Users :
          IF pc = "store" /\ u \in DOMAIN values THEN SnapshotRoom(u) ELSE CounterRoom(u)
    /\ pc = "store" => from # 0
    /\ run = 0 => counters = Nobody

Inv == TypeOK /\ StoredInv /\ LabelInv /\ RoomInv

-----------------------------------------------------------------------------
(* The counters of Xray and the center *)

\* Levels are natural numbers.
LEMMA LevelType ==
    ASSUME TypeOK, NEW u \in Users
    PROVE  Level(u, "up") \in Nat /\ Level(u, "down") \in Nat
BY DEF TypeOK, Level

\* parseTrafficStats reads the levels.
LEMMA StatsEffect ==
    ASSUME TypeOK
    PROVE  /\ IsCounterMap(TrafficStats)
           /\ \A u \in DOMAIN TrafficStats :
                 /\ TrafficStats[u].up = Level(u, "up")
                 /\ TrafficStats[u].down = Level(u, "down")
<1>1. DOMAIN TrafficStats \subseteq Users
  BY DEF TrafficStats, TypeOK
<1>2. ASSUME NEW u \in DOMAIN TrafficStats
      PROVE  /\ TrafficStats[u] \in Counter
             /\ TrafficStats[u].up = Level(u, "up") /\ TrafficStats[u].down = Level(u, "down")
  <2>1. Level(u, "up") \in Nat /\ Level(u, "down") \in Nat
    BY <1>1, LevelType
  <2>2. TrafficStats[u] = [d \in {"up", "down"} |-> Level(u, d)]
    BY DEF TrafficStats, Directions, Level
  <2>3. [d \in {"up", "down"} |-> Level(u, d)] = [up |-> Level(u, "up"), down |-> Level(u, "down")]
    OBVIOUS
  <2> QED  BY <2>1, <2>2, <2>3 DEF Counter
<1> QED  BY <1>1, <1>2 DEF IsCounterMap

\* Traffic raises one level by one.
LEMMA TrafficEffect ==
    ASSUME TypeOK, NEW u \in Users, NEW dir \in Directions, Traffic(u, dir)
    PROVE  /\ Level(u, "up")' \in Nat /\ Level(u, "down")' \in Nat
           /\ Level(u, "up")' >= Level(u, "up") /\ Level(u, "down")' >= Level(u, "down")
           /\ Held(u)' = Held(u) + 1 /\ Room(u)' = Room(u) + 1
           /\ \A v \in Users : v # u =>
                 /\ Level(v, "up")' = Level(v, "up") /\ Level(v, "down")' = Level(v, "down")
                 /\ Held(v)' = Held(v) /\ Room(v)' = Room(v)
<1>1. ASSUME NEW v \in Users, NEW d \in Directions
      PROVE  Level(v, d)' = Level(v, d) + (IF v = u /\ d = dir THEN 1 ELSE 0)
  <2>1. <<v, d>> = <<u, dir>> <=> v = u /\ d = dir
    OBVIOUS
  <2>2. Level(v, d) \in Nat
    BY DEF TypeOK, Level
  <2> QED  BY <2>1, <2>2 DEF Traffic, Level
<1>2. Level(u, "up") \in Nat /\ Level(u, "down") \in Nat
  BY LevelType
<1>3. \A v \in Users : v # u => /\ Level(v, "up")' = Level(v, "up") /\ Held(v)' = Held(v)
                               /\ Level(v, "down")' = Level(v, "down")
  <2> SUFFICES ASSUME NEW v \in Users, v # u
               PROVE  /\ Level(v, "up")' = Level(v, "up") /\ Held(v)' = Held(v)
                      /\ Level(v, "down")' = Level(v, "down")
    OBVIOUS
  <2>1. Level(v, "up") \in Nat /\ Level(v, "down") \in Nat
    BY LevelType
  <2>2. Level(v, "up")' = Level(v, "up") /\ Level(v, "down")' = Level(v, "down")
    BY <1>1, <2>1 DEF Directions
  <2> QED  BY <2>2 DEF Held
<1>4. \A v \in Users : Room(v)' = Room(v) + (IF v = u THEN 1 ELSE 0)
  <2>1. real \in [Users -> Nat] /\ excess \in [Users -> Nat] /\ total \in [Users -> Int]
    BY DEF TypeOK
  <2>2. real' = [real EXCEPT ![u] = @ + 1] /\ excess' = excess /\ total' = total
    BY DEF Traffic, center
  <2> QED  BY <2>1, <2>2 DEF Room
<1>5. dir = "up" \/ dir = "down"
  BY DEF Directions
<1>6. \A v \in Users : Room(v) \in Int
  BY DEF Room, TypeOK
<1> QED  BY <1>1, <1>2, <1>3, <1>4, <1>5, <1>6 DEF Held, Directions

\* A reset takes the levels of its user to zero and leaves the others.
LEMMA ResetEffect ==
    ASSUME TypeOK, NEW u \in Users, Reset(u)
    PROVE  /\ Level(u, "up")' = 0 /\ Level(u, "down")' = 0
           /\ \A v \in Users : v # u =>
                 Level(v, "up")' = Level(v, "up") /\ Level(v, "down")' = Level(v, "down")
<1>1. ASSUME NEW v \in Users, NEW d \in Directions
      PROVE  Level(v, d)' = IF v = u THEN 0 ELSE Level(v, d)
  <2>1. <<v, d>>[1] = v
    OBVIOUS
  <2> QED  BY <2>1 DEF Reset, Level
<1> QED  BY <1>1 DEF Directions

\* What the store step does to the entries of one user.  The center's base is
\* a counter, and the stored one when the snapshot continues its label.
LEMMA StoreEffect ==
    ASSUME TypeOK, StoredInv, Store, NEW u \in Users, u \in DOMAIN values
    PROVE  /\ Epoch(u) \in Nat
           /\ stored'[u] = [runtime |-> runtimeID, epoch |-> Epoch(u),
                            up |-> values[u].up, down |-> values[u].down]
           /\ DOMAIN last'[u] = DOMAIN last[u] \cup {[runtime |-> runtimeID, epoch |-> Epoch(u)]}
           /\ \A l \in DOMAIN last'[u] :
                 last'[u][l] = IF l = [runtime |-> runtimeID, epoch |-> Epoch(u)]
                               THEN values[u] ELSE last[u][l]
           /\ source'[u] = from
           /\ \E base \in Nat :
                 /\ total'[u] = total[u] + Sum(values[u]) - base
                 /\ Continues(u) /\ ~Misnamed(u) => base = Sum(stored[u])
           /\ excess'[u] = excess[u] + (IF Misnamed(u) THEN Sum(values[u]) ELSE 0)
<1> DEFINE label == [runtime |-> runtimeID, epoch |-> Epoch(u)]
           base  == IF label \in DOMAIN last[u] THEN last[u][label] ELSE Zero
<1>1. Epoch(u) \in Nat
  BY DEF TypeOK, Epoch
<1>2. stored'[u] = [runtime |-> runtimeID, epoch |-> Epoch(u),
                    up |-> values[u].up, down |-> values[u].down]
  BY DEF Store
<1>3. last'[u] = Count(u).last /\ total'[u] = Count(u).total /\ source'[u] = from
  BY DEF Store
<1>4. Count(u).last = [l \in DOMAIN last[u] \cup {label} |->
                          IF l = label THEN values[u] ELSE last[u][l]]
  BY DEF Count
<1>5. Count(u).total = total[u] + Sum(values[u]) - Sum(base)
  BY DEF Count
<1>6. excess'[u] = excess[u] + (IF Misnamed(u) THEN Sum(values[u]) ELSE 0)
  BY DEF Store
<1>7. Sum(base) \in Nat
  BY DEF TypeOK, Counter, Zero, Sum
<1>8. Continues(u) /\ ~Misnamed(u) => Sum(base) = Sum(stored[u])
  <2> SUFFICES ASSUME Continues(u), ~Misnamed(u) PROVE Sum(base) = Sum(stored[u])
    OBVIOUS
  <2>1. stored[u] # None /\ stored[u].runtime = runtimeID
    BY DEF Continues, Misnamed
  <2>2. Epoch(u) = stored[u].epoch
    <3>1. ~WentBack(values[u], stored[u])
      BY <2>1, TrafficAssumption DEF Continues, WentBack, TypeOK, IsCounterMap, Counter
    <3> QED  BY <2>1, <3>1 DEF Epoch, TypeOK
  <2>3. label = StoredLabel(u)
    BY <2>1, <2>2 DEF StoredLabel
  <2> QED  BY <2>1, <2>3 DEF StoredInv, Sum
<1> HIDE DEF label, base
<1>9. /\ DOMAIN last'[u] = DOMAIN last[u] \cup {label}
      /\ \A l \in DOMAIN last'[u] : last'[u][l] = IF l = label THEN values[u] ELSE last[u][l]
  BY <1>3, <1>4
<1>10. \E b \in Nat : /\ total'[u] = total[u] + Sum(values[u]) - b
                      /\ Continues(u) /\ ~Misnamed(u) => b = Sum(stored[u])
  BY <1>3, <1>5, <1>7, <1>8
<1> QED  BY <1>1, <1>2, <1>3, <1>6, <1>9, <1>10 DEF label

\* A process that just started has no counters.
LEMMA NobodyType == DOMAIN Nobody = {} /\ IsCounterMap(Nobody)
BY DEF Nobody, IsCounterMap

-----------------------------------------------------------------------------
(* One lemma per part of the invariant, one step per action *)

\* Every step keeps the type invariant.
LEMMA TypeStep ==
    ASSUME TypeOK, StoredInv, [Next]_vars
    PROVE  TypeOK'
<1> USE TrafficAssumption
<1> USE DEF TypeOK
<1>1. CASE ReadState
  BY <1>1 DEF ReadState, RuntimeID, xray, collector, center
<1>2. CASE Query
  <2>1. IsCounterMap(values')
    BY <1>2, StatsEffect DEF Query
  <2> QED  BY <1>2, <2>1 DEF Query, xray, center
<1>3. CASE Store
  <2>1. ASSUME NEW u \in Users
        PROVE  /\ stored'[u] \in [runtime : Int, epoch : Nat, up : Nat, down : Nat] \cup {None}
               /\ DOMAIN last'[u] \subseteq Label
               /\ \A l \in DOMAIN last'[u] : last'[u][l] \in Counter
               /\ total'[u] \in Int /\ source'[u] \in Nat /\ excess'[u] \in Nat
    <3>1. CASE u \in DOMAIN values
      <4>1. values[u] \in Counter /\ Sum(values[u]) \in Nat
        BY <3>1 DEF IsCounterMap, Counter, Sum
      <4>2. /\ runtimeID \in Int /\ from \in Nat /\ total[u] \in Int /\ excess[u] \in Nat
            /\ DOMAIN last[u] \subseteq Label /\ \A l \in DOMAIN last[u] : last[u][l] \in Counter
        OBVIOUS
      <4> HIDE DEF TypeOK
      <4>3. /\ Epoch(u) \in Nat /\ source'[u] = from
            /\ stored'[u] = [runtime |-> runtimeID, epoch |-> Epoch(u),
                             up |-> values[u].up, down |-> values[u].down]
        BY <1>3, <3>1, StoreEffect
      <4>4. /\ DOMAIN last'[u] = DOMAIN last[u] \cup {[runtime |-> runtimeID, epoch |-> Epoch(u)]}
            /\ \A l \in DOMAIN last'[u] :
                  last'[u][l] = IF l = [runtime |-> runtimeID, epoch |-> Epoch(u)]
                                THEN values[u] ELSE last[u][l]
        BY <1>3, <3>1, StoreEffect
      <4>5. PICK base \in Nat : total'[u] = total[u] + Sum(values[u]) - base
        BY <1>3, <3>1, StoreEffect
      <4>6. excess'[u] = excess[u] + (IF Misnamed(u) THEN Sum(values[u]) ELSE 0)
        BY <1>3, <3>1, StoreEffect
      <4>7. total'[u] \in Int /\ excess'[u] \in Nat
        BY <4>1, <4>2, <4>5, <4>6
      <4>8. [runtime |-> runtimeID, epoch |-> Epoch(u)] \in Label
        BY <4>2, <4>3 DEF Label
      <4>9. stored'[u] \in [runtime : Int, epoch : Nat, up : Nat, down : Nat]
        BY <4>1, <4>2, <4>3 DEF Counter
      <4> QED  BY <4>1, <4>2, <4>3, <4>4, <4>7, <4>8, <4>9
    <3>2. CASE u \notin DOMAIN values
      BY <1>3, <3>2 DEF Store
    <3> QED  BY <3>1, <3>2
  <2>2. /\ stored' = [u \in Users |-> stored'[u]] /\ total' = [u \in Users |-> total'[u]]
        /\ source' = [u \in Users |-> source'[u]] /\ excess' = [u \in Users |-> excess'[u]]
    BY <1>3 DEF Store
  <2>3. /\ pc' = "online" /\ UNCHANGED <<xray, runtimeID, asked, values, from, dropped, faults>>
    BY <1>3 DEF Store
  <2>4. /\ stored' \in [Users -> [runtime : Int, epoch : Nat, up : Nat, down : Nat] \cup {None}]
        /\ total' \in [Users -> Int] /\ source' \in [Users -> Nat] /\ excess' \in [Users -> Nat]
    BY <2>1, <2>2
  <2> QED  BY <2>1, <2>3, <2>4 DEF xray, IsCounterMap
<1>4. CASE StoreFull
  <2>1. dropped' \in BOOLEAN
    <3>1. dropped' = dropped \/ dropped' = TRUE
      BY <1>4 DEF StoreFull
    <3>2. dropped \in BOOLEAN
      OBVIOUS
    <3> QED  BY <3>1, <3>2
  <2> QED  BY <1>4, <2>1 DEF StoreFull, IsCounterMap, xray, collector, center
<1>5. CASE CollectOnline
  <2>1. dropped' \in BOOLEAN
    <3>1. dropped' = dropped \/ dropped' = TRUE
      BY <1>5 DEF CollectOnline
    <3>2. dropped \in BOOLEAN
      OBVIOUS
    <3> QED  BY <3>1, <3>2
  <2>2. IsCounterMap(values')
    BY <1>5, NobodyType DEF CollectOnline, Idle
  <2> QED  BY <1>5, <2>1, <2>2 DEF CollectOnline, Idle, xray, center
<1>6. CASE Crash
  <2>1. IsCounterMap(values')
    BY <1>6, NobodyType DEF Crash, Idle
  <2> QED  BY <1>6, <2>1 DEF Crash, Idle, xray, center
<1>7. CASE Tick
  BY <1>7 DEF Tick, xray, collector, center
<1>8. CASE ClockStep
  <2>1. boot' \in {0, 1} /\ steps' \in Nat
    BY <1>8 DEF ClockStep
  <2> QED  BY <1>8, <2>1 DEF ClockStep, collector, center
<1>9. CASE XrayExit
  <2>1. DOMAIN counters' = {}
    BY <1>9, NobodyType DEF XrayExit
  <2>2. /\ runs' \in Nat /\ run' \in Nat
        /\ UNCHANGED <<now, boot, started, real, steps, collector, center, faults>>
    BY <1>9 DEF XrayExit
  <2> QED  BY <2>1, <2>2 DEF collector, center, IsCounterMap
<1>10. CASE XrayStart
  BY <1>10 DEF XrayStart, xray, collector, center
<1>11. ASSUME NEW u \in Users, Reset(u)
       PROVE  TypeOK'
  BY <1>11 DEF Reset, xray, collector, center
<1>12. ASSUME NEW u \in Users, NEW dir \in Directions, Traffic(u, dir)
       PROVE  TypeOK'
  BY <1>12 DEF Traffic, xray, collector, center, Directions
<1>13. CASE UNCHANGED vars
  BY <1>13 DEF vars, xray, collector, center
<1> QED
  BY <1>1, <1>2, <1>3, <1>4, <1>5, <1>6, <1>7, <1>8, <1>9, <1>10, <1>11, <1>12, <1>13
     DEF Next, CollectorStep

\* Every step keeps the center's last counters those of the spool.
LEMMA StoredStep ==
    ASSUME TypeOK, StoredInv, [Next]_vars
    PROVE  StoredInv'
<1> USE TrafficAssumption
<1> USE DEF StoredInv, StoredLabel
<1>1. CASE ReadState
  BY <1>1 DEF ReadState, RuntimeID, xray, collector, center
<1>2. CASE Query
  BY <1>2 DEF Query, xray, collector, center
<1>3. CASE Store
  <2> SUFFICES ASSUME NEW u \in Users
               PROVE  (IF stored[u] = None THEN DOMAIN last[u] = {}
                       ELSE /\ StoredLabel(u) \in DOMAIN last[u]
                            /\ last[u][StoredLabel(u)].up = stored[u].up
                            /\ last[u][StoredLabel(u)].down = stored[u].down)'
    OBVIOUS
  <2>1. CASE u \in DOMAIN values
    <3>1. values[u].up \in Nat /\ values[u].down \in Nat /\ runtimeID \in Int
      BY <2>1 DEF TypeOK, IsCounterMap, Counter
    <3>2. /\ Epoch(u) \in Nat
          /\ stored'[u] = [runtime |-> runtimeID, epoch |-> Epoch(u),
                           up |-> values[u].up, down |-> values[u].down]
      <4> HIDE DEF StoredInv
      <4> QED  BY <1>3, <2>1, StoreEffect
    <3>3. stored'[u] # None
      BY <3>1, <3>2
    <3>4. StoredLabel(u)' = [runtime |-> runtimeID, epoch |-> Epoch(u)]
      BY <3>2
    <3>5. /\ StoredLabel(u)' \in DOMAIN last'[u]
          /\ last'[u][StoredLabel(u)'] = values[u]
      <4> HIDE DEF StoredInv, StoredLabel
      <4> QED  BY <1>3, <2>1, <3>4, StoreEffect
    <3> QED  BY <3>2, <3>3, <3>5
  <2>2. CASE u \notin DOMAIN values
    <3>1. stored'[u] = stored[u] /\ last'[u] = last[u]
      BY <1>3, <2>2 DEF Store
    <3> QED  BY <3>1
  <2> QED  BY <2>1, <2>2
<1>4. CASE StoreFull
  BY <1>4 DEF StoreFull, xray, collector, center
<1>5. CASE CollectOnline
  BY <1>5 DEF CollectOnline, Idle, xray, collector, center
<1>6. CASE Crash
  BY <1>6 DEF Crash, Idle, xray, collector, center
<1>7. CASE Tick
  BY <1>7 DEF Tick, xray, collector, center
<1>8. CASE ClockStep
  BY <1>8 DEF ClockStep, xray, collector, center
<1>9. CASE XrayExit
  BY <1>9 DEF XrayExit, xray, collector, center
<1>10. CASE XrayStart
  BY <1>10 DEF XrayStart, xray, collector, center
<1>11. ASSUME NEW u \in Users, Reset(u)
       PROVE  StoredInv'
  BY <1>11 DEF Reset, xray, collector, center
<1>12. ASSUME NEW u \in Users, NEW dir \in Directions, Traffic(u, dir)
       PROVE  StoredInv'
  BY <1>12 DEF Traffic, xray, collector, center
<1>13. CASE UNCHANGED vars
  BY <1>13 DEF vars, xray, collector, center
<1> QED
  BY <1>1, <1>2, <1>3, <1>4, <1>5, <1>6, <1>7, <1>8, <1>9, <1>10, <1>11, <1>12, <1>13
     DEF Next, CollectorStep

\* Every step keeps the stored label the newest one.
LEMMA LabelStep ==
    ASSUME TypeOK, StoredInv, LabelInv, [Next]_vars
    PROVE  LabelInv'
<1> USE TrafficAssumption
<1> USE DEF TypeOK, LabelInv
<1>1. CASE ReadState
  BY <1>1 DEF ReadState, RuntimeID, xray, collector, center
<1>2. CASE Query
  BY <1>2 DEF Query, xray, collector, center
<1>3. CASE Store
  <2> SUFFICES ASSUME steps = 0, NEW u \in Users, stored'[u] # None
               PROVE  /\ stored'[u].runtime <= started
                      /\ \A l \in DOMAIN last'[u] :
                            \/ l.runtime < stored'[u].runtime
                            \/ l.runtime = stored'[u].runtime /\ l.epoch <= stored'[u].epoch
    BY <1>3 DEF Store, xray
  <2>1. CASE u \in DOMAIN values
    <3>1. /\ Epoch(u) \in Nat /\ stored'[u].runtime = runtimeID /\ stored'[u].epoch = Epoch(u)
          /\ DOMAIN last'[u] = DOMAIN last[u] \cup {[runtime |-> runtimeID, epoch |-> Epoch(u)]}
      <4> HIDE DEF TypeOK, LabelInv
      <4>1. stored'[u] = [runtime |-> runtimeID, epoch |-> Epoch(u),
                          up |-> values[u].up, down |-> values[u].down]
        BY <1>3, <2>1, StoreEffect
      <4> QED  BY <1>3, <2>1, <4>1, StoreEffect
    <3>2. runtimeID <= started /\ (stored[u] # None => stored[u].runtime <= runtimeID)
      BY <1>3 DEF Store
    <3>3. ASSUME NEW l \in DOMAIN last[u]
          PROVE  l.runtime < runtimeID \/ (l.runtime = runtimeID /\ l.epoch <= Epoch(u))
      <4>1. stored[u] # None /\ l \in Label
        BY <3>3 DEF StoredInv
      <4>2. stored[u].runtime \in Int /\ stored[u].epoch \in Nat
        BY <4>1
      <4> QED  BY <3>2, <4>1, <4>2 DEF Epoch, Label
    <3> QED  BY <3>1, <3>2, <3>3
  <2>2. CASE u \notin DOMAIN values
    BY <1>3, <2>2 DEF Store
  <2> QED  BY <2>1, <2>2
<1>4. CASE StoreFull
  BY <1>4 DEF StoreFull, xray, collector, center
<1>5. CASE CollectOnline
  BY <1>5 DEF CollectOnline, Idle, xray, collector, center
<1>6. CASE Crash
  BY <1>6 DEF Crash, Idle, xray, collector, center
<1>7. CASE Tick
  BY <1>7 DEF Tick, xray, collector, center
<1>8. CASE ClockStep
  BY <1>8 DEF ClockStep, xray, collector, center
<1>9. CASE XrayExit
  BY <1>9 DEF XrayExit, xray, collector, center
<1>10. CASE XrayStart
  BY <1>10 DEF XrayStart, xray, collector, center
<1>11. ASSUME NEW u \in Users, Reset(u)
       PROVE  LabelInv'
  BY <1>11 DEF Reset, xray, collector, center
<1>12. ASSUME NEW u \in Users, NEW dir \in Directions, Traffic(u, dir)
       PROVE  LabelInv'
  BY <1>12 DEF Traffic, xray, collector, center
<1>13. CASE UNCHANGED vars
  BY <1>13 DEF vars, xray, collector, center
<1> QED
  BY <1>1, <1>2, <1>3, <1>4, <1>5, <1>6, <1>7, <1>8, <1>9, <1>10, <1>11, <1>12, <1>13
     DEF Next, CollectorStep

\* The numbers the accounting argument adds up.
LEMMA RoomType ==
    ASSUME TypeOK, NEW u \in Users
    PROVE  /\ Room(u) \in Int /\ Held(u) = Level(u, "up") + Level(u, "down")
           /\ Level(u, "up") \in Nat /\ Level(u, "down") \in Nat
           /\ stored[u] # None =>
                 /\ stored[u].up \in Nat /\ stored[u].down \in Nat
                 /\ Sum(stored[u]) = stored[u].up + stored[u].down
           /\ u \in DOMAIN values =>
                 /\ values[u].up \in Nat /\ values[u].down \in Nat
                 /\ Sum(values[u]) = values[u].up + values[u].down
BY LevelType DEF TypeOK, Room, Held, Sum, IsCounterMap, Counter

\* A snapshot that is dropped, or whose collector dies, leaves the room to the
\* counters.
LEMMA RoomWithoutSnapshot ==
    ASSUME TypeOK, RoomInv, NEW u \in Users
    PROVE  CounterRoom(u)
BY RoomType DEF RoomInv, CounterRoom, SnapshotRoom, Continues

\* The store step: what the center adds comes out of the room, and a
\* snapshot with a misleading id brings its own.
LEMMA RoomAfterStore ==
    ASSUME TypeOK, StoredInv, RoomInv, Store, NEW u \in Users, u \in DOMAIN values
    PROVE  \/ Room(u)' >= Held(u)
           \/ /\ from = run /\ values[u].up <= Level(u, "up") /\ values[u].down <= Level(u, "down")
              /\ Room(u)' >= Held(u) - Sum(values[u])
<1>1. PICK base \in Nat :
          /\ total'[u] = total[u] + Sum(values[u]) - base
          /\ Continues(u) /\ ~Misnamed(u) => base = Sum(stored[u])
  BY StoreEffect
<1>2. excess'[u] = excess[u] + (IF Misnamed(u) THEN Sum(values[u]) ELSE 0) /\ real' = real
  BY StoreEffect DEF Store, xray
<1>3. Sum(values[u]) \in Nat /\ real[u] \in Int /\ excess[u] \in Int /\ total[u] \in Int
  BY RoomType DEF TypeOK
<1>4. Room(u)' = Room(u) + base - (IF Misnamed(u) THEN 0 ELSE Sum(values[u]))
  BY <1>1, <1>2, <1>3 DEF Room
<1>5. SnapshotRoom(u)
  BY DEF Store, RoomInv
<1>6. CASE Misnamed(u)
  BY <1>4, <1>5, <1>6, RoomType DEF SnapshotRoom, Continues
<1>7. CASE ~Misnamed(u)
  <2>1. Room(u)' = Room(u) + base - Sum(values[u]) /\ (Continues(u) => base = Sum(stored[u]))
    BY <1>1, <1>4, <1>7
  <2>2. Continues(u) => Room(u)' = Room(u) + Sum(stored[u]) - Sum(values[u]) /\ stored[u] # None
    BY <2>1 DEF Continues
  <2> QED  BY <1>5, <2>1, <2>2, RoomType DEF SnapshotRoom
<1> QED  BY <1>6, <1>7

\* Every step keeps room for what the counters and a snapshot can add.
LEMMA RoomStep ==
    ASSUME TypeOK, StoredInv, RoomInv, [Next]_vars
    PROVE  RoomInv'
<1> USE TrafficAssumption
<1> USE DEF RoomInv
<1>1. CASE ReadState
  BY <1>1 DEF ReadState, RuntimeID, xray, collector, center, CounterRoom,
     SnapshotRoom, Continues, Room, Held, Level
<1>2. CASE Query
  <2> SUFFICES ASSUME NEW u \in Users
               PROVE  (IF pc = "store" /\ u \in DOMAIN values THEN SnapshotRoom(u)
                       ELSE CounterRoom(u))'
    BY <1>2 DEF Query, xray
  <2>1. CounterRoom(u) /\ UNCHANGED <<counters, stored, real, total, excess, source, run>>
    BY <1>2, RoomWithoutSnapshot DEF Query, xray, center
  <2>2. CounterRoom(u)'
    BY <2>1 DEF CounterRoom, Room, Held, Level
  <2>3. CASE pc' = "store" /\ u \in DOMAIN values'
    <3>1. from' = run /\ values'[u].up = Level(u, "up") /\ values'[u].down = Level(u, "down")
      BY <1>2, <2>3, StatsEffect DEF Query
    <3>2. Level(u, "up") \in Nat /\ Level(u, "down") \in Nat /\ Level(u, "up")' = Level(u, "up")
          /\ Level(u, "down")' = Level(u, "down") /\ Room(u)' = Room(u) /\ Held(u)' = Held(u)
      BY <2>1, LevelType DEF Room, Held, Level
    <3> QED  BY <2>1, <2>3, <3>1, <3>2 DEF CounterRoom, SnapshotRoom, Continues
  <2> QED  BY <2>2, <2>3
<1>3. CASE Store
  <2> SUFFICES ASSUME NEW u \in Users PROVE CounterRoom(u)'
    BY <1>3 DEF Store, xray
  <2>1. UNCHANGED <<counters, run>> /\ Held(u)' = Held(u)
        /\ Level(u, "up")' = Level(u, "up") /\ Level(u, "down")' = Level(u, "down")
    BY <1>3 DEF Store, xray, Held, Level
  <2>2. CASE u \in DOMAIN values
    <3>1. /\ stored'[u] = [runtime |-> runtimeID, epoch |-> Epoch(u),
                           up |-> values[u].up, down |-> values[u].down]
          /\ source'[u] = from /\ Epoch(u) \in Nat
      BY <1>3, <2>2, StoreEffect
    <3>2. stored'[u] # None /\ Sum(stored'[u]) = Sum(values[u])
          /\ stored'[u].up = values[u].up /\ stored'[u].down = values[u].down
      BY <2>2, <3>1 DEF TypeOK, IsCounterMap, Counter, Sum
    <3> QED  BY <1>3, <2>1, <2>2, <3>1, <3>2, RoomAfterStore DEF CounterRoom
  <2>3. CASE u \notin DOMAIN values
    <3>1. CounterRoom(u)
      BY RoomWithoutSnapshot
    <3>2. Room(u)' = Room(u) /\ stored'[u] = stored[u] /\ source'[u] = source[u]
      BY <1>3, <2>3 DEF Store, Room, xray, TypeOK
    <3> QED  BY <2>1, <3>1, <3>2 DEF CounterRoom
  <2> QED  BY <2>2, <2>3
<1>4. CASE StoreFull
  <2> SUFFICES ASSUME NEW u \in Users PROVE CounterRoom(u)'
    BY <1>4 DEF StoreFull, xray
  <2>1. CounterRoom(u) /\ UNCHANGED <<counters, stored, real, total, excess, source, run>>
    BY <1>4, RoomWithoutSnapshot DEF StoreFull, xray, center
  <2> QED  BY <2>1 DEF CounterRoom, Room, Held, Level
<1>5. CASE CollectOnline
  <2> SUFFICES ASSUME NEW u \in Users PROVE CounterRoom(u)'
    BY <1>5 DEF CollectOnline, Idle, xray
  <2>1. CounterRoom(u) /\ UNCHANGED <<counters, stored, real, total, excess, source, run>>
    BY <1>5, RoomWithoutSnapshot DEF CollectOnline, xray, center
  <2> QED  BY <2>1 DEF CounterRoom, Room, Held, Level
<1>6. CASE Crash
  <2> SUFFICES ASSUME NEW u \in Users PROVE CounterRoom(u)'
    BY <1>6 DEF Crash, Idle, xray
  <2>1. CounterRoom(u) /\ UNCHANGED <<counters, stored, real, total, excess, source, run>>
    BY <1>6, RoomWithoutSnapshot DEF Crash, xray, center
  <2> QED  BY <2>1 DEF CounterRoom, Room, Held, Level
<1>7. CASE Tick
  BY <1>7 DEF Tick, xray, collector, center, CounterRoom, SnapshotRoom, Continues,
     Room, Held, Level
<1>8. CASE ClockStep
  BY <1>8 DEF ClockStep, xray, collector, center, CounterRoom, SnapshotRoom,
     Continues, Room, Held, Level
<1>9. CASE XrayExit
  <2> SUFFICES ASSUME NEW u \in Users
               PROVE  (IF pc = "store" /\ u \in DOMAIN values THEN SnapshotRoom(u)
                       ELSE CounterRoom(u))'
    BY <1>9 DEF XrayExit, collector
  <2>1. /\ Level(u, "up")' = 0 /\ Level(u, "down")' = 0 /\ Held(u)' = 0 /\ Room(u)' = Room(u)
        /\ UNCHANGED <<stored, source, values, from, pc>>
    BY <1>9 DEF XrayExit, Nobody, Level, Held, Room, collector, center
  <2> QED  BY <2>1, RoomType DEF CounterRoom, SnapshotRoom, Continues, Sum
<1>10. CASE XrayStart
  <2> SUFFICES ASSUME NEW u \in Users
               PROVE  (IF pc = "store" /\ u \in DOMAIN values THEN SnapshotRoom(u)
                       ELSE CounterRoom(u))'
    BY <1>10 DEF XrayStart, collector
  <2>1. /\ Level(u, "up") = 0 /\ Level(u, "down") = 0 /\ Held(u) = 0
        /\ Held(u)' = 0 /\ Room(u)' = Room(u) /\ run = 0
        /\ UNCHANGED <<stored, source, values, from, pc>>
    BY <1>10 DEF XrayStart, Nobody, Level, Held, Room, collector, center
  <2> QED  BY <2>1, RoomType DEF CounterRoom, SnapshotRoom, Continues, Sum
<1>11. ASSUME NEW u \in Users, Reset(u)
       PROVE  RoomInv'
  <2> SUFFICES ASSUME NEW v \in Users
               PROVE  (IF pc = "store" /\ v \in DOMAIN values THEN SnapshotRoom(v)
                       ELSE CounterRoom(v))'
    BY <1>11 DEF Reset, collector, Nobody
  <2>1. Room(v)' = Room(v) /\ UNCHANGED <<stored, source, values, from, pc, run>>
    BY <1>11 DEF Reset, Room, collector, center
  <2>2. CASE v = u
    <3>1. Level(v, "up")' = 0 /\ Level(v, "down")' = 0 /\ Held(v)' = 0
      BY <1>11, <2>2, ResetEffect DEF Held
    <3> QED  BY <2>1, <3>1, RoomType DEF CounterRoom, SnapshotRoom, Continues
  <2>3. CASE v # u
    <3>1. /\ Level(v, "up")' = Level(v, "up") /\ Level(v, "down")' = Level(v, "down")
          /\ Held(v)' = Held(v)
      BY <1>11, <2>3, ResetEffect DEF Held
    <3> QED  BY <2>1, <3>1 DEF CounterRoom, SnapshotRoom, Continues
  <2> QED  BY <2>2, <2>3
<1>12. ASSUME NEW u \in Users, NEW dir \in Directions, Traffic(u, dir)
       PROVE  RoomInv'
  <2> SUFFICES ASSUME NEW v \in Users
               PROVE  (IF pc = "store" /\ v \in DOMAIN values THEN SnapshotRoom(v)
                       ELSE CounterRoom(v))'
    BY <1>12 DEF Traffic, collector
  <2>1. UNCHANGED <<stored, source, values, from, pc, run>>
    BY <1>12 DEF Traffic, collector, center
  <2>2. CASE v = u
    <3>1. /\ Level(v, "up")' \in Nat /\ Level(v, "down")' \in Nat
          /\ Level(v, "up")' >= Level(v, "up") /\ Level(v, "down")' >= Level(v, "down")
          /\ Held(v)' = Held(v) + 1 /\ Room(v)' = Room(v) + 1
      BY <1>12, <2>2, TrafficEffect
    <3> QED  BY <2>1, <3>1, RoomType DEF CounterRoom, SnapshotRoom, Continues
  <2>3. CASE v # u
    <3>1. /\ Level(v, "up")' = Level(v, "up") /\ Level(v, "down")' = Level(v, "down")
          /\ Held(v)' = Held(v) /\ Room(v)' = Room(v)
      BY <1>12, <2>3, TrafficEffect
    <3> QED  BY <2>1, <3>1 DEF CounterRoom, SnapshotRoom, Continues
  <2> QED  BY <2>2, <2>3
<1>13. CASE UNCHANGED vars
  BY <1>13 DEF vars, xray, collector, center, CounterRoom, SnapshotRoom, Continues,
     Room, Held, Level
<1> QED
  BY <1>1, <1>2, <1>3, <1>4, <1>5, <1>6, <1>7, <1>8, <1>9, <1>10, <1>11, <1>12, <1>13
     DEF Next, CollectorStep

-----------------------------------------------------------------------------
(* Theorems *)

\* Every reachable state of Xray, collector and center satisfies the inductive
\* invariant.
THEOREM Invariance == Spec => []Inv
<1>1. Init => Inv
  <2> SUFFICES ASSUME Init PROVE Inv
    OBVIOUS
  <2> USE TrafficAssumption DEF Init, Nobody, Zero
  <2>1. DOMAIN counters = {} /\ DOMAIN values = {} /\ \A u \in Users : DOMAIN last[u] = {}
    OBVIOUS
  <2>2. dropped \in BOOLEAN
    OBVIOUS
  <2>3. TypeOK
    BY <2>1, <2>2 DEF TypeOK, IsCounterMap
  <2>4. StoredInv /\ LabelInv
    BY <2>1 DEF StoredInv, LabelInv
  <2>5. RoomInv
    BY <2>1 DEF RoomInv, CounterRoom, Room, Held, Level
  <2> QED  BY <2>3, <2>4, <2>5 DEF Inv
<1>2. Inv /\ [Next]_vars => Inv'
  BY TypeStep, StoredStep, LabelStep, RoomStep DEF Inv
<1> QED  BY <1>1, <1>2, PTL DEF Spec

\* Counters, labels and histories of collector and center stay well formed.
THEOREM TypeCorrect == Spec => []TypeOK
<1>1. Inv => TypeOK
  BY DEF Inv
<1> QED  BY <1>1, Invariance, PTL

\* However Xray restarts, its counters are reset, snapshots are dropped and
\* the agent dies, the center counts at most the traffic there was, but for
\* snapshots with a misleading id.
THEOREM NothingIsCountedTwice == Spec => []NeverOvercounted
<1>1. Inv => NeverOvercounted
  <2> SUFFICES ASSUME Inv, NEW u \in Users PROVE total[u] <= real[u] + excess[u]
    BY DEF NeverOvercounted
  <2>1. CounterRoom(u) /\ TypeOK
    BY RoomWithoutSnapshot DEF Inv
  <2>2. Room(u) >= 0
    BY <2>1, RoomType DEF CounterRoom
  <2> QED  BY <2>1, <2>2 DEF Room, TypeOK
<1> QED  BY <1>1, Invariance, PTL

\* As long as nobody sets the clock, no counter goes back under a label that
\* the center already knows.
THEOREM LabelsAreMonotone == Spec => LabelsNeverDecrease
<1>1. Inv /\ [Next]_vars =>
        [steps' = 0 => \A u \in Users : \A l \in DOMAIN last[u] :
            last'[u][l].up >= last[u][l].up /\ last'[u][l].down >= last[u][l].down]_vars
  <2> SUFFICES ASSUME Inv, [Next]_vars, steps' = 0, NEW u \in Users, NEW l \in DOMAIN last[u]
               PROVE  last'[u][l].up >= last[u][l].up /\ last'[u][l].down >= last[u][l].down
    OBVIOUS
  <2>1. last[u][l] \in Counter
    BY DEF Inv, TypeOK
  <2>2. CASE UNCHANGED last
    BY <2>1, <2>2 DEF Counter
  <2>3. CASE Store
    <3>1. CASE u \in DOMAIN values
      <4>1. stored[u] # None /\ steps = 0 /\ pc = "store"
        BY <2>3 DEF Inv, StoredInv, Store, xray
      <4>2. last'[u][l] = IF l = [runtime |-> runtimeID, epoch |-> Epoch(u)]
                          THEN values[u] ELSE last[u][l]
        BY <2>3, <3>1, StoreEffect DEF Inv
      <4>3. CASE l = [runtime |-> runtimeID, epoch |-> Epoch(u)]
        <5>1. l.runtime = runtimeID /\ l.epoch = Epoch(u)
          BY <4>3
        <5>2. /\ stored[u].runtime <= runtimeID
              /\ l.runtime < stored[u].runtime
                 \/ (l.runtime = stored[u].runtime /\ l.epoch <= stored[u].epoch)
          BY <4>1 DEF Inv, LabelInv
        <5>3. /\ stored[u].runtime \in Int /\ stored[u].epoch \in Nat /\ runtimeID \in Int
              /\ stored[u].up \in Nat /\ stored[u].down \in Nat
              /\ values[u].up \in Nat /\ values[u].down \in Nat
          BY <3>1, <4>1 DEF Inv, TypeOK, IsCounterMap, Counter
        <5>4. stored[u].runtime = runtimeID
          BY <5>1, <5>2, <5>3
        <5>5. ~WentBack(values[u], stored[u]) /\ l.epoch = stored[u].epoch
          BY <4>1, <5>1, <5>2, <5>3, <5>4 DEF Epoch
        <5>6. l = StoredLabel(u)
          BY <4>3, <5>1, <5>4, <5>5 DEF StoredLabel
        <5>7. last[u][l].up = stored[u].up /\ last[u][l].down = stored[u].down
          BY <4>1, <5>6 DEF Inv, StoredInv
        <5> QED  BY <4>2, <4>3, <5>3, <5>5, <5>7 DEF WentBack
      <4>4. CASE l # [runtime |-> runtimeID, epoch |-> Epoch(u)]
        BY <2>1, <4>2, <4>4 DEF Counter
      <4> QED  BY <4>3, <4>4
    <3>2. CASE u \notin DOMAIN values
      BY <2>1, <2>3, <3>2 DEF Store, Counter
    <3> QED  BY <3>1, <3>2
  <2> QED
    BY <2>2, <2>3
       DEF Next, CollectorStep, ReadState, Query, StoreFull, CollectOnline, Crash, Tick,
           ClockStep, XrayExit, XrayStart, Reset, Traffic, vars, center
<1> QED  BY <1>1, Invariance, PTL DEF Spec, LabelsNeverDecrease
=============================================================================
