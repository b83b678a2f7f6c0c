--------------------------- MODULE TrafficCounter ---------------------------
(***************************************************************************)
(* The Xray statistics collector (internal/telemetry/xray.go) and the      *)
(* labels it gives traffic counters.                                       *)
(*                                                                         *)
(* Xray counts the bytes of every user since it started.  The collector    *)
(* reads the process's start time (status.Collector, in whole seconds) as  *)
(* the runtime id, then asks Xray for the counters, then stores the        *)
(* snapshot and the counters in one transaction.  Xray may restart between *)
(* any two of these steps, also within one second, a counter may be reset  *)
(* within a run, and the clock may be set, which moves the boot time the   *)
(* start time is computed from.                                            *)
(*                                                                         *)
(* The center is external: it counts what a counter grew by since the last *)
(* snapshot with the same runtime id and epoch, all of it for a new pair.  *)
(* EventSpool shows that accepted snapshots reach it once and in order.    *)
(***************************************************************************)
EXTENDS Integers, FiniteSets

CONSTANTS
    Users,
    None,
    MaxTraffic,     \* bound: units of traffic of a user
    MaxSeconds,     \* bound: seconds that pass
    MaxRestarts,    \* bound: restarts of Xray and counter resets
    MaxSteps,       \* bound: changes of the boot time
    MaxFaults       \* bound: crashes, full spools, failing calls

ASSUME TrafficAssumption ==
    /\ {MaxTraffic, MaxSeconds, MaxRestarts, MaxSteps, MaxFaults} \subseteq Nat
    /\ None \notin [runtime : Int, epoch : Nat, up : Nat, down : Nat]

VARIABLES
    now, boot,      \* seconds since boot; shift of the boot time
    run,            \* number of the Xray process, 0 when there is none
    started,        \* second since boot in which it was started
    counters,       \* Xray: one counter for each user and direction it has seen
    stored,         \* bucketCounters
    pc, runtimeID,  \* collect: label, id read from the process
    asked,          \* run whose start time was read (history) ...
    values, from,   \* ... answer of statsquery and the run that gave it
    dropped,        \* RecordDrop was called
    last, total,    \* center: last counters of a label, traffic counted
    real,           \* history: traffic there was
    source,         \* history: run of the last snapshot of a user
    excess,         \* history: sent under the id of another process, or a second id
    runs, steps, faults

xray      == <<now, boot, run, started, counters, real, runs, steps>>
collector == <<stored, pc, runtimeID, asked, values, from, dropped>>
center    == <<last, total, source, excess>>
vars      == <<xray, collector, center, faults>>

Directions == {"up", "down"}
Counter    == [up : Nat, down : Nat]
Zero       == [up |-> 0, down |-> 0]
Label      == [runtime : Int, epoch : Nat]
Nobody     == [u \in {} |-> Zero]
Sum(c)     == c.up + c.down

IsCounterMap(f) == DOMAIN f \subseteq Users /\ \A u \in DOMAIN f : f[u] \in Counter

TypeOK ==
    /\ now \in Nat /\ boot \in {0, 1}
    /\ run \in Nat /\ started \in Nat
    /\ DOMAIN counters \subseteq Users \X Directions
    /\ \A c \in DOMAIN counters : counters[c] \in Nat
    /\ IsCounterMap(values)
    /\ stored \in [Users -> [runtime : Int, epoch : Nat, up : Nat, down : Nat] \cup {None}]
    /\ pc \in {"idle", "query", "store", "online"}
    /\ runtimeID \in Int /\ {asked, from} \subseteq Nat
    /\ dropped \in BOOLEAN
    /\ \A u \in Users : DOMAIN last[u] \subseteq Label
                        /\ \A l \in DOMAIN last[u] : last[u][l] \in Counter
    /\ total \in [Users -> Int]
    /\ {real, source, excess} \subseteq [Users -> Nat]
    /\ {runs, steps, faults} \subseteq Nat

Init ==
    /\ now = 1 /\ boot = 0
    /\ run = 1 /\ started = 1 /\ counters = Nobody
    /\ stored = [u \in Users |-> None]
    /\ pc = "idle" /\ runtimeID = 0 /\ asked = 0 /\ values = Nobody /\ from = 0
    /\ dropped = FALSE
    /\ last = [u \in Users |-> [l \in {} |-> Zero]]
    /\ total = [u \in Users |-> 0]
    /\ real = [u \in Users |-> 0]
    /\ source = [u \in Users |-> 0] /\ excess = [u \in Users |-> 0]
    /\ runs = 1 /\ steps = 0 /\ faults = 0

-----------------------------------------------------------------------------
(* Xray, its supervisor and the clock: external *)

Tick ==
    /\ now < MaxSeconds /\ now' = now + 1
    /\ UNCHANGED <<boot, run, started, counters, real, runs, steps, collector,
                   center, faults>>

\* The clock is set: from now on the boot time reads one second later, or as
\* before.
ClockStep ==
    /\ steps < MaxSteps /\ steps' = steps + 1
    /\ boot' = 1 - boot
    /\ UNCHANGED <<now, run, started, counters, real, runs, collector, center, faults>>

\* A counter appears with the first traffic in its direction.
Traffic(u, dir) ==
    /\ run # 0 /\ real[u] < MaxTraffic
    /\ counters' = [c \in DOMAIN counters \cup {<<u, dir>>} |->
          (IF c \in DOMAIN counters THEN counters[c] ELSE 0)
              + (IF c = <<u, dir>> THEN 1 ELSE 0)]
    /\ real' = [real EXCEPT ![u] = @ + 1]
    /\ UNCHANGED <<now, boot, run, started, runs, steps, collector, center, faults>>

XrayExit ==
    /\ run # 0 /\ runs <= MaxRestarts
    /\ runs' = runs + 1 /\ run' = 0 /\ counters' = Nobody
    /\ UNCHANGED <<now, boot, started, real, steps, collector, center, faults>>

XrayStart ==
    /\ run = 0 /\ run' = runs /\ started' = now
    /\ UNCHANGED <<now, boot, counters, real, runs, steps, collector, center, faults>>

\* The counters of a user start again within a run.
Reset(u) ==
    /\ {u} \X Directions \cap DOMAIN counters # {} /\ runs <= MaxRestarts
    /\ runs' = runs + 1
    /\ counters' = [c \in DOMAIN counters |-> IF c[1] = u THEN 0 ELSE counters[c]]
    /\ UNCHANGED <<now, boot, run, started, real, steps, collector, center, faults>>

-----------------------------------------------------------------------------
(* XrayCollector.collect *)

Idle == pc' = "idle" /\ runtimeID' = 0 /\ asked' = 0 /\ values' = Nobody /\ from' = 0

\* processStartedAt
RuntimeID == boot + started

\* processStatus
Running == run # 0

\* Collector.Xray: without a process there is nothing to collect.
ReadState ==
    /\ pc = "idle" /\ Running
    /\ pc' = "query" /\ runtimeID' = RuntimeID /\ asked' = run
    /\ UNCHANGED <<xray, stored, values, from, dropped, center, faults>>

\* Mutant: the statistics are kept under the counter's name, not the user's.
TrafficStatsByCounter == counters

\* parseTrafficStats: a pair for every user, zero for a direction without a
\* counter.
TrafficStats ==
    [u \in {c[1] : c \in DOMAIN counters} |->
        [d \in Directions |-> IF <<u, d>> \in DOMAIN counters THEN counters[<<u, d>>] ELSE 0]]

\* collectTraffic: the Xray API command.  When it fails the error is recorded
\* and the online users are still asked for.
Query ==
    /\ pc = "query"
    /\ \/ run # 0 /\ values' = TrafficStats /\ from' = run /\ pc' = "store"
       \/ pc' = "online" /\ UNCHANGED <<values, from>>
    /\ UNCHANGED <<xray, stored, runtimeID, asked, dropped, center, faults>>

\* Mutant: an equal counter starts an epoch as well.
WentBackOrStayed(v, s) == v.up <= s.up \/ v.down <= s.down

\* Mutant: only a counter that went back in both directions starts an epoch.
WentBackTwice(v, s) == v.up < s.up /\ v.down < s.down

\* One of the two counters is lower than the stored one.
WentBack(v, s) == v.up < s.up \/ v.down < s.down

\* The epoch of user u's counters.
Epoch(u) ==
    IF stored[u] = None \/ stored[u].runtime # runtimeID THEN 0
    ELSE stored[u].epoch + (IF WentBack(values[u], stored[u]) THEN 1 ELSE 0)

\* The center, external.
Count(u) ==
    LET label == [runtime |-> runtimeID, epoch |-> Epoch(u)]
        base  == IF label \in DOMAIN last[u] THEN last[u][label] ELSE Zero
    IN  [last  |-> [l \in DOMAIN last[u] \cup {label} |->
                      IF l = label THEN values[u] ELSE last[u][l]],
         total |-> total[u] + Sum(values[u]) - Sum(base)]

\* The snapshot's id is that of a process that is gone, or not the one that
\* the same process had in its last snapshot.
Misnamed(u) ==
    from # asked \/ (source[u] = from /\ stored[u].runtime # runtimeID)

\* EnqueueTrafficSnapshot: the snapshot and the counters in one transaction.
Store ==
    /\ pc = "store"
    /\ stored' = [u \in Users |->
          IF u \in DOMAIN values
            THEN [runtime |-> runtimeID, epoch |-> Epoch(u),
                  up |-> values[u].up, down |-> values[u].down]
            ELSE stored[u]]
    /\ last' = [u \in Users |-> IF u \in DOMAIN values THEN Count(u).last ELSE last[u]]
    /\ total' = [u \in Users |-> IF u \in DOMAIN values THEN Count(u).total ELSE total[u]]
    /\ source' = [u \in Users |-> IF u \in DOMAIN values THEN from ELSE source[u]]
    /\ excess' = [u \in Users |->
          excess[u] + (IF u \in DOMAIN values /\ Misnamed(u) THEN Sum(values[u]) ELSE 0)]
    /\ pc' = "online"
    /\ UNCHANGED <<xray, runtimeID, asked, values, from, dropped, faults>>

\* The spool is full: the drop is counted, the stored counters stay.
StoreFull ==
    /\ pc = "store" /\ faults < MaxFaults
    /\ faults' = faults + 1
    /\ dropped' = TRUE /\ pc' = "online"
    /\ UNCHANGED <<xray, stored, runtimeID, asked, values, from, center>>

\* collectOnline: a snapshot that carries no counters, or an error.  With a
\* full spool a traffic snapshot is counted as dropped here as well.
CollectOnline ==
    /\ pc = "online" /\ Idle
    /\ \/ UNCHANGED <<dropped, faults>>
       \/ faults < MaxFaults /\ faults' = faults + 1 /\ dropped' = TRUE
    /\ UNCHANGED <<xray, stored, center>>

\* The agent dies; the stored counters are on disk.
Crash ==
    /\ pc # "idle" /\ faults < MaxFaults
    /\ faults' = faults + 1
    /\ Idle
    /\ UNCHANGED <<xray, stored, dropped, center>>

-----------------------------------------------------------------------------
CollectorStep == ReadState \/ Query \/ Store \/ CollectOnline

Next ==
    \/ CollectorStep \/ StoreFull \/ Crash
    \/ Tick \/ ClockStep \/ XrayExit \/ XrayStart
    \/ \E u \in Users : Reset(u) \/ \E dir \in Directions : Traffic(u, dir)

Spec == Init /\ [][Next]_vars

-----------------------------------------------------------------------------
(* Properties *)

\* Under one runtime id and epoch the counters collectTraffic sends never go
\* back, over restarts within a second, resets, dropped snapshots and crashes:
\* a center that adds up differences never subtracts.  Setting the clock can
\* bring an old id back.
LabelsNeverDecrease ==
    [][ steps' = 0 => \A u \in Users : \A l \in DOMAIN last[u] :
            last'[u][l].up >= last[u][l].up /\ last'[u][l].down >= last[u][l].down ]_vars

\* The center never counts traffic twice, but for what a snapshot with a
\* misleading id can hold: a process asked under the id of the one before
\* (between c.state and statsquery), or one whose id changed with the clock.
NeverOvercounted == \A u \in Users : total[u] <= real[u] + excess[u]
=============================================================================
