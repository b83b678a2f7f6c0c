------------------------------ MODULE AccessLog ------------------------------
(***************************************************************************)
(* The access log collector (internal/telemetry/access.go) over a log file *)
(* that is written, rotated and truncated underneath it.                   *)
(*                                                                         *)
(* Xray writes line l in two pieces, 2l - 1 and 2l, the second ending in   *)
(* the newline; a file is the sequence of the pieces in it, and sizes and  *)
(* offsets count pieces.  A checkpoint is anchored by the digest of at     *)
(* most 64 bytes before its offset, the ending of the last piece, which    *)
(* different lines may share.  Inode numbers return once their file is     *)
(* gone, and a rotation may rename the files that are archived already.    *)
(*                                                                         *)
(* The collector looks at the log by name, compares what it saw with its   *)
(* checkpoint, and opens the log by name again: each system call and each  *)
(* transaction of the spool is a step, and the log may be rotated between  *)
(* any two.                                                                *)
(***************************************************************************)
EXTENDS Integers, Sequences, FiniteSets, FiniteSetsExt

CONSTANTS
    Inodes,         \* inode numbers
    Split,          \* lines that reach the file in two writes
    Ending,         \* the last 64 bytes of each piece, as a number
    None,
    MaxLines,       \* bound: lines written
    MaxRotations,   \* bound: rotations and truncations
    MaxFaults       \* bound: crashes and full spools

\* AccessCheckpoint: the file, how far it is read, and what comes before that.
Checkpoints == [inode : Inodes, offset : Nat, anchor : 1..2 * MaxLines \cup {None}]

ASSUME AccessAssumption ==
    /\ Inodes # {} /\ None \notin Inodes \cup Nat \cup Checkpoints
    /\ Split \subseteq Nat
    /\ Ending \in [1..2 * MaxLines -> Nat]
    /\ {MaxLines, MaxRotations, MaxFaults} \subseteq Nat

VARIABLES
    data,           \* content of each inode, also of one that is gone
    path,           \* the file of that name in the log directory
    archived,       \* files renamed within the log directory
    fd,             \* the file Xray writes to
    written,        \* lines begun
    half,           \* the last line is not finished
    cut,            \* lines never finished, Xray was killed
    cp,             \* the durable AccessCheckpoint
    queued,         \* access events accepted by the spool
    pc, seen,       \* collectOnce: label, currentInfo
    opened,         \* the file drain reads
    rotated,        \* the file that has the name findFileByIdentity found
    mistaken,       \* history: lines before an offset whose anchor another piece matched
    rotations, faults,
    races,          \* history: the log was renamed after the stat, before the open
    torn,           \* history: the log was truncated during a collection
    forgone         \* history: lines not owed, reported or out of reach

log       == <<data, path, archived, fd, written, half, cut>>
collector == <<cp, queued, pc, seen, opened>>
vars      == <<log, collector, rotated, rotations, faults, races, torn, forgone, mistaken>>

Labels == {"idle", "first", "anchor", "open", "drain", "find", "anchorRotated",
           "openRotated", "drainRotated", "move", "gap"}
Files  == Inodes \cup {None}

NotSeen == [inode |-> None, size |-> 0]

TypeOK ==
    /\ data \in [Inodes -> Seq(1..2 * MaxLines)]
    /\ path \in Files /\ archived \subseteq Inodes /\ fd \in Inodes
    /\ written \in 0..MaxLines /\ half \in BOOLEAN /\ cut \subseteq 1..MaxLines
    /\ cp \in Checkpoints \cup {None}
    /\ queued \in Seq(1..MaxLines)
    /\ pc \in Labels
    /\ seen \in [inode : Files, size : Nat]
    /\ {opened, rotated} \subseteq Files
    /\ {rotations, faults, races} \subseteq Nat
    /\ torn \in BOOLEAN
    /\ forgone \subseteq 1..MaxLines /\ mistaken \subseteq 1..MaxLines

Init ==
    /\ data = [i \in Inodes |-> <<>>]
    /\ path = (CHOOSE i \in Inodes : TRUE) /\ archived = {} /\ fd = path
    /\ written = 0 /\ half = FALSE /\ cut = {}
    /\ cp = None /\ queued = <<>>
    /\ pc = "idle" /\ seen = NotSeen /\ opened = None /\ rotated = None
    /\ rotations = 0 /\ faults = 0
    /\ races = 0 /\ torn = FALSE /\ forgone = {} /\ mistaken = {}

-----------------------------------------------------------------------------
(* What is in the files *)

\* Lines with a piece in s.
LinesIn(s) == {l \in 1..MaxLines : \E k \in DOMAIN s : s[k] \in {2 * l - 1, 2 * l}}
After(s, n) == SubSeq(s, n + 1, Len(s))

Finished == (1..written \ cut) \ (IF half THEN {written} ELSE {})
Inode    == IF cp = None THEN None ELSE cp.inode

\* checkpointWithLineAnchor, checkpointWithFileAnchor: file i is read up to
\* the offset n, and the piece that comes before it in s is remembered, of
\* which only the ending is known later.
CheckpointAt(i, s, n) ==
    [inode |-> i, offset |-> n, anchor |-> IF n = 0 THEN None ELSE s[n]]

\* checkpointAnchorMatches: what comes before the offset ends alike.
AnchorMatches(s) ==
    \/ cp.anchor = None
    \/ cp.offset <= Len(s) /\ Ending[s[cp.offset]] = Ending[cp.anchor]

\* Lines the checkpoint is taken to be past although it was made from another
\* piece, with the same ending.
Mistaken ==
    IF cp # None /\ cp.anchor # None /\ AnchorMatches(data[cp.inode])
          /\ data[cp.inode][cp.offset] # cp.anchor
      THEN LinesIn(SubSeq(data[cp.inode], 1, cp.offset)) ELSE {}

\* Lines of file i the checkpoint is not past; a file that has other content
\* than the checkpoint remembers is a new one.
Unread(i) ==
    LinesIn(IF i = Inode /\ AnchorMatches(data[i]) THEN After(data[i], cp.offset)
            ELSE data[i])

\* Files the collector still gets to: the one it is in and the current one.
Ahead == ({path} \cup (IF pc = "move" THEN {} ELSE {Inode})) \ {None}

\* Numbers for a new file.  Those the collector does not remember are
\* interchangeable, so one of them stands for all.
Fresh ==
    LET free  == Inodes \ (archived \cup {path, fd, opened})
        known == free \cap {Inode, seen.inode}
    IN  known \cup {i \in free \ known : i = (CHOOSE j \in free \ known : TRUE)}

\* A file is created.  Its number may be that of a file that is gone: what was
\* unread there is out of reach, as is what else a rotation takes away.
Create(i, taken) ==
    /\ data' = [data EXCEPT ![i] = <<>>]
    /\ forgone' = forgone \cup taken \cup (IF i = Inode THEN Unread(i) ELSE {})
    /\ torn' = (torn \/ (pc # "idle" /\ i \in {Inode, seen.inode}))

-----------------------------------------------------------------------------
(* Xray, log rotation: external *)

\* A line begun in a file the collector has already left is out of its reach.
Begin(line) ==
    /\ written' = line
    /\ forgone' = forgone \cup (IF fd \in Ahead THEN {} ELSE {line})

WriteLine ==
    /\ ~half /\ written < MaxLines /\ written + 1 \notin Split
    /\ Begin(written + 1)
    /\ data' = [data EXCEPT ![fd] = @ \o <<2 * written + 1, 2 * written + 2>>]
    /\ UNCHANGED <<path, archived, fd, half, cut, collector, rotated, rotations, faults,
                   races, torn>>

WriteHead ==
    /\ ~half /\ written < MaxLines /\ written + 1 \in Split
    /\ Begin(written + 1) /\ half' = TRUE
    /\ data' = [data EXCEPT ![fd] = Append(@, 2 * written + 1)]
    /\ UNCHANGED <<path, archived, fd, cut, collector, rotated, rotations, faults, races, torn>>

WriteTail ==
    /\ half /\ half' = FALSE
    /\ data' = [data EXCEPT ![fd] = Append(@, 2 * written)]
    /\ UNCHANGED <<path, archived, fd, written, cut, collector, rotated, rotations, faults,
                   races, torn, forgone>>

\* Xray reopens its log, on request or because it was killed and started again.
Reopen ==
    /\ \/ path # None /\ fd' = path /\ UNCHANGED <<data, path, torn, forgone>>
       \/ path = None /\ \E i \in Fresh : Create(i, {}) /\ path' = i /\ fd' = i
    /\ half' = FALSE /\ cut' = cut \cup (IF half THEN {written} ELSE {})
    /\ fd' # fd \/ half
    /\ UNCHANGED <<archived, written, collector, rotated, rotations, faults, races>>

\* The name of an archive may pass to a file that was rotated after it, and
\* that of the log to the new one.
Rename ==
    rotated' \in IF pc \notin {"anchorRotated", "openRotated"} THEN {rotated}
                 ELSE IF rotated = path THEN {path'}
                 ELSE {rotated, path, None} \cup (archived \ {Inode})

\* The log is renamed within its directory, with or without a new file in its
\* place; older archives may be renamed too.  A file rotated away before the
\* collector got to it is out of reach.
Rotate ==
    /\ path # None /\ rotations < MaxRotations
    /\ rotations' = rotations + 1
    /\ archived' = archived \cup {path}
    /\ races' = IF pc \in Labels \ {"idle", "drain"} THEN races + 1 ELSE races
    /\ LET taken == IF path = Inode THEN {} ELSE LinesIn(data[path])
       IN  \/ path' = None /\ forgone' = forgone \cup taken /\ UNCHANGED <<data, torn>>
           \/ \E i \in Fresh : path' = i /\ Create(i, taken)
    /\ Rename
    /\ UNCHANGED <<fd, written, half, cut, collector, faults>>

\* The log is copied elsewhere and truncated.
Truncate ==
    /\ path # None /\ rotations < MaxRotations
    /\ rotations' = rotations + 1
    /\ data' = [data EXCEPT ![path] = <<>>]
    /\ torn' = (torn \/ pc # "idle")
    /\ forgone' = forgone \cup Unread(path)
    /\ UNCHANGED <<path, archived, fd, written, half, cut, collector, rotated, faults, races>>

RemoveArchive ==
    /\ \E i \in archived : archived' = archived \ {i} /\ rotated' = IF rotated = i THEN None ELSE rotated
    /\ UNCHANGED <<data, path, fd, written, half, cut, collector, rotations,
                   faults, races, torn, forgone>>

-----------------------------------------------------------------------------
(* collectOnce *)

Return == pc' = "idle" /\ seen' = NotSeen /\ opened' = None /\ rotated' = None

\* os.Stat, then the checkpoint.  Without a log there is nothing to do.  A
\* first collection owes only what is begun from here on.
Collect ==
    /\ pc = "idle" /\ path # None
    /\ seen' = [inode |-> path, size |-> Len(data[path])]
    /\ pc' = CASE cp = None    -> "first"
               [] Inode = path -> "anchor"
               [] OTHER        -> "find"
    /\ forgone' = forgone \cup (IF cp = None THEN 1..written ELSE {})
    /\ UNCHANGED <<log, cp, queued, opened, rotated, rotations, faults, races, torn>>

\* The first checkpoint, at the end of the file; its anchor is read from
\* whatever file has the name now, and fails when that is shorter.
First ==
    /\ pc = "first"
    /\ LET found == IF path = None THEN <<>> ELSE data[path]
       IN  cp' = IF seen.size <= Len(found) THEN CheckpointAt(seen.inode, found, seen.size)
                 ELSE cp
    /\ Return
    /\ UNCHANGED <<log, queued, rotations, faults, races, torn, forgone>>

\* The same file as last time, by its number: read on, or from the start when
\* it shrank or has other content than the checkpoint remembers.
CheckAnchor ==
    /\ pc = "anchor"
    /\ \/ cp.anchor # None /\ path = None /\ Return /\ UNCHANGED cp
       \/ /\ cp.anchor = None \/ path # None
          /\ LET ok == cp.anchor = None \/ AnchorMatches(data[path])
             IN  cp' = IF seen.size < cp.offset \/ ~ok
                       THEN [cp EXCEPT !.offset = 0, !.anchor = None] ELSE cp
          /\ pc' = "open" /\ UNCHANGED <<seen, opened, rotated>>
    /\ UNCHANGED <<log, queued, rotations, faults, races, torn, forgone>>

\* Mutant: without the old file there is nothing to do.
FindOrReturn ==
    /\ pc = "find"
    /\ IF cp.inode \in archived \cup {path}
         THEN pc' = "anchorRotated" /\ rotated' = cp.inode /\ UNCHANGED <<seen, opened>>
         ELSE Return
    /\ UNCHANGED <<log, cp, queued, rotations, faults, races, torn, forgone>>

\* Another file has the name: findFileByIdentity looks for the old one in the
\* directory, and returns its name.
Find ==
    /\ pc = "find"
    /\ IF cp.inode \in archived \cup {path}
         THEN pc' = "anchorRotated" /\ rotated' = cp.inode
         ELSE pc' = "gap" /\ UNCHANGED rotated
    /\ UNCHANGED <<log, cp, queued, seen, opened, rotations, faults, races, torn,
                   forgone>>

\* checkpointAnchorMatches of the rotated file, by its name.
CheckRotated ==
    /\ pc = "anchorRotated"
    /\ \/ cp.anchor # None /\ rotated = None /\ Return
       \/ /\ cp.anchor = None \/ rotated # None
          /\ IF cp.anchor = None \/ AnchorMatches(data[rotated])
               THEN pc' = "openRotated" /\ UNCHANGED rotated
               ELSE pc' = "gap" /\ rotated' = None
          /\ UNCHANGED <<seen, opened>>
    /\ UNCHANGED <<log, cp, queued, rotations, faults, races, torn, forgone>>

\* drain's os.Open, of the rotated file or of the log by its name.
Open(file, to) ==
    /\ \/ file = None /\ Return
       \/ /\ file # None /\ opened' = file /\ pc' = to
          /\ rotated' = None /\ UNCHANGED seen
    /\ UNCHANGED <<log, cp, queued, rotations, faults, races, torn, forgone>>

OpenRotated == pc = "openRotated" /\ Open(rotated, "drainRotated")

OpenPath == pc = "open" /\ Open(path, "drain")

\* readBoundedAccessLine: the ends of the complete lines after the offset.
Ends == {k \in DOMAIN data[opened] : k > cp.offset /\ data[opened][k] % 2 = 0}

\* Mutant: the checkpoint stays before the line.
ReadLineNoCheckpoint ==
    /\ pc \in {"drain", "drainRotated"} /\ Ends # {}
    /\ LET end  == Min(Ends)
           line == data[opened][end] \div 2
       IN  /\ queued' = Append(queued, line)
           /\ Len(queued) < MaxLines
    /\ UNCHANGED <<log, cp, pc, seen, opened, rotated, rotations, faults, races, torn,
                   forgone>>

\* parseAccessLine: what is read as one line is one.
Parses(s) == Len(s) = 2 /\ s[1] + 1 = s[2]

\* One line and its checkpoint, in one transaction.  What cannot be parsed (a
\* line that runs into the next, or a piece of one) or is too long is reported
\* and passed over.
ReadLine ==
    /\ pc \in {"drain", "drainRotated"} /\ Ends # {}
    /\ LET end  == Min(Ends)
           line == data[opened][end] \div 2
       IN  /\ cp' = CheckpointAt(cp.inode, data[opened], end)
           /\ IF Parses(SubSeq(data[opened], cp.offset + 1, end))
                THEN queued' = Append(queued, line) /\ UNCHANGED forgone
                ELSE forgone' = forgone \cup {line} /\ UNCHANGED queued
    /\ UNCHANGED <<log, pc, seen, opened, rotated, rotations, faults, races, torn>>

\* Mutant: an unfinished line does not keep the collector in a rotated file.
DrainedAlways == pc = "drainRotated"

\* drain's answer at the end of the file: a rotated file is drained only when
\* nothing is left in it.
Drained == pc = "drainRotated" /\ Len(data[opened]) <= cp.offset

EndOfFile ==
    /\ pc \in {"drain", "drainRotated"} /\ Ends = {}
    /\ \/ /\ Drained /\ pc' = "move" /\ opened' = None /\ UNCHANGED <<seen, rotated>>
          /\ forgone' = forgone \cup (IF opened = Inode THEN {} ELSE Unread(Inode))
       \/ ~Drained /\ Return /\ UNCHANGED forgone
    /\ UNCHANGED <<log, cp, queued, rotations, faults, races, torn>>

\* Mutant: the file is looked up by name again.
MoveToPath ==
    /\ pc \in {"move", "gap"}
    /\ cp' = CheckpointAt(path, <<>>, 0)
    /\ pc' = "open"
    /\ UNCHANGED <<log, queued, seen, opened, rotated, rotations, faults, races, torn, forgone>>

\* On to the file that was seen by name; unread lines of another file are
\* reported as access_rotation_gap when the old file was not found.
Move ==
    /\ pc \in {"move", "gap"}
    /\ cp' = CheckpointAt(seen.inode, <<>>, 0)
    /\ forgone' = forgone \cup
          (IF pc = "gap" THEN 1..written \ LinesIn(data[seen.inode]) ELSE {})
    /\ pc' = "open"
    /\ UNCHANGED <<log, queued, seen, opened, rotated, rotations, faults, races, torn>>

\* The agent dies or is stopped, or the spool is full or fails.
Interrupt ==
    /\ pc # "idle" /\ faults < MaxFaults
    /\ faults' = faults + 1
    /\ Return
    /\ UNCHANGED <<log, cp, queued, rotations, races, torn, forgone>>

-----------------------------------------------------------------------------
CollectorStep ==
    \/ Collect \/ First \/ CheckAnchor \/ Find \/ CheckRotated \/ OpenRotated
    \/ OpenPath \/ ReadLine \/ EndOfFile \/ Move

LogStep == WriteLine \/ WriteHead \/ WriteTail \/ Reopen \/ Rotate \/ Truncate \/ RemoveArchive

\* The history of mistaken anchors.
Note == mistaken' = mistaken \cup Mistaken'

Next == (CollectorStep \/ LogStep \/ Interrupt) /\ Note

Spec == Init /\ [][Next]_vars

\* The ticker of AccessCollector.Run never stops.  Nothing is assumed of Xray
\* and of log rotation.
FairSpec == Spec /\ WF_vars(CollectorStep /\ Note)

-----------------------------------------------------------------------------
(* Properties *)

Copies(l) == Cardinality({k \in DOMAIN queued : queued[k] = l})

\* collectOnce and drain report a line once, and lines in the order they were
\* written, over rotations, truncations, reused inode numbers, restarts and a
\* full spool.  Only a rename between os.Stat and os.Open makes the collector
\* read a file again, and every such rename at most once.
LinesInOrder ==
    /\ races = 0 => \A j, k \in DOMAIN queued : j < k => queued[j] < queued[k]
    /\ ~torn => \A l \in 1..MaxLines : Copies(l) <= races + 1

\* No line is lost in silence: a finished line is queued, is still ahead of
\* the checkpoint, was reported by an error code, or was taken out of reach by
\* the rotation itself (truncated or removed unread, rotated away twice, written
\* to a file the collector had left).  Two exceptions are silent: new lines in
\* front of an offset whose anchor matches because a line there ends like the
\* one that was read (checkpointAnchorMatches compares at most 64 bytes), and a
\* rotated file whose name a rotation gave to a drained one before os.Open.
LossIsAccountedFor ==
    cp # None /\ ~torn =>
        \A l \in Finished :
            \/ l \in forgone \cup mistaken
            \/ \E k \in DOMAIN queued : queued[k] = l
            \/ \E i \in Ahead : l \in Unread(i)

\* Once the log rests, collectOnce reaches the end of the current file,
\* whatever races went before, unless the rotated file it is in is still there
\* and ends in a line that is never finished.
CatchesUp ==
    <>[]( \/ path = None
          \/ cp # None /\ cp.inode = path /\ Unread(path) \cap Finished = {}
          \/ /\ cp # None /\ cp.inode \in archived \ {path}
             /\ Len(data[cp.inode]) > cp.offset
             /\ \A k \in DOMAIN data[cp.inode] : k > cp.offset => data[cp.inode][k] % 2 = 1 )
=============================================================================
