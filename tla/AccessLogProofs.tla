--------------------------- MODULE AccessLogProofs ---------------------------
(***************************************************************************)
(* The collector reports lines once and in order, and loses none in        *)
(* silence: proofs for any number of files, lines, rotations and faults.   *)
(*                                                                         *)
(* Whether a line is still to be read is decided by the checkpoint, by     *)
(* what the file of its inode number holds now, and by where collectOnce   *)
(* stands, so none of the properties is inductive.  The invariant says     *)
(* how the files grow (FileInv, PairInv), what the checkpoint remembers    *)
(* (CheckpointInv), what collectOnce knows at each label (PlaceInv,        *)
(* MatchInv), and how what is ahead of it relates to what was queued       *)
(* (OrderInv, CopyInv, LossInv).  The digest of an anchor does not say     *)
(* which line it was made from: content that fits the checkpoint and       *)
(* content that only passes for it are told apart throughout, and NoteInv  *)
(* ties what passes wrongly to the history of mistaken lines.              *)
(***************************************************************************)
EXTENDS AccessLog, FiniteSetTheorems, SequenceTheorems, TLAPS

-----------------------------------------------------------------------------
(* The inductive invariant *)

\* The last piece Xray wrote.
Top == IF half THEN 2 * written - 1 ELSE 2 * written

\* Line l has a piece p.
Of(l, p) == p = 2 * l - 1 \/ p = 2 * l

\* The lines with a piece after the first n of s.
Has(s, n) == {l \in 1..MaxLines : \E k \in 1..Len(s) : k > n /\ Of(l, s[k])}

\* The content the checkpoint was made from, and content that
\* checkpointAnchorMatches cannot tell from it, of any checkpoint.
Fits(c, s)  == c.anchor = None \/ (c.offset <= Len(s) /\ s[c.offset] = c.anchor)
Alike(c, s) == c.anchor = None \/ (c.offset <= Len(s) /\ Ending[s[c.offset]] = Ending[c.anchor])

\* What is left to read when the checkpoint is only trusted where it fits, of
\* any checkpoint and content: where reading goes on, and the lines.
From(c, i, s) == IF c # None /\ i = c.inode /\ Fits(c, s) THEN c.offset ELSE 0
Left(c, i, s) == Has(s, From(c, i, s))

CopiesIn(q, l) == Cardinality({k \in DOMAIN q : q[k] = l})

\* Files grow at the end: pieces are in order, a line is in one file only, and
\* the file Xray writes to is the youngest.
FileInv ==
    /\ \A i \in Inodes : \A k \in 1..Len(data[i]) : data[i][k] <= Top
    /\ \A i \in Inodes : \A j, k \in 1..Len(data[i]) : j < k => data[i][j] < data[i][k]
    /\ \A i, j \in Inodes : \A k \in 1..Len(data[i]), m \in 1..Len(data[j]), l \in 1..MaxLines :
          Of(l, data[i][k]) /\ Of(l, data[j][m]) => i = j
    /\ \A i \in Inodes \ {fd} : \A j \in 1..Len(data[i]), k \in 1..Len(data[fd]) :
          data[i][j] < data[fd][k]
    /\ path # None /\ fd # path => Len(data[path]) = 0

\* The head of a line is followed by its tail, unless Xray died or has yet to
\* write it.
PairInv ==
    /\ cut \subseteq 1..written
    /\ half => written > 0 /\ written \notin cut
    /\ \A i \in Inodes : \A k \in 1..Len(data[i]), l \in 1..MaxLines :
          data[i][k] = 2 * l - 1 =>
              \/ l \in cut
              \/ k + 1 <= Len(data[i]) /\ data[i][k + 1] = 2 * l
              \/ half /\ l = written /\ i = fd

\* A checkpoint remembers a piece unless it is at the start of its file.
Proper(c, top) ==
    /\ c.anchor = None <=> c.offset = 0
    /\ c.anchor # None => c.anchor <= top

\* The checkpoint remembers a piece that was written, queued lines are whole.
CheckpointInv ==
    /\ cp = None => queued = <<>>
    /\ cp # None => Proper(cp, Top)
    /\ \A k \in 1..Len(queued) : 2 * queued[k] <= Top

\* Where a rename of the log is a race, where the old file is read, and where
\* that is known by name only.
Racing  == {"first", "anchor", "open", "find", "anchorRotated", "openRotated",
            "drainRotated", "move", "gap"}
Rotated == {"find", "anchorRotated", "openRotated", "drainRotated", "move", "gap"}
ByName  == {"anchorRotated", "openRotated"}

Matches == Fits(cp, data[cp.inode])
Passes  == Alike(cp, data[cp.inode])

\* What collectOnce knows at each of its steps.
PlaceInv ==
    /\ pc = "first" => cp = None
    /\ pc \notin {"idle", "first"} => cp # None
    /\ pc # "idle" => seen.inode \in Inodes
    /\ pc \in {"anchor", "open", "drain"} => cp.inode = seen.inode
    /\ pc \in Rotated => cp.inode # seen.inode
    /\ pc \in {"drain", "drainRotated"} => opened \in Inodes
    /\ pc \in {"drain", "drainRotated"} /\ races = 0 => opened = cp.inode
    /\ pc \in ByName /\ races = 0 => rotated \in {cp.inode, None}
    /\ pc \in Racing /\ path # seen.inode => races > 0
    /\ pc = "anchor" /\ seen.size < cp.offset => ~Matches
    /\ path \notin archived

\* And what it may rely on, unless the log was truncated while it works.
MatchInv ==
    ~torn =>
    /\ pc = "openRotated" /\ rotated = cp.inode => Passes
    /\ pc = "drainRotated" /\ opened = cp.inode => Passes
    /\ pc = "open" /\ path = cp.inode => Passes
    /\ pc = "drain" /\ opened = cp.inode => Passes
    /\ pc = "drain" /\ opened # cp.inode => path # cp.inode
    /\ pc \in Rotated => path # cp.inode
    /\ pc \in ByName => rotated \in archived \cup {None}
    /\ pc \in ByName /\ rotated \notin {cp.inode, None} => path # seen.inode
    /\ pc = "drainRotated" => opened # path
    /\ pc = "first" /\ path = seen.inode => seen.size <= Len(data[path])

\* Without a race everything ahead of the checkpoint is younger than
\* everything that was queued.
OrderInv ==
    races = 0 =>
    /\ \A j, k \in 1..Len(queued) : j < k => queued[j] < queued[k]
    /\ cp # None =>
          /\ \A k \in 1..Len(data[cp.inode]), q \in 1..Len(queued) :
                (Matches => k > cp.offset) => data[cp.inode][k] > 2 * queued[q]
          /\ path # None /\ path # cp.inode =>
                \A k \in 1..Len(data[path]), q \in 1..Len(queued) :
                    data[path][k] > 2 * queued[q]

\* The files the collector will read without another race.
Reach == {i \in Inodes : i = path \/ (pc \in Rotated /\ i = seen.inode)}

\* Where another file is read under the name of the checkpoint's.
Astray ==
    \/ pc = "open" /\ path # cp.inode
    \/ pc \in {"drain", "drainRotated"} /\ opened # cp.inode

\* No line has more copies than the races allow; one that is going to be read
\* has fewer.
FewCopies == \A l \in 1..MaxLines : CopiesIn(queued, l) <= races + 1

ReachCopies ==
    \A i \in Reach : \A l \in Left(cp, i, data[i]) : CopiesIn(queued, l) <= races

\* The checkpoint's own file, where reading goes on at the offset.
OwnCopies ==
    cp # None /\ (Passes \/ Astray) =>
        \A l \in Has(data[cp.inode], cp.offset) : CopiesIn(queued, l) <= races

\* After a race: a new log is unread, and the race pays for reading again the
\* files that were seen before it.
NewCopies ==
    pc \in Racing /\ path # None /\ path # seen.inode =>
        \A l \in Has(data[path], 0) : CopiesIn(queued, l) = 0

RacedCopies ==
    pc \in {"anchor", "find"} \cup ByName /\ path # seen.inode =>
        \A l \in 1..MaxLines : CopiesIn(queued, l) <= races

SeenCopies ==
    pc \in {"find"} \cup ByName /\ path # seen.inode =>
        \A l \in Has(data[seen.inode], 0) : CopiesIn(queued, l) < races

\* Another file is read as the current log, or as the rotated one.
DrainCopies ==
    pc = "drain" /\ opened # cp.inode =>
        /\ races > 0
        /\ \A l \in Has(data[opened], 0) : CopiesIn(queued, l) <= 1
        /\ \A l \in Has(data[opened], cp.offset) : CopiesIn(queued, l) = 0

RotatedCopies ==
    pc = "drainRotated" /\ opened # cp.inode =>
        /\ races > 0
        /\ \A l \in Has(data[opened], cp.offset) : CopiesIn(queued, l) <= races
        /\ opened = seen.inode =>
              \A l \in Has(data[opened], cp.offset) : CopiesIn(queued, l) < races

CopyInv ==
    ~torn =>
    /\ FewCopies /\ ReachCopies /\ OwnCopies /\ NewCopies /\ RacedCopies
    /\ SeenCopies /\ DrainCopies /\ RotatedCopies

\* Line l is reported, or out of reach without a report the code could make.
Settled(l) == l \in forgone \cup mistaken \/ \E k \in 1..Len(queued) : queued[k] = l

\* A first collection owes what was begun after it looked.
FirstOwed(l) ==
    \/ l \in forgone
    \/ path # None /\ path = seen.inode /\ l \in Has(data[path], seen.size)
    \/ path # None /\ path # seen.inode /\ l \in Has(data[path], 0)

\* Also an unfinished line is accounted for.
LossInv ==
    ~torn =>
    /\ cp # None =>
          \A l \in 1..written \ cut :
              Settled(l) \/ \E i \in Ahead : l \in Left(cp, i, data[i])
    /\ pc = "first" => \A l \in 1..written \ cut : FirstOwed(l)

\* The history of mistaken anchors is kept.
NoteInv == Mistaken \subseteq mistaken

Inv ==
    /\ TypeOK /\ FileInv /\ PairInv /\ CheckpointInv /\ PlaceInv /\ MatchInv
    /\ OrderInv /\ CopyInv /\ LossInv /\ NoteInv

-----------------------------------------------------------------------------
(* Pieces, lines and copies *)

\* What the proofs use of the constants.
LEMMA Constants ==
    /\ MaxLines \in Nat /\ MaxRotations \in Nat /\ MaxFaults \in Nat
    /\ None \notin Inodes /\ None \notin Nat /\ None \notin Checkpoints
  BY AccessAssumption

USE Constants

\* An even piece ends its line.
LEMMA Half == \A p \in Nat : p % 2 = 0 => p \div 2 \in Nat /\ p = 2 * (p \div 2)
  BY SMT

\* The line is among the lines when the piece is among the pieces.
LEMMA HalfIn == \A h, m \in Nat : 2 * h \in 1..2 * m => h \in 1..m
  BY SMT

\* The tail of a line is even.
LEMMA Even == \A l \in Nat : (2 * l) % 2 = 0
  BY SMT

\* What is left of a sequence.
LEMMA Suffix ==
    ASSUME NEW S, NEW s \in Seq(S), NEW n \in Nat
    PROVE  /\ DOMAIN After(s, n) = 1..Len(After(s, n))
           /\ Len(After(s, n)) = (IF n < Len(s) THEN Len(s) - n ELSE 0)
           /\ \A k \in 1..Len(After(s, n)) : After(s, n)[k] = s[n + k]
  BY DEF After

\* The operators of the model in terms of positions.
LEMMA LinesAfter ==
    ASSUME NEW s \in Seq(1..2 * MaxLines), NEW n \in Nat
    PROVE  LinesIn(s) = Has(s, 0) /\ LinesIn(After(s, n)) = Has(s, n)
<1> DEFINE t == After(s, n)
<1>1. /\ DOMAIN t = 1..Len(t)
      /\ Len(t) = (IF n < Len(s) THEN Len(s) - n ELSE 0)
      /\ \A k \in 1..Len(t) : t[k] = s[n + k]
      /\ Len(s) \in Nat
  BY Suffix
<1>2. LinesIn(s) = Has(s, 0)
  BY DEF LinesIn, Has, Of
<1>3. ASSUME NEW l \in 1..MaxLines, NEW k \in 1..Len(t), Of(l, t[k])
      PROVE  l \in Has(s, n)
  <2>1. n + k \in 1..Len(s) /\ n + k > n /\ Of(l, s[n + k])
    BY <1>1, <1>3
  <2> QED  BY <2>1 DEF Has
<1>4. ASSUME NEW l \in 1..MaxLines, NEW k \in 1..Len(s), k > n, Of(l, s[k])
      PROVE  \E m \in 1..Len(t) : Of(l, t[m])
  <2> HIDE DEF t
  <2>1. n < Len(s) /\ k - n \in 1..Len(s) - n
    BY <1>1, <1>4
  <2>2. k - n \in 1..Len(t) /\ n + (k - n) = k
    BY <1>1, <2>1
  <2>3. s[k] = t[k - n]
    BY <1>1, <2>2
  <2> QED  BY <1>4, <2>2, <2>3
<1>5. LinesIn(t) = {l \in 1..MaxLines : \E k \in 1..Len(t) : Of(l, t[k])}
  BY <1>1 DEF LinesIn, Of
<1>6. LinesIn(t) = Has(s, n)
  <2> HIDE DEF t
  <2> QED  BY <1>3, <1>4, <1>5 DEF Has
<1> QED  BY <1>2, <1>6

\* The lines up to a position, and those after it.
LEMMA LinesUpTo ==
    ASSUME NEW s \in Seq(1..2 * MaxLines), NEW n \in Nat, n <= Len(s)
    PROVE  Has(s, 0) \subseteq Has(s, n) \cup LinesIn(SubSeq(s, 1, n))
<1> SUFFICES ASSUME NEW l \in Has(s, 0), l \notin Has(s, n)
             PROVE  l \in LinesIn(SubSeq(s, 1, n))
  OBVIOUS
<1>1. l \in 1..MaxLines /\ \E k \in 1..Len(s) : Of(l, s[k])
  BY DEF Has
<1>2. PICK k \in 1..Len(s) : Of(l, s[k])
  BY <1>1
<1>3. ~(k > n)
  BY <1>1, <1>2 DEF Has
<1>4. k \in 1..n /\ DOMAIN SubSeq(s, 1, n) = 1..n /\ SubSeq(s, 1, n)[k] = s[k]
  BY <1>2, <1>3
<1> QED  BY <1>1, <1>2, <1>4 DEF LinesIn, Of

\* What fits is taken for it, and is the same to checkpointAnchorMatches.
LEMMA FitsPasses == \A c, s : Fits(c, s) => Alike(c, s)
  BY DEF Fits, Alike

\* What is left of a file is unread, but for the lines before the offset that
\* an ending alike makes the collector pass over.
LEMMA LeftIsUnread ==
    ASSUME TypeOK, NoteInv, NEW i \in Inodes
    PROVE  Left(cp, i, data[i]) \subseteq Unread(i) \cup mistaken
<1>1. data[i] \in Seq(1..2 * MaxLines) /\ 0 \in Nat
  BY DEF TypeOK
<1>2. cp # None => cp.offset \in Nat /\ cp.inode \in Inodes
  BY DEF TypeOK, Checkpoints
<1>3. LinesIn(data[i]) = Has(data[i], 0)
  BY <1>1, LinesAfter
<1>4. CASE cp = None \/ i # cp.inode
  <2>1. Unread(i) = LinesIn(data[i])
    BY <1>4 DEF Unread, Inode
  <2> QED  BY <1>3, <1>4, <2>1 DEF Left, From
<1>5. CASE cp # None /\ i = cp.inode /\ ~AnchorMatches(data[i])
  <2>1. Unread(i) = LinesIn(data[i])
    BY <1>5 DEF Unread
  <2>2. ~Fits(cp, data[i])
    BY <1>5 DEF Fits, AnchorMatches
  <2> QED  BY <1>3, <1>5, <2>1, <2>2 DEF Left, From
<1>6. CASE cp # None /\ i = cp.inode /\ AnchorMatches(data[i])
  <2>1. Unread(i) = Has(data[i], cp.offset)
    <3>1. Unread(i) = LinesIn(After(data[i], cp.offset))
      BY <1>6 DEF Unread, Inode
    <3> QED  BY <1>1, <1>2, <1>6, <3>1, LinesAfter
  <2>2. CASE Fits(cp, data[i])
    BY <1>6, <2>1, <2>2 DEF Left, From
  <2>3. CASE ~Fits(cp, data[i])
    <3>1. cp.anchor # None /\ cp.offset <= Len(data[i]) /\ data[i][cp.offset] # cp.anchor
      BY <1>6, <2>3 DEF Fits, AnchorMatches
    <3>2. Mistaken = LinesIn(SubSeq(data[i], 1, cp.offset))
      BY <1>6, <3>1 DEF Mistaken
    <3>3. Has(data[i], 0) \subseteq Has(data[i], cp.offset) \cup LinesIn(SubSeq(data[i], 1, cp.offset))
      BY <1>1, <1>2, <1>6, <3>1, LinesUpTo
    <3>4. Left(cp, i, data[i]) = Has(data[i], 0)
      BY <2>3 DEF Left, From
    <3> QED  BY <2>1, <3>2, <3>3, <3>4 DEF NoteInv
  <2> QED  BY <2>2, <2>3
<1> QED  BY <1>4, <1>5, <1>6

\* A line more in the queue is one copy more of it.
LEMMA AppendCopies ==
    ASSUME NEW q \in Seq(1..MaxLines), NEW x \in 1..MaxLines, NEW l
    PROVE  /\ CopiesIn(q, l) \in Nat
           /\ CopiesIn(Append(q, x), l) = IF x = l THEN CopiesIn(q, l) + 1 ELSE CopiesIn(q, l)
<1> DEFINE C == {k \in DOMAIN q : q[k] = l}
           D == {k \in DOMAIN Append(q, x) : Append(q, x)[k] = l}
<1>1. DOMAIN q = 1..Len(q) /\ Len(q) \in Nat
  OBVIOUS
<1>2. IsFiniteSet(DOMAIN q)
  BY <1>1, FS_Interval
<1>3. C \in SUBSET DOMAIN q
  OBVIOUS
<1>4. IsFiniteSet(C)
  <2> HIDE DEF C
  <2> QED  BY <1>2, <1>3, FS_Subset
<1>5. DOMAIN Append(q, x) = 1..Len(q) + 1
  OBVIOUS
<1>6. D = IF x = l THEN C \cup {Len(q) + 1} ELSE C
  BY <1>1, <1>5
<1>7. Len(q) + 1 \notin C
  BY <1>1
<1>8. Cardinality(C) \in Nat /\ Cardinality(C \cup {Len(q) + 1}) = Cardinality(C) + 1
  <2> HIDE DEF C
  <2> QED  BY <1>4, <1>7, FS_AddElement, FS_CardinalityType
<1>9. CopiesIn(q, l) = Cardinality(C) /\ CopiesIn(Append(q, x), l) = Cardinality(D)
  BY DEF CopiesIn
<1> QED
  <2> HIDE DEF C, D
  <2> QED  BY <1>6, <1>8, <1>9

\* A line that is not in the queue has no copy.
LEMMA NoCopies ==
    ASSUME NEW q \in Seq(1..MaxLines), NEW l, \A k \in 1..Len(q) : q[k] # l
    PROVE  CopiesIn(q, l) = 0
<1>1. {k \in DOMAIN q : q[k] = l} = {}
  OBVIOUS
<1> QED  BY <1>1, FS_EmptySet DEF CopiesIn

\* Copies are counted.
LEMMA CopiesType ==
    ASSUME NEW q \in Seq(1..MaxLines), NEW l PROVE CopiesIn(q, l) \in Nat
<1> DEFINE C == {k \in DOMAIN q : q[k] = l}
<1>1. DOMAIN q = 1..Len(q) /\ Len(q) \in Nat
  OBVIOUS
<1>2. IsFiniteSet(DOMAIN q) /\ C \in SUBSET DOMAIN q
  BY <1>1, FS_Interval
<1>3. IsFiniteSet(C)
  <2> HIDE DEF C
  <2> QED  BY <1>2, FS_Subset
<1> QED  BY <1>3, FS_CardinalityType DEF CopiesIn

\* A finite set of naturals has a least element: fewest are below it.
LEMMA Least ==
    ASSUME NEW S, IsFiniteSet(S), S \subseteq Nat, S # {}
    PROVE  Min(S) \in S /\ \A y \in S : Min(S) <= y
<1> DEFINE L(x) == {y \in S : y < x}
           T    == {L(x) : x \in S}
<1>1. FiniteSubsetsOf(S) = SUBSET S
  BY FS_FiniteSubsetsOfFinite
<1>2. T # {} /\ T \subseteq FiniteSubsetsOf(S)
  <2>1. \A x \in S : L(x) \in SUBSET S
    OBVIOUS
  <2>2. \E x \in S : L(x) \in T
    OBVIOUS
  <2> HIDE DEF L
  <2> QED  BY <1>1, <2>1, <2>2
<1>3. PICK m \in T : \A u \in T : ~(<<u, m>> \in StrictSubsetOrdering(S))
  <2> HIDE DEF T
  <2> QED  BY <1>2, WFMin, FS_StrictSubsetOrderingWellFounded
<1>4. PICK x \in S : m = L(x)
  OBVIOUS
<1>5. ASSUME NEW y \in S, ~(x <= y) PROVE FALSE
  <2>1. x \in Nat /\ y \in Nat /\ y < x
    BY <1>5
  <2>2. L(y) \subseteq L(x) /\ y \in L(x) /\ y \notin L(y)
    <3>1. \A z \in S : z < y => z < x
      BY <2>1
    <3>2. ~(y < y)
      BY <2>1
    <3> QED  BY <2>1, <3>1, <3>2
  <2>3. L(y) \in T /\ L(y) \in SUBSET S /\ L(x) \in SUBSET S
    OBVIOUS
  <2>4. <<L(y), L(x)>> \in StrictSubsetOrdering(S)
    <3> HIDE DEF L
    <3> QED  BY <2>2, <2>3 DEF StrictSubsetOrdering
  <2> QED  BY <1>3, <1>4, <2>3, <2>4
<1> QED  BY <1>5 DEF Min

\* The line that ReadLine reads: its tail is the first one after the offset.
LEMMA NextLine ==
    ASSUME TypeOK, cp # None, opened \in Inodes, Ends # {}
    PROVE  /\ Min(Ends) \in 1..Len(data[opened])
           /\ Min(Ends) > cp.offset
           /\ data[opened][Min(Ends)] \div 2 \in 1..MaxLines
           /\ data[opened][Min(Ends)] = 2 * (data[opened][Min(Ends)] \div 2)
           /\ \A k \in 1..Len(data[opened]), l \in 1..MaxLines :
                 k > cp.offset /\ data[opened][k] = 2 * l => k >= Min(Ends)
<1>1. data[opened] \in Seq(1..2 * MaxLines)
  BY DEF TypeOK
<1>2. DOMAIN data[opened] = 1..Len(data[opened]) /\ Len(data[opened]) \in Nat
  BY <1>1
<1>3. IsFiniteSet(DOMAIN data[opened])
  <2>1. IsFiniteSet(1..Len(data[opened]))
    <3>1. Len(data[opened]) \in Int /\ 1 \in Int
      BY <1>2
    <3> QED  BY ONLY <3>1, FS_Interval
  <2> QED  BY <1>2, <2>1
<1>4. Ends \in SUBSET DOMAIN data[opened]
  BY DEF Ends
<1>5. IsFiniteSet(Ends) /\ Ends \subseteq Nat
  BY <1>2, <1>3, <1>4, FS_Subset
<1>6. Min(Ends) \in Ends /\ \A y \in Ends : Min(Ends) <= y
  BY <1>5, Least
<1> DEFINE e == Min(Ends)
<1>7. e \in 1..Len(data[opened]) /\ e > cp.offset /\ data[opened][e] % 2 = 0
  BY <1>2, <1>6 DEF Ends
<1>8. data[opened][e] \in 1..2 * MaxLines
  BY <1>1, <1>7
<1>9. data[opened][e] \div 2 \in Nat /\ data[opened][e] = 2 * (data[opened][e] \div 2)
  BY <1>7, <1>8, Half
<1>10. data[opened][e] \div 2 \in 1..MaxLines
  BY <1>8, <1>9, HalfIn
<1>11. ASSUME NEW k \in 1..Len(data[opened]), NEW l \in 1..MaxLines,
              k > cp.offset, data[opened][k] = 2 * l
       PROVE  k >= e
  <2>1. data[opened][k] % 2 = 0
    BY <1>11, Even
  <2>2. k \in Ends
    BY <1>2, <1>11, <2>1 DEF Ends
  <2>3. k \in Nat /\ e \in Nat
    BY <1>2, <1>7
  <2> QED  BY <1>6, <2>2, <2>3
<1> QED  BY <1>7, <1>9, <1>10, <1>11

-----------------------------------------------------------------------------
(* What the steps do to the files *)

\* t is s with pieces of one line at its end, younger than top.
Extends(s, t, top, line) ==
    /\ Len(s) < Len(t)
    /\ \A k \in 1..Len(s) : t[k] = s[k]
    /\ \A k \in 1..Len(t) : k > Len(s) => t[k] > top /\ Of(line, t[k])

Grows ==
    /\ data' \in [Inodes -> Seq(1..2 * MaxLines)]
    /\ \A i \in Inodes \ {fd} : data'[i] = data[i]
    /\ Extends(data[fd], data'[fd], Top, written')
    /\ \A k \in 1..Len(data'[fd]) : k > Len(data[fd]) => data'[fd][k] <= Top'
    /\ \A j, k \in 1..Len(data'[fd]) :
          j > Len(data[fd]) /\ j < k => data'[fd][j] < data'[fd][k]
    /\ written' \in 1..MaxLines /\ written <= written'
    /\ Top' \in Nat /\ Top < Top' /\ 2 * written' - 1 <= Top' /\ 2 * written' > Top

\* File i starts again, empty.
Empties(i) ==
    /\ data' \in [Inodes -> Seq(1..2 * MaxLines)]
    /\ Len(data'[i]) = 0
    /\ \A j \in Inodes \ {i} : data'[j] = data[j]

\* A piece and two pieces at the end of a file.
LEMMA Longer ==
    ASSUME NEW S, NEW s \in Seq(S), NEW a \in S, NEW b \in S
    PROVE  /\ Append(s, a) \in Seq(S) /\ Len(Append(s, a)) = Len(s) + 1
           /\ \A k \in 1..Len(s) : Append(s, a)[k] = s[k]
           /\ Append(s, a)[Len(s) + 1] = a
           /\ s \o <<a, b>> \in Seq(S) /\ Len(s \o <<a, b>>) = Len(s) + 2
           /\ \A k \in 1..Len(s) : (s \o <<a, b>>)[k] = s[k]
           /\ (s \o <<a, b>>)[Len(s) + 1] = a /\ (s \o <<a, b>>)[Len(s) + 2] = b
  OBVIOUS

\* The types the other steps use.
LEMMA Types ==
    ASSUME TypeOK
    PROVE  /\ \A i \in Inodes : data[i] \in Seq(1..2 * MaxLines) /\ Len(data[i]) \in Nat
           /\ \A i \in Inodes : \A k \in 1..Len(data[i]) :
                 data[i][k] \in 1..2 * MaxLines /\ data[i][k] \in Nat
           /\ written \in 0..MaxLines /\ written \in Nat
           /\ cp # None => cp \in Checkpoints /\ cp.inode \in Inodes /\ cp.offset \in Nat
           /\ Len(queued) \in Nat /\ \A k \in 1..Len(queued) : queued[k] \in 1..MaxLines
           /\ path # None => path \in Inodes
           /\ Top \in Int /\ races \in Nat /\ fd \in Inodes
<1>1. \A i \in Inodes : data[i] \in Seq(1..2 * MaxLines)
  BY DEF TypeOK
<1>2. \A i \in Inodes : Len(data[i]) \in Nat
  BY <1>1
<1>3. ASSUME NEW i \in Inodes, NEW k \in 1..Len(data[i])
      PROVE  data[i][k] \in 1..2 * MaxLines /\ data[i][k] \in Nat
  <2>1. data[i][k] \in 1..2 * MaxLines
    BY <1>1
  <2> QED  BY <2>1
<1>4. written \in 0..MaxLines /\ written \in Nat
  BY DEF TypeOK
<1>5. cp # None => cp \in Checkpoints /\ cp.inode \in Inodes /\ cp.offset \in Nat
  BY DEF TypeOK, Checkpoints
<1>6. Len(queued) \in Nat /\ \A k \in 1..Len(queued) : queued[k] \in 1..MaxLines
  BY DEF TypeOK
<1>7. path # None => path \in Inodes
  BY DEF TypeOK, Files
<1>8. Top \in Int
  BY <1>4 DEF Top
<1>9. races \in Nat /\ fd \in Inodes
  BY DEF TypeOK
<1> QED  BY <1>1, <1>2, <1>3, <1>4, <1>5, <1>6, <1>7, <1>8, <1>9

\* The three writes.
LEMMA WriteGrows ==
    ASSUME TypeOK, PairInv, WriteLine \/ WriteHead \/ WriteTail
    PROVE  Grows
<1> DEFINE s == data[fd]
           t == data'[fd]
<1>0. fd \in Inodes /\ s \in Seq(1..2 * MaxLines) /\ Len(s) \in Nat /\ written \in 0..MaxLines
  BY Types
<1>1. CASE WriteLine
  <2>1. /\ t = s \o <<2 * written + 1, 2 * written + 2>> /\ ~half /\ ~half'
        /\ written' = written + 1 /\ written < MaxLines
        /\ \A i \in Inodes \ {fd} : data'[i] = data[i]
        /\ data' = [data EXCEPT ![fd] = t]
    BY <1>0, <1>1 DEF WriteLine, Begin, TypeOK
  <2>2. 2 * written + 1 \in 1..2 * MaxLines /\ 2 * written + 2 \in 1..2 * MaxLines
    BY <1>0, <2>1
  <2>3. /\ t \in Seq(1..2 * MaxLines) /\ Len(t) = Len(s) + 2 /\ \A k \in 1..Len(s) : t[k] = s[k]
        /\ t[Len(s) + 1] = 2 * written + 1 /\ t[Len(s) + 2] = 2 * written + 2
    <3> HIDE DEF s, t
    <3> QED  BY <1>0, <2>1, <2>2, Longer
  <2>4. Top = 2 * written /\ Top' = 2 * written + 2
    BY <1>0, <2>1 DEF Top
  <2>5. data' \in [Inodes -> Seq(1..2 * MaxLines)]
    BY <2>1, <2>3 DEF TypeOK
  <2> HIDE DEF s, t
  <2>6. Extends(s, t, Top, written')
    <3>0. Len(s) \in Nat /\ Len(t) = Len(s) + 2
      BY <1>0, <2>3
    <3>1. Len(s) < Len(t) /\ \A k \in 1..Len(t) : k > Len(s) => k = Len(s) + 1 \/ k = Len(s) + 2
      BY ONLY <3>0
    <3>2. t[Len(s) + 1] > Top /\ t[Len(s) + 2] > Top
      BY <1>0, <2>3, <2>4
    <3>3. Of(written', t[Len(s) + 1]) /\ Of(written', t[Len(s) + 2])
      BY <1>0, <2>1, <2>3 DEF Of
    <3> QED  BY <2>3, <3>1, <3>2, <3>3 DEF Extends
  <2>7. \A k \in 1..Len(t) : k > Len(s) => k = Len(s) + 1 \/ k = Len(s) + 2
    BY <1>0, <2>3
  <2>8. \A k \in 1..Len(t) : k > Len(s) => t[k] <= Top'
    <3>1. 2 * written + 1 <= Top' /\ 2 * written + 2 <= Top'
      BY <1>0, <2>4
    <3> QED  BY <2>3, <2>7, <3>1
  <2>9. \A j, k \in 1..Len(t) : j > Len(s) /\ j < k => t[j] < t[k]
    <3> SUFFICES ASSUME NEW j \in 1..Len(t), NEW k \in 1..Len(t), j > Len(s), j < k
                 PROVE  t[j] < t[k]
      OBVIOUS
    <3>1. j = Len(s) + 1 /\ k = Len(s) + 2
      BY <1>0, <2>3, <2>7
    <3>2. 2 * written + 1 < 2 * written + 2
      BY <1>0
    <3> QED  BY <2>3, <3>1, <3>2
  <2>10. /\ written' \in 1..MaxLines /\ written <= written'
         /\ Top' \in Nat /\ Top < Top' /\ 2 * written' - 1 <= Top' /\ 2 * written' > Top
    BY <1>0, <2>1, <2>4
  <2> QED  BY <2>1, <2>5, <2>6, <2>8, <2>9, <2>10 DEF Grows, s, t
<1>2. CASE WriteHead
  <2>1. /\ t = Append(s, 2 * written + 1) /\ ~half /\ half' = TRUE
        /\ written' = written + 1 /\ written < MaxLines
        /\ \A i \in Inodes \ {fd} : data'[i] = data[i]
        /\ data' = [data EXCEPT ![fd] = t]
    BY <1>0, <1>2 DEF WriteHead, Begin, TypeOK
  <2>2. 2 * written + 1 \in 1..2 * MaxLines
    BY <1>0, <2>1
  <2>3. /\ t \in Seq(1..2 * MaxLines) /\ Len(t) = Len(s) + 1 /\ \A k \in 1..Len(s) : t[k] = s[k]
        /\ t[Len(s) + 1] = 2 * written + 1
    <3> HIDE DEF s, t
    <3> QED  BY <1>0, <2>1, <2>2, Longer
  <2>4. Top = 2 * written /\ Top' = 2 * written + 1
    BY <1>0, <2>1 DEF Top
  <2>5. data' \in [Inodes -> Seq(1..2 * MaxLines)]
    BY <2>1, <2>3 DEF TypeOK
  <2> HIDE DEF s, t
  <2>6. Extends(s, t, Top, written')
    BY <1>0, <2>1, <2>3, <2>4 DEF Extends, Of
  <2>7. \A k \in 1..Len(t) : k > Len(s) => t[k] <= Top'
    BY <1>0, <2>3, <2>4
  <2>8. \A j, k \in 1..Len(t) : j > Len(s) /\ j < k => t[j] < t[k]
    BY <1>0, <2>3
  <2>9. /\ written' \in 1..MaxLines /\ written <= written'
        /\ Top' \in Nat /\ Top < Top' /\ 2 * written' - 1 <= Top' /\ 2 * written' > Top
    BY <1>0, <2>1, <2>4
  <2> QED  BY <2>1, <2>5, <2>6, <2>7, <2>8, <2>9 DEF Grows, s, t
<1>3. CASE WriteTail
  <2>1. /\ t = Append(s, 2 * written) /\ half /\ half' = FALSE
        /\ written' = written /\ written > 0
        /\ \A i \in Inodes \ {fd} : data'[i] = data[i]
        /\ data' = [data EXCEPT ![fd] = t]
    BY <1>0, <1>3 DEF WriteTail, TypeOK, PairInv
  <2>2. 2 * written \in 1..2 * MaxLines
    BY <1>0, <2>1
  <2>3. /\ t \in Seq(1..2 * MaxLines) /\ Len(t) = Len(s) + 1 /\ \A k \in 1..Len(s) : t[k] = s[k]
        /\ t[Len(s) + 1] = 2 * written
    <3> HIDE DEF s, t
    <3> QED  BY <1>0, <2>1, <2>2, Longer
  <2>4. Top = 2 * written - 1 /\ Top' = 2 * written
    BY <1>0, <2>1 DEF Top
  <2>5. data' \in [Inodes -> Seq(1..2 * MaxLines)]
    BY <2>1, <2>3 DEF TypeOK
  <2> HIDE DEF s, t
  <2>6. Extends(s, t, Top, written')
    BY <1>0, <2>1, <2>3, <2>4 DEF Extends, Of
  <2>7. \A k \in 1..Len(t) : k > Len(s) => t[k] <= Top'
    BY <1>0, <2>3, <2>4
  <2>8. \A j, k \in 1..Len(t) : j > Len(s) /\ j < k => t[j] < t[k]
    BY <1>0, <2>3
  <2>9. /\ written' \in 1..MaxLines /\ written <= written'
        /\ Top' \in Nat /\ Top < Top' /\ 2 * written' - 1 <= Top' /\ 2 * written' > Top
    BY <1>0, <2>1, <2>4
  <2> QED  BY <2>1, <2>5, <2>6, <2>7, <2>8, <2>9 DEF Grows, s, t
<1> QED  BY <1>1, <1>2, <1>3

\* A file that starts again.
LEMMA EmptyFile ==
    ASSUME TypeOK, NEW i \in Inodes, data' = [data EXCEPT ![i] = <<>>]
    PROVE  Empties(i)
<1>1. data'[i] = <<>> /\ \A j \in Inodes \ {i} : data'[j] = data[j]
  BY DEF TypeOK
<1>2. <<>> \in Seq(1..2 * MaxLines) /\ Len(<<>>) = 0
  OBVIOUS
<1>3. data' \in [Inodes -> Seq(1..2 * MaxLines)]
  BY <1>2 DEF TypeOK
<1> QED  BY <1>1, <1>2, <1>3 DEF Empties

\* A number for a new file is not in use.
LEMMA FreshIsFree ==
    ASSUME NEW i \in Fresh
    PROVE  i \in Inodes /\ i # path /\ i # fd /\ i # opened /\ i \notin archived
  BY DEF Fresh

\* What Reopen, Rotate and Truncate do to the files.
LEMMA LogEffect ==
    ASSUME TypeOK, Reopen \/ Rotate \/ Truncate
    PROVE  \/ data' = data
           \/ \E i \in Inodes : Empties(i)
<1>1. CASE Truncate
  <2>1. path \in Inodes /\ data' = [data EXCEPT ![path] = <<>>]
    BY <1>1, Types DEF Truncate
  <2> QED  BY <2>1, EmptyFile
<1>2. CASE Reopen \/ Rotate
  <2>1. ASSUME NEW i \in Fresh, NEW taken, Create(i, taken) PROVE \E j \in Inodes : Empties(j)
    <3>1. i \in Inodes
      BY FreshIsFree
    <3> QED  BY <2>1, <3>1, EmptyFile DEF Create
  <2>2. data' = data \/ \E i \in Fresh : \E taken : Create(i, taken)
    BY <1>2 DEF Reopen, Rotate
  <2> QED  BY <2>1, <2>2
<1> QED  BY <1>1, <1>2

-----------------------------------------------------------------------------
(* Types *)

\* The parts of TypeOK that the log and the collector change.
LogType ==
    /\ data \in [Inodes -> Seq(1..2 * MaxLines)]
    /\ path \in Files /\ archived \subseteq Inodes /\ fd \in Inodes
    /\ written \in 0..MaxLines /\ half \in BOOLEAN /\ cut \subseteq 1..MaxLines

CollectorType ==
    /\ cp \in Checkpoints \cup {None}
    /\ queued \in Seq(1..MaxLines)
    /\ pc \in Labels
    /\ seen \in [inode : Files, size : Nat]
    /\ opened \in Files /\ rotated \in Files

HistoryType ==
    /\ rotations \in Nat /\ faults \in Nat /\ races \in Nat
    /\ torn \in BOOLEAN
    /\ forgone \subseteq 1..MaxLines /\ mistaken \subseteq 1..MaxLines

\* TypeOK in parts.
LEMMA TypeParts == TypeOK <=> LogType /\ CollectorType /\ HistoryType
  BY DEF TypeOK, LogType, CollectorType, HistoryType

\* A checkpoint at a position of a file has its type.
LEMMA CheckpointType ==
    ASSUME NEW i \in Inodes, NEW s \in Seq(1..2 * MaxLines), NEW n \in Nat, n <= Len(s)
    PROVE  CheckpointAt(i, s, n) \in Checkpoints
<1>1. n # 0 => s[n] \in 1..2 * MaxLines
  OBVIOUS
<1> QED  BY <1>1 DEF CheckpointAt, Checkpoints

\* A collection that returns.
LEMMA ReturnType == Return => /\ pc' \in Labels /\ seen' \in [inode : Files, size : Nat]
                              /\ opened' \in Files /\ rotated' \in Files
  BY DEF Return, Labels, Files, NotSeen

\* The log's part.
LEMMA LogTypeStep ==
    ASSUME TypeOK, PairInv, Next PROVE LogType'
<1> USE DEF LogType
<1>0. LogType /\ written \in Nat
  BY TypeParts
<1>1. CASE WriteLine \/ WriteHead \/ WriteTail
  <2>1. Grows
    BY <1>1, WriteGrows
  <2>2. half' \in BOOLEAN
    BY <1>0, <1>1 DEF WriteLine, WriteHead, WriteTail
  <2>3. UNCHANGED <<path, archived, fd, cut>> /\ written' \in 0..MaxLines
    BY <1>1, <2>1 DEF WriteLine, WriteHead, WriteTail, Grows
  <2> QED  BY <1>0, <2>1, <2>2, <2>3 DEF Grows
<1>2. CASE Reopen \/ Rotate \/ Truncate
  <2>1. data' \in [Inodes -> Seq(1..2 * MaxLines)]
    BY <1>0, <1>2, LogEffect DEF Empties
  <2>2. path' \in Files /\ fd' \in Inodes
    BY <1>0, <1>2, Types, FreshIsFree DEF Reopen, Rotate, Truncate, Files
  <2>3. half' \in BOOLEAN /\ written' = written
    BY <1>0, <1>2 DEF Reopen, Rotate, Truncate
  <2>4. archived' \subseteq Inodes
    BY <1>0, <1>2, Types DEF Reopen, Rotate, Truncate
  <2>5. cut' \subseteq 1..MaxLines
    <3>1. half => written \in 1..MaxLines
      BY <1>0 DEF PairInv
    <3> QED  BY <1>0, <1>2, <3>1 DEF Reopen, Rotate, Truncate
  <2> QED  BY <1>0, <2>1, <2>2, <2>3, <2>4, <2>5
<1>3. CASE RemoveArchive
  BY <1>0, <1>3 DEF RemoveArchive
<1>4. CASE CollectorStep \/ Interrupt
  <2>1. UNCHANGED log
    BY <1>4 DEF CollectorStep, Interrupt, Collect, First, CheckAnchor, Find, CheckRotated, OpenRotated,
       OpenPath, Open, ReadLine, EndOfFile, Move
  <2> QED  BY <1>0, <2>1 DEF log
<1> QED  BY <1>1, <1>2, <1>3, <1>4 DEF Next, LogStep

\* The collector's part.
LEMMA CollectorTypeStep ==
    ASSUME TypeOK, PairInv, PlaceInv, Next PROVE CollectorType'
<1> USE DEF CollectorType
<1>0. CollectorType
  BY TypeParts
<1>1. CASE LogStep
  <2>1. UNCHANGED collector
    BY <1>1 DEF LogStep, WriteLine, WriteHead, WriteTail, Reopen, Rotate, Truncate, RemoveArchive
  <2>2. rotated' \in Files
    <3>1. CASE Rotate
      <4>1. LogType /\ LogType'
        BY LogTypeStep, TypeParts
      <4>2. path \in Files /\ path' \in Files /\ archived \subseteq Files /\ None \in Files
        BY <4>1 DEF LogType, Files
      <4> QED  BY <1>0, <3>1, <4>2 DEF Rotate, Rename
    <3>2. CASE ~Rotate
      BY <1>0, <1>1, <3>2 DEF LogStep, WriteLine, WriteHead, WriteTail, Reopen, Truncate,
         RemoveArchive, Files
    <3> QED  BY <3>1, <3>2
  <2> QED  BY <1>0, <2>1, <2>2 DEF collector
<1>2. CASE Interrupt
  BY <1>0, <1>2, ReturnType DEF Interrupt
<1>3. CASE Collect
  <2>1. path \in Inodes /\ Len(data[path]) \in Nat
    BY <1>3, Types DEF Collect
  <2>2. pc' \in Labels
    BY <1>3 DEF Collect, Labels
  <2> QED  BY <1>0, <1>3, <2>1, <2>2 DEF Collect, Files
<1>4. CASE First
  <2> DEFINE found == IF path = None THEN <<>> ELSE data[path]
  <2>1. found \in Seq(1..2 * MaxLines)
    <3>1. <<>> \in Seq(1..2 * MaxLines)
      OBVIOUS
    <3> QED  BY <3>1, Types
  <2>2. seen.inode \in Inodes /\ seen.size \in Nat
    BY <1>0, <1>4 DEF First, PlaceInv
  <2>3. cp' = IF seen.size <= Len(found) THEN CheckpointAt(seen.inode, found, seen.size) ELSE cp
    BY <1>4 DEF First
  <2>4. cp' \in Checkpoints \cup {None}
    <3> HIDE DEF found
    <3> QED  BY <1>0, <2>1, <2>2, <2>3, CheckpointType
  <2> QED  BY <1>0, <1>4, <2>4, ReturnType DEF First
<1>5. CASE CheckAnchor
  <2>1. cp \in Checkpoints
    BY <1>5, Types DEF CheckAnchor, PlaceInv
  <2>2. [cp EXCEPT !.offset = 0, !.anchor = None] \in Checkpoints
    BY <2>1 DEF Checkpoints
  <2>3. cp' \in Checkpoints
    BY <1>5, <2>1, <2>2 DEF CheckAnchor
  <2>4. pc' \in Labels /\ seen' \in [inode : Files, size : Nat] /\ opened' \in Files /\ rotated' \in Files
    BY <1>0, <1>5, ReturnType DEF CheckAnchor, Labels
  <2> QED  BY <1>0, <1>5, <2>3, <2>4 DEF CheckAnchor
<1>6. CASE Find \/ CheckRotated
  <2>1. cp \in Checkpoints
    BY <1>6, Types DEF Find, CheckRotated, PlaceInv
  <2>2. cp.inode \in Inodes
    BY <2>1 DEF Checkpoints
  <2>3. pc' \in Labels /\ seen' \in [inode : Files, size : Nat] /\ opened' \in Files /\ rotated' \in Files
    BY <1>0, <1>6, <2>2, ReturnType DEF Find, CheckRotated, Labels, Files
  <2> QED  BY <1>0, <1>6, <2>3 DEF Find, CheckRotated
<1>7. CASE OpenRotated
  <2>1. cp \in Checkpoints
    BY <1>7, Types DEF OpenRotated, PlaceInv
  <2>2. cp.inode \in Inodes
    BY <2>1 DEF Checkpoints
  <2>3. pc' \in Labels /\ seen' \in [inode : Files, size : Nat] /\ opened' \in Files /\ rotated' \in Files
    BY <1>0, <1>7, <2>2, ReturnType DEF OpenRotated, Open, Labels, Files
  <2> QED  BY <1>0, <1>7, <2>3 DEF OpenRotated, Open
<1>8. CASE OpenPath
  <2>1. pc' \in Labels /\ seen' \in [inode : Files, size : Nat] /\ opened' \in Files /\ rotated' \in Files
    BY <1>0, <1>8, ReturnType, Types DEF OpenPath, Open, Labels, Files
  <2> QED  BY <1>0, <1>8, <2>1 DEF OpenPath, Open
<1>9. CASE ReadLine
  <2>1. cp # None /\ opened \in Inodes /\ Ends # {}
    BY <1>9 DEF ReadLine, PlaceInv
  <2>2. cp.inode \in Inodes /\ cp.offset \in Nat /\ data[opened] \in Seq(1..2 * MaxLines)
        /\ Len(data[opened]) \in Nat
    BY <2>1, Types
  <2>3. /\ Min(Ends) \in 1..Len(data[opened])
        /\ data[opened][Min(Ends)] \div 2 \in 1..MaxLines
    BY <2>1, NextLine
  <2>4. CheckpointAt(cp.inode, data[opened], Min(Ends)) \in Checkpoints
    BY <2>2, <2>3, CheckpointType
  <2>5. queued' \in Seq(1..MaxLines)
    <3> DEFINE x == data[opened][Min(Ends)] \div 2
    <3>1. queued' = queued \/ queued' = Append(queued, x)
      BY <1>9 DEF ReadLine
    <3> HIDE DEF x
    <3>2. x \in 1..MaxLines
      BY <2>3 DEF x
    <3> QED  BY <1>0, <3>1, <3>2, AppendProperties
  <2> QED  BY <1>0, <1>9, <2>4, <2>5 DEF ReadLine
<1>10. CASE EndOfFile
  <2>1. pc' \in Labels /\ seen' \in [inode : Files, size : Nat] /\ opened' \in Files /\ rotated' \in Files
    BY <1>0, <1>10, ReturnType DEF EndOfFile, Labels, Files
  <2> QED  BY <1>0, <1>10, <2>1 DEF EndOfFile
<1>11. CASE Move
  <2>1. seen.inode \in Inodes
    BY <1>11 DEF Move, PlaceInv
  <2>2. CheckpointAt(seen.inode, <<>>, 0) \in Checkpoints
    BY <2>1 DEF CheckpointAt, Checkpoints
  <2> QED  BY <1>0, <1>11, <2>2 DEF Move, Labels
<1> QED
  BY <1>1, <1>2, <1>3, <1>4, <1>5, <1>6, <1>7, <1>8, <1>9, <1>10, <1>11
     DEF Next, CollectorStep

\* The counters and the history.
LEMMA HistoryTypeStep ==
    ASSUME TypeOK, PlaceInv, Next PROVE HistoryType'
<1>0. HistoryType
  BY TypeParts
<1>1. \A s : LinesIn(s) \subseteq 1..MaxLines
  BY DEF LinesIn
<1>2. \A i : Unread(i) \subseteq 1..MaxLines
  BY <1>1 DEF Unread
<1>3. torn' \in BOOLEAN
  BY <1>0 DEF HistoryType, Next, CollectorStep, LogStep, Interrupt, Collect, First, CheckAnchor,
     Find, CheckRotated, OpenRotated, OpenPath, Open, ReadLine, EndOfFile, Move, WriteLine, WriteHead,
     WriteTail, Reopen, Rotate, Truncate, RemoveArchive, Create
<1>4. rotations' \in Nat /\ faults' \in Nat /\ races' \in Nat
  BY <1>0 DEF HistoryType, Next, CollectorStep, LogStep, Interrupt, Collect, First, CheckAnchor,
     Find, CheckRotated, OpenRotated, OpenPath, Open, ReadLine, EndOfFile, Move, WriteLine, WriteHead,
     WriteTail, Reopen, Rotate, Truncate, RemoveArchive
<1>5. forgone' \subseteq 1..MaxLines
  <2>1. CASE WriteLine \/ WriteHead
    <3>1. written + 1 \in 1..MaxLines
      BY <2>1, Types DEF WriteLine, WriteHead
    <3> QED  BY <1>0, <2>1, <3>1 DEF HistoryType, WriteLine, WriteHead, Begin
  <2>2. CASE Reopen \/ Rotate \/ Truncate
    <3>1. forgone \subseteq 1..MaxLines
      BY <1>0 DEF HistoryType
    <3>2. CASE Reopen
      BY <1>2, <3>1, <3>2 DEF Reopen, Create
    <3>3. CASE Rotate
      <4> DEFINE taken == IF path = Inode THEN {} ELSE LinesIn(data[path])
      <4>1. taken \subseteq 1..MaxLines
        BY <1>1
      <4>2. forgone' = forgone \cup taken \/ \E i \in Fresh : Create(i, taken)
        BY <3>3 DEF Rotate
      <4> HIDE DEF taken
      <4> QED  BY <1>2, <3>1, <4>1, <4>2 DEF Create
    <3>4. CASE Truncate
      BY <1>2, <3>1, <3>4 DEF Truncate
    <3> QED  BY <2>2, <3>2, <3>3, <3>4
  <2>3. CASE Collect \/ Move
    <3>1. 1..written \subseteq 1..MaxLines
      BY Types
    <3> QED  BY <1>0, <2>3, <3>1 DEF HistoryType, Collect, Move
  <2>4. CASE ReadLine
    <3>1. cp # None /\ opened \in Inodes /\ Ends # {}
      BY <2>4 DEF ReadLine, PlaceInv
    <3>2. data[opened][Min(Ends)] \div 2 \in 1..MaxLines
      BY <3>1, NextLine
    <3> QED  BY <1>0, <2>4, <3>2 DEF HistoryType, ReadLine
  <2>6. CASE EndOfFile
    BY <1>0, <1>2, <2>6 DEF HistoryType, EndOfFile
  <2>5. CASE UNCHANGED forgone
    BY <1>0, <2>5 DEF HistoryType
  <2> QED
    BY <2>1, <2>2, <2>3, <2>4, <2>5, <2>6 DEF Next, CollectorStep, LogStep, Interrupt, First,
       CheckAnchor, Find, CheckRotated, OpenRotated, OpenPath, Open, WriteTail, RemoveArchive
<1>6. mistaken' \subseteq 1..MaxLines
  <2>1. Mistaken' \subseteq 1..MaxLines
    BY DEF Mistaken, LinesIn
  <2> QED  BY <1>0, <2>1 DEF HistoryType, Next, Note
<1> QED  BY <1>3, <1>4, <1>5, <1>6 DEF HistoryType

\* Every step keeps the types.
LEMMA TypeStep ==
    ASSUME TypeOK, PairInv, PlaceInv, Next PROVE TypeOK'
<1>1. LogType' /\ CollectorType' /\ HistoryType'
  BY LogTypeStep, CollectorTypeStep, HistoryTypeStep
<1> QED  BY <1>1 DEF TypeOK, LogType, CollectorType, HistoryType

-----------------------------------------------------------------------------
(* The files *)

\* A piece belongs to one line.
LEMMA OneLine == \A l, m \in Nat, p \in Int : Of(l, p) /\ Of(m, p) => l = m
  BY DEF Of

\* Xray does not continue a line of another file.
LEMMA NotElsewhere ==
    ASSUME TypeOK, FileInv, PairInv, WriteLine \/ WriteHead \/ WriteTail, Grows,
           NEW i \in Inodes \ {fd}, NEW k \in 1..Len(data[i])
    PROVE  ~Of(written', data[i][k])
<1>1. /\ data[i][k] <= Top /\ data[i][k] \in Int /\ Top \in Int
      /\ written \in Nat /\ written' \in 1..MaxLines
  <2>1. data[i][k] <= Top
    BY DEF FileInv
  <2>2. data[i][k] \in Nat /\ Top \in Int /\ written \in Nat
    BY Types
  <2>3. written' \in 1..MaxLines
    BY DEF Grows
  <2> QED  BY <2>1, <2>2, <2>3
<1>2. CASE WriteLine \/ WriteHead
  <2>1. Top = 2 * written /\ written' = written + 1
    BY <1>2 DEF WriteLine, WriteHead, Begin, Top
  <2> QED  BY <1>1, <2>1 DEF Of
<1>3. CASE WriteTail
  <2>1. Top = 2 * written - 1 /\ written' = written /\ half /\ written \notin cut
    BY <1>3 DEF WriteTail, Top, PairInv
  <2> SUFFICES ASSUME Of(written', data[i][k]) PROVE FALSE
    OBVIOUS
  <2>2. data[i][k] = 2 * written - 1
    BY <1>1, <2>1 DEF Of
  <2>3. k + 1 <= Len(data[i]) /\ data[i][k + 1] = 2 * written
    BY <1>1, <2>1, <2>2 DEF PairInv
  <2>4. k + 1 \in 1..Len(data[i])
    BY <2>3, Types
  <2>5. data[i][k + 1] <= Top
    BY <2>4 DEF FileInv
  <2> QED  BY <1>1, <2>1, <2>3, <2>5
<1> QED  BY <1>2, <1>3

\* Every step keeps the files in order.
LEMMA FileStep ==
    ASSUME TypeOK, FileInv, PairInv, Next PROVE FileInv'
<1>1. CASE WriteLine \/ WriteHead \/ WriteTail
  <2>1. Grows
    BY <1>1, WriteGrows
  <2> DEFINE s == data[fd]
             t == data'[fd]
  <2>2. /\ fd \in Inodes /\ fd' = fd /\ path' = path
        /\ Len(s) \in Nat /\ Len(t) \in Nat /\ Len(s) < Len(t) /\ Top \in Int /\ Top' \in Int /\ Top < Top'
        /\ \A k \in 1..Len(s) : t[k] = s[k] /\ s[k] <= Top /\ s[k] \in Int
        /\ \A k \in 1..Len(t) : k > Len(s) => t[k] > Top /\ t[k] <= Top' /\ Of(written', t[k])
        /\ \A k \in 1..Len(t) : t[k] \in Int
        /\ \A i \in Inodes \ {fd} : data'[i] = data[i]
        /\ \A i \in Inodes : \A k \in 1..Len(data[i]) : data[i][k] \in Int /\ data[i][k] <= Top
        /\ written' \in Nat
    <3>1. fd \in Inodes /\ fd' = fd /\ path' = path /\ Len(s) \in Nat /\ Top \in Int
      BY <1>1, Types DEF WriteLine, WriteHead, WriteTail
    <3>2. /\ Len(s) < Len(t) /\ Top' \in Nat /\ Top < Top' /\ written' \in 1..MaxLines
          /\ t \in Seq(1..2 * MaxLines)
          /\ \A k \in 1..Len(s) : t[k] = s[k]
          /\ \A k \in 1..Len(t) : k > Len(s) => t[k] > Top /\ t[k] <= Top' /\ Of(written', t[k])
          /\ \A i \in Inodes \ {fd} : data'[i] = data[i]
      BY <2>1, <3>1 DEF Grows, Extends
    <3>3. \A i \in Inodes : \A k \in 1..Len(data[i]) : data[i][k] \in Nat /\ data[i][k] <= Top
      BY Types DEF FileInv
    <3>4. \A k \in 1..Len(t) : t[k] \in Int
      <4> HIDE DEF t
      <4> QED  BY <3>2
    <3>5. \A k \in 1..Len(s) : t[k] = s[k] /\ s[k] <= Top /\ s[k] \in Int
      <4>1. \A k \in 1..Len(s) : s[k] \in Nat /\ s[k] <= Top
        BY <3>1, <3>3
      <4>2. \A k \in 1..Len(s) : t[k] = s[k]
        BY <3>2
      <4> HIDE DEF s, t
      <4> QED  BY ONLY <4>1, <4>2
    <3>6. Len(t) \in Nat /\ written' \in Nat /\ Top' \in Int
      <4> HIDE DEF t
      <4> QED  BY <3>2
    <3>7. \A i \in Inodes : \A k \in 1..Len(data[i]) : data[i][k] \in Int /\ data[i][k] <= Top
      BY <3>3
    <3> HIDE DEF s, t
    <3> QED  BY ONLY <3>1, <3>2, <3>4, <3>5, <3>6, <3>7
  <2>3. \A j, k \in 1..Len(t) : j < k => t[j] < t[k]
    <3> SUFFICES ASSUME NEW j \in 1..Len(t), NEW k \in 1..Len(t), j < k PROVE t[j] < t[k]
      OBVIOUS
    <3>1. CASE j > Len(s)
      BY <2>1, <3>1 DEF Grows
    <3>2. CASE j <= Len(s) /\ k <= Len(s)
      <4>1. j \in 1..Len(s) /\ k \in 1..Len(s)
        BY <2>2, <3>2
      <4>2. s[j] < s[k]
        BY <2>2, <4>1 DEF FileInv
      <4> HIDE DEF s, t
      <4> QED  BY <2>2, <4>1, <4>2
    <3>3. CASE j <= Len(s) /\ k > Len(s)
      <4> HIDE DEF s, t
      <4>1. j \in 1..Len(s)
        BY <2>2, <3>3
      <4> QED  BY <2>2, <3>3, <4>1
    <3> HIDE DEF s, t
    <3> QED  BY <2>2, <3>1, <3>2, <3>3
  <2>4. \A i \in Inodes : \A k \in 1..Len(data'[i]) : data'[i][k] <= Top'
    <3> SUFFICES ASSUME NEW i \in Inodes, NEW k \in 1..Len(data'[i]) PROVE data'[i][k] <= Top'
      OBVIOUS
    <3>1. CASE i # fd
      BY <2>2, <3>1
    <3>2. CASE i = fd /\ k > Len(s)
      BY <2>2, <3>2
    <3>3. CASE i = fd /\ k <= Len(s)
      <4>1. k \in 1..Len(s)
        BY <2>2, <3>3
      <4>2. t[k] = s[k] /\ s[k] <= Top /\ s[k] \in Int
        BY <2>2, <4>1
      <4>3. t[k] <= Top'
        <5> HIDE DEF s, t
        <5> QED  BY <2>2, <4>2
      <4> QED  BY <3>3, <4>3
    <3> QED  BY <2>2, <3>1, <3>2, <3>3
  <2>5. \A i \in Inodes : \A j, k \in 1..Len(data'[i]) : j < k => data'[i][j] < data'[i][k]
    BY <2>2, <2>3 DEF FileInv
  <2>6. \A i, j \in Inodes : \A k \in 1..Len(data'[i]), m \in 1..Len(data'[j]), l \in 1..MaxLines :
           Of(l, data'[i][k]) /\ Of(l, data'[j][m]) => i = j
    <3>1. ASSUME NEW j \in Inodes \ {fd}, NEW k \in 1..Len(t), NEW m \in 1..Len(data'[j]),
                 NEW l \in 1..MaxLines, Of(l, t[k]), Of(l, data'[j][m])
          PROVE  FALSE
      <4>1. m \in 1..Len(data[j]) /\ Of(l, data[j][m])
        BY <2>2, <3>1
      <4>2. CASE k > Len(s)
        <5>1. Of(written', t[k]) /\ t[k] \in Int
          BY <2>2, <4>2
        <5>2. l = written'
          BY <2>2, <3>1, <5>1, OneLine
        <5> QED  BY <1>1, <2>1, <4>1, <5>2, NotElsewhere
      <4>3. CASE k <= Len(s)
        <5>1. k \in 1..Len(s) /\ Of(l, s[k])
          BY <2>2, <3>1, <4>3
        <5> QED  BY <2>2, <4>1, <5>1 DEF FileInv
      <4> QED  BY <2>2, <4>2, <4>3
    <3> SUFFICES ASSUME NEW i \in Inodes, NEW j \in Inodes, NEW k \in 1..Len(data'[i]),
                        NEW m \in 1..Len(data'[j]), NEW l \in 1..MaxLines,
                        Of(l, data'[i][k]), Of(l, data'[j][m]), i # j
                 PROVE  FALSE
      OBVIOUS
    <3>2. CASE i = fd
      BY <3>1, <3>2
    <3>3. CASE j = fd
      BY <3>1, <3>3
    <3>4. CASE i # fd /\ j # fd
      BY <2>2, <3>4 DEF FileInv
    <3> QED  BY <3>2, <3>3, <3>4
  <2>7. \A i \in Inodes \ {fd} : \A j \in 1..Len(data'[i]), k \in 1..Len(t) : data'[i][j] < t[k]
    <3> SUFFICES ASSUME NEW i \in Inodes \ {fd}, NEW j \in 1..Len(data[i]), NEW k \in 1..Len(t)
                 PROVE  data[i][j] < t[k]
      BY <2>2
    <3>1. CASE k > Len(s)
      <4>1. t[k] > Top /\ t[k] \in Int /\ Top \in Int
        BY <2>2, <3>1
      <4>2. data[i][j] \in Int /\ data[i][j] <= Top
        BY <2>2
      <4> HIDE DEF s, t
      <4> QED  BY <4>1, <4>2
    <3>2. CASE k <= Len(s)
      <4>1. k \in 1..Len(s)
        BY <2>2, <3>2
      <4> QED  BY <2>2, <4>1 DEF FileInv
    <3> QED  BY <2>2, <3>1, <3>2
  <2>8. path' # None /\ fd' # path' => Len(data'[path']) = 0
    BY <2>2, Types DEF FileInv
  <2> QED  BY <2>2, <2>4, <2>5, <2>6, <2>7, <2>8 DEF FileInv
<1>2. CASE Reopen \/ Rotate \/ Truncate
  <2>1. Top' \in Int /\ Top \in Int /\ Top <= Top'
    BY <1>2, Types DEF Reopen, Rotate, Truncate, Top
  <2>2. \A i \in Inodes : data'[i] = data[i] \/ Len(data'[i]) = 0
    BY <1>2, LogEffect DEF Empties
  <2>3. /\ fd' \in Inodes
        /\ fd' = fd \/ Len(data'[fd']) = 0
        /\ path' # None /\ fd' # path' => Len(data'[path']) = 0
    <3>1. CASE Reopen
      <4>1. CASE path # None
        <5>1. fd' = path /\ data' = data /\ path' = path /\ path \in Inodes
          BY <3>1, <4>1, Types DEF Reopen
        <5> QED  BY <5>1 DEF FileInv
      <4>2. CASE path = None
        <5>1. PICK i \in Fresh : Create(i, {}) /\ path' = i /\ fd' = i
          BY <3>1, <4>2 DEF Reopen
        <5>2. i \in Inodes
          BY FreshIsFree
        <5>3. Empties(i)
          BY <5>1, <5>2, EmptyFile DEF Create
        <5> QED  BY <5>1, <5>2, <5>3 DEF Empties
      <4> QED  BY <4>1, <4>2
    <3>2. CASE Rotate
      <4>1. fd' = fd /\ fd \in Inodes
        BY <3>2, Types DEF Rotate
      <4>2. CASE path' = None
        BY <4>1, <4>2
      <4>3. CASE path' # None
        <5>1. PICK i \in Fresh : path' = i /\ \E taken : Create(i, taken)
          BY <3>2, <4>3 DEF Rotate
        <5>2. i \in Inodes
          BY FreshIsFree
        <5>3. Empties(i)
          BY <5>1, <5>2, EmptyFile DEF Create
        <5> QED  BY <4>1, <5>1, <5>2, <5>3 DEF Empties
      <4> QED  BY <4>2, <4>3
    <3>3. CASE Truncate
      <4>1. path \in Inodes /\ data' = [data EXCEPT ![path] = <<>>] /\ fd' = fd /\ path' = path
            /\ fd \in Inodes
        BY <3>3, Types DEF Truncate
      <4>2. Empties(path)
        BY <4>1, EmptyFile
      <4> QED  BY <4>1, <4>2 DEF Empties
    <3> QED  BY <1>2, <3>1, <3>2, <3>3
  <2>4. \A i \in Inodes : \A k \in 1..Len(data'[i]) :
           /\ data'[i] = data[i] /\ k \in 1..Len(data[i]) /\ data[i][k] \in Int
    BY <2>2, Types
  <2>5. \A i \in Inodes : \A k \in 1..Len(data'[i]) : data'[i][k] <= Top'
    <3> SUFFICES ASSUME NEW i \in Inodes, NEW k \in 1..Len(data'[i]) PROVE data'[i][k] <= Top'
      OBVIOUS
    <3>1. data'[i][k] = data[i][k] /\ data[i][k] <= Top /\ data[i][k] \in Int
      BY <2>4 DEF FileInv
    <3> QED  BY <2>1, <3>1
  <2>6. \A i \in Inodes : \A j, k \in 1..Len(data'[i]) : j < k => data'[i][j] < data'[i][k]
    BY <2>4 DEF FileInv
  <2>7. \A i, j \in Inodes : \A k \in 1..Len(data'[i]), m \in 1..Len(data'[j]), l \in 1..MaxLines :
           Of(l, data'[i][k]) /\ Of(l, data'[j][m]) => i = j
    <3> SUFFICES ASSUME NEW i \in Inodes, NEW j \in Inodes, NEW k \in 1..Len(data'[i]),
                        NEW m \in 1..Len(data'[j]), NEW l \in 1..MaxLines,
                        Of(l, data'[i][k]), Of(l, data'[j][m])
                 PROVE  i = j
      OBVIOUS
    <3>1. /\ k \in 1..Len(data[i]) /\ m \in 1..Len(data[j])
          /\ data'[i][k] = data[i][k] /\ data'[j][m] = data[j][m]
      BY <2>4
    <3>2. Of(l, data[i][k]) /\ Of(l, data[j][m])
      BY <3>1
    <3> QED  BY <3>1, <3>2 DEF FileInv
  <2>8. \A i \in Inodes \ {fd'} : \A j \in 1..Len(data'[i]), k \in 1..Len(data'[fd']) :
           data'[i][j] < data'[fd'][k]
    <3> SUFFICES ASSUME NEW i \in Inodes \ {fd'}, NEW j \in 1..Len(data'[i]),
                        NEW k \in 1..Len(data'[fd'])
                 PROVE  data'[i][j] < data'[fd'][k]
      OBVIOUS
    <3>1. fd' = fd
      BY <2>3
    <3>2. /\ j \in 1..Len(data[i]) /\ k \in 1..Len(data[fd])
          /\ data'[i][j] = data[i][j] /\ data'[fd][k] = data[fd][k]
      BY <2>3, <2>4, <3>1
    <3> QED  BY <2>3, <3>1, <3>2 DEF FileInv
  <2> QED  BY <2>3, <2>5, <2>6, <2>7, <2>8 DEF FileInv
<1>3. CASE RemoveArchive \/ CollectorStep \/ Interrupt
  <2>1. UNCHANGED <<data, path, fd, written, half>>
    BY <1>3 DEF CollectorStep, Interrupt, Collect, First, CheckAnchor, Find, CheckRotated, OpenRotated,
       OpenPath, Open, ReadLine, EndOfFile, Move, RemoveArchive, log
  <2> QED  BY <2>1 DEF FileInv, Top
<1> QED  BY <1>1, <1>2, <1>3 DEF Next, LogStep

\* Every step keeps heads and tails together.
LEMMA PairStep ==
    ASSUME TypeOK, FileInv, PairInv, Next PROVE PairInv'
<1>1. CASE WriteLine \/ WriteHead \/ WriteTail
  <2>1. Grows
    BY <1>1, WriteGrows
  <2> DEFINE s == data[fd]
             t == data'[fd]
  <2>2. /\ fd \in Inodes /\ fd' = fd /\ cut' = cut /\ Len(s) \in Nat /\ Top \in Int
        /\ written \in Nat
    BY <1>1, Types DEF WriteLine, WriteHead, WriteTail
  <2>3. /\ Len(s) < Len(t) /\ written' \in 1..MaxLines /\ written <= written'
        /\ t \in Seq(1..2 * MaxLines)
        /\ \A k \in 1..Len(s) : t[k] = s[k]
        /\ \A k \in 1..Len(t) : k > Len(s) => t[k] > Top /\ Of(written', t[k])
        /\ \A j, k \in 1..Len(t) : j > Len(s) /\ j < k => t[j] < t[k]
        /\ \A i \in Inodes \ {fd} : data'[i] = data[i]
    BY <2>1, <2>2 DEF Grows, Extends
  <2>4. Len(t) \in Nat /\ (\A k \in 1..Len(t) : t[k] \in Nat) /\ written' \in Nat
    <3> HIDE DEF s, t
    <3> QED  BY <2>3
  <2>5. cut' \subseteq 1..written'
    BY <2>2, <2>3 DEF PairInv
  <2>6. half' => written' > 0 /\ written' \notin cut'
    <3>1. CASE WriteHead
      <4>1. written' = written + 1 /\ cut \subseteq 1..written
        BY <3>1 DEF WriteHead, Begin, PairInv
      <4>2. written + 1 \notin cut
        BY <2>2, <4>1
      <4> QED  BY <2>2, <2>3, <4>1, <4>2
    <3>2. CASE WriteLine \/ WriteTail
      <4>1. ~half'
        BY <3>2 DEF WriteLine, WriteTail
      <4> QED  BY <4>1
    <3> QED  BY <1>1, <3>1, <3>2
  <2>7. ASSUME NEW i \in Inodes \ {fd}, NEW k \in 1..Len(data'[i]), NEW l \in 1..MaxLines,
               data'[i][k] = 2 * l - 1
        PROVE  l \in cut' \/ (k + 1 <= Len(data'[i]) /\ data'[i][k + 1] = 2 * l)
    <3>1. data'[i] = data[i] /\ i # fd /\ cut' = cut
      BY <2>2, <2>3
    <3> QED  BY <2>7, <3>1 DEF PairInv
  <2>8. ASSUME NEW k \in 1..Len(t), NEW l \in 1..MaxLines, t[k] = 2 * l - 1, k <= Len(s)
        PROVE  l \in cut' \/ (k + 1 <= Len(t) /\ t[k + 1] = 2 * l)
    <3>1. k \in 1..Len(s) /\ s[k] = 2 * l - 1
      <4>1. k \in 1..Len(s)
        BY <2>2, <2>4, <2>8
      <4>2. \A m \in 1..Len(s) : t[m] = s[m]
        BY <2>3
      <4> QED  BY <2>8, <4>1, <4>2
    <3>2. \/ l \in cut
          \/ k + 1 <= Len(s) /\ s[k + 1] = 2 * l
          \/ half /\ l = written
      BY <2>2, <3>1 DEF PairInv
    <3>3. CASE k + 1 <= Len(s) /\ s[k + 1] = 2 * l
      <4>1. k + 1 \in 1..Len(s) /\ k + 1 <= Len(t)
        BY <2>2, <2>3, <2>4, <3>1, <3>3
      <4> QED  BY <2>3, <3>3, <4>1
    <3>4. CASE half /\ l = written
      <4>1. Top = 2 * l - 1 /\ written' = l
        BY <1>1, <2>2, <3>4 DEF WriteLine, WriteHead, WriteTail, Top
      <4>2. k = Len(s)
        <5> SUFFICES ASSUME k # Len(s) PROVE FALSE
          OBVIOUS
        <5>1. k + 1 \in 1..Len(s) /\ k < k + 1
          BY <2>2, <3>1
        <5>2. s[k] < s[k + 1] /\ s[k + 1] <= Top
          BY <2>2, <3>1, <5>1 DEF FileInv
        <5>3. s[k + 1] \in Nat
          BY <2>2, <5>1, Types
        <5> QED  BY <3>1, <4>1, <5>2, <5>3
      <4>3. k + 1 \in 1..Len(t) /\ k + 1 > Len(s)
        BY <2>2, <2>3, <2>4, <4>2
      <4>4. t[k + 1] > Top /\ Of(l, t[k + 1]) /\ t[k + 1] \in Nat
        BY <2>3, <2>4, <4>1, <4>3
      <4> QED  BY <2>4, <4>1, <4>3, <4>4 DEF Of
    <3> QED  BY <2>2, <3>2, <3>3, <3>4
  <2>9. ASSUME NEW k \in 1..Len(t), NEW l \in 1..MaxLines, t[k] = 2 * l - 1, k > Len(s)
        PROVE  (k + 1 <= Len(t) /\ t[k + 1] = 2 * l) \/ (half' /\ l = written')
    <3>1. Of(written', t[k]) /\ t[k] > Top /\ t[k] \in Nat
      BY <2>3, <2>4, <2>9
    <3>2. l = written'
      <4>1. Of(l, t[k])
        BY <2>9 DEF Of
      <4>2. l \in Nat /\ t[k] \in Int
        BY <3>1
      <4> QED  BY <2>4, <3>1, <4>1, <4>2, OneLine
    <3>3. CASE WriteHead
      BY <3>2, <3>3 DEF WriteHead
    <3>4. CASE WriteTail
      <4>1. Top = 2 * written - 1 /\ written' = written
        BY <3>4 DEF WriteTail, Top
      <4> QED  BY <2>2, <2>9, <3>1, <3>2, <4>1
    <3>5. CASE WriteLine
      <4>1. t = s \o <<2 * written + 1, 2 * written + 2>> /\ written' = written + 1 /\ written < MaxLines
        BY <2>2, <3>5 DEF WriteLine, Begin, TypeOK
      <4>2. 2 * written + 1 \in 1..2 * MaxLines /\ 2 * written + 2 \in 1..2 * MaxLines
            /\ s \in Seq(1..2 * MaxLines)
        BY <2>2, <4>1, Types
      <4>3. Len(t) = Len(s) + 2 /\ t[Len(s) + 2] = 2 * written + 2
        <5> HIDE DEF s, t
        <5> QED  BY <4>1, <4>2, Longer
      <4>4. k # Len(s) + 2
        <5> HIDE DEF s, t
        <5> QED  BY <2>2, <2>9, <3>2, <4>1, <4>3
      <4>5. k + 1 = Len(s) + 2 /\ 2 * l = 2 * written + 2
        <5> HIDE DEF s, t
        <5> QED  BY <2>2, <2>4, <2>9, <3>2, <4>1, <4>3, <4>4
      <4>6. k + 1 <= Len(t)
        <5> HIDE DEF s, t
        <5> QED  BY <2>2, <4>3, <4>5
      <4> QED  BY <4>3, <4>5, <4>6
    <3> QED  BY <1>1, <3>3, <3>4, <3>5
  <2>10. \A i \in Inodes : \A k \in 1..Len(data'[i]), l \in 1..MaxLines :
            data'[i][k] = 2 * l - 1 =>
                \/ l \in cut'
                \/ k + 1 <= Len(data'[i]) /\ data'[i][k + 1] = 2 * l
                \/ half' /\ l = written' /\ i = fd'
    <3> SUFFICES ASSUME NEW i \in Inodes, NEW k \in 1..Len(data'[i]), NEW l \in 1..MaxLines,
                        data'[i][k] = 2 * l - 1
                 PROVE  \/ l \in cut'
                        \/ k + 1 <= Len(data'[i]) /\ data'[i][k + 1] = 2 * l
                        \/ half' /\ l = written' /\ i = fd'
      OBVIOUS
    <3>1. CASE i # fd
      BY <2>7, <3>1
    <3>2. CASE i = fd /\ k <= Len(s)
      BY <2>8, <3>2
    <3>3. CASE i = fd /\ k > Len(s)
      BY <2>2, <2>9, <3>3
    <3> QED  BY <2>2, <3>1, <3>2, <3>3
  <2> QED  BY <2>5, <2>6, <2>10 DEF PairInv
<1>2. CASE Reopen \/ Rotate \/ Truncate
  <2>1. \A i \in Inodes : data'[i] = data[i] \/ Len(data'[i]) = 0
    BY <1>2, LogEffect DEF Empties
  <2>2. written' = written /\ cut \subseteq cut' /\ written \in Nat
    BY <1>2, Types DEF Reopen, Rotate, Truncate
  <2>3. \/ half' = half /\ fd' = fd /\ cut' = cut
        \/ half' = FALSE /\ cut' = cut \cup (IF half THEN {written} ELSE {})
    BY <1>2 DEF Reopen, Rotate, Truncate
  <2>4. cut' \subseteq 1..written' /\ (half' => written' > 0 /\ written' \notin cut')
    <3>1. cut \subseteq 1..written /\ (half => written > 0 /\ written \notin cut)
      BY DEF PairInv
    <3>2. CASE half' = half /\ cut' = cut
      BY <2>2, <3>1, <3>2
    <3>3. CASE half' = FALSE /\ cut' = cut \cup (IF half THEN {written} ELSE {})
      <4>1. ~half'
        BY <3>3
      <4>2. half => written \in 1..written
        BY <2>2, <3>1
      <4>3. cut' \subseteq 1..written
        BY <3>1, <3>3, <4>2
      <4> QED  BY <2>2, <4>1, <4>3
    <3> QED  BY <2>3, <3>2, <3>3
  <2>5. ASSUME NEW i \in Inodes, NEW k \in 1..Len(data'[i]), NEW l \in 1..MaxLines,
               data'[i][k] = 2 * l - 1
        PROVE  \/ l \in cut'
               \/ k + 1 <= Len(data'[i]) /\ data'[i][k + 1] = 2 * l
               \/ half' /\ l = written' /\ i = fd'
    <3>1. data'[i] = data[i]
      BY <2>1
    <3>2. \/ l \in cut
          \/ k + 1 <= Len(data[i]) /\ data[i][k + 1] = 2 * l
          \/ half /\ l = written /\ i = fd
      BY <2>5, <3>1 DEF PairInv
    <3> QED  BY <2>2, <2>3, <3>1, <3>2
  <2> QED  BY <2>4, <2>5 DEF PairInv
<1>3. CASE RemoveArchive \/ CollectorStep \/ Interrupt
  <2>1. UNCHANGED <<data, cut, fd, written, half>>
    BY <1>3 DEF CollectorStep, Interrupt, Collect, First, CheckAnchor, Find, CheckRotated, OpenRotated,
       OpenPath, Open, ReadLine, EndOfFile, Move, RemoveArchive, log
  <2> QED  BY <2>1 DEF PairInv
<1> QED  BY <1>1, <1>2, <1>3 DEF Next, LogStep

-----------------------------------------------------------------------------
(* The checkpoint and the file it is in *)

\* What is written at the end of a file does not change whether the checkpoint
\* fits it: the anchor is older.
LEMMA GrowFits ==
    ASSUME NEW c \in Checkpoints, NEW top \in Int, Proper(c, top), NEW line,
           NEW s \in Seq(1..2 * MaxLines), NEW t \in Seq(1..2 * MaxLines),
           Extends(s, t, top, line)
    PROVE  Fits(c, t) <=> Fits(c, s)
<1>1. /\ c.offset \in Nat /\ (c.anchor # None => c.anchor \in Nat /\ c.offset > 0 /\ c.anchor <= top)
      /\ Len(s) \in Nat /\ Len(t) \in Nat /\ Len(s) < Len(t)
  BY DEF Checkpoints, Proper, Extends
<1>2. CASE c.anchor = None
  BY <1>2 DEF Fits
<1>3. CASE c.anchor # None /\ c.offset <= Len(s)
  <2>1. c.offset \in 1..Len(s) /\ c.offset <= Len(t)
    BY <1>1, <1>3
  <2>2. t[c.offset] = s[c.offset]
    BY <2>1 DEF Extends
  <2> QED  BY <1>3, <2>1, <2>2 DEF Fits
<1>4. CASE c.anchor # None /\ c.offset > Len(s)
  <2>1. ~Fits(c, s)
    BY <1>1, <1>4 DEF Fits
  <2>2. ASSUME c.offset <= Len(t) PROVE t[c.offset] # c.anchor
    <3>1. c.offset \in 1..Len(t)
      BY <1>1, <1>4, <2>2
    <3>2. t[c.offset] > top /\ t[c.offset] \in Nat
      BY <1>4, <3>1 DEF Extends
    <3> QED  BY <1>1, <1>4, <3>2
  <2> QED  BY <1>4, <2>1, <2>2 DEF Fits
<1> QED  BY <1>1, <1>2, <1>3, <1>4

\* Nor does it take a line away, and it adds at most the one that is written.
LEMMA GrowHas ==
    ASSUME NEW top \in Int, NEW line \in 1..MaxLines, NEW n \in Nat,
           NEW s \in Seq(1..2 * MaxLines), NEW t \in Seq(1..2 * MaxLines),
           Extends(s, t, top, line)
    PROVE  /\ Has(s, n) \subseteq Has(t, n)
           /\ Has(t, n) \subseteq Has(s, n) \cup {line}
           /\ n <= Len(s) => line \in Has(t, n)
<1>1. Len(s) \in Nat /\ Len(t) \in Nat /\ Len(s) < Len(t)
  BY DEF Extends
<1>2. ASSUME NEW l \in Has(s, n) PROVE l \in Has(t, n)
  <2>1. PICK k \in 1..Len(s) : k > n /\ Of(l, s[k])
    BY DEF Has
  <2>2. k \in 1..Len(t) /\ t[k] = s[k]
    BY <1>1 DEF Extends
  <2>3. l \in 1..MaxLines
    BY DEF Has
  <2> QED  BY <2>1, <2>2, <2>3 DEF Has
<1>3. ASSUME NEW l \in Has(t, n) PROVE l \in Has(s, n) \cup {line}
  <2>1. PICK k \in 1..Len(t) : k > n /\ Of(l, t[k])
    BY DEF Has
  <2>2. l \in 1..MaxLines
    BY DEF Has
  <2>3. CASE k > Len(s)
    <3>1. Of(line, t[k])
      BY <2>3 DEF Extends
    <3>2. t[k] \in Int /\ l \in Nat /\ line \in Nat
      BY <2>2
    <3> QED  BY <2>1, <3>1, <3>2, OneLine
  <2>4. CASE k <= Len(s)
    <3>1. k \in 1..Len(s)
      BY <1>1, <2>4
    <3>2. t[k] = s[k]
      BY <3>1 DEF Extends
    <3> QED  BY <2>1, <2>2, <3>1, <3>2 DEF Has
  <2> QED  BY <1>1, <2>3, <2>4
<1>4. ASSUME n <= Len(s) PROVE line \in Has(t, n)
  <2>1. Len(t) \in 1..Len(t) /\ Len(t) > n /\ Len(t) > Len(s)
    BY <1>1, <1>4
  <2>2. Of(line, t[Len(t)])
    BY <2>1 DEF Extends
  <2> QED  BY <2>1, <2>2 DEF Has
<1> QED  BY <1>2, <1>3, <1>4

\* The checkpoint stands still while Xray writes.
LEMMA GrowLeft ==
    ASSUME TypeOK, CheckpointInv, Grows, NEW i \in Inodes
    PROVE  /\ cp # None => (Fits(cp, data'[i]) <=> Fits(cp, data[i]))
           /\ From(cp, i, data'[i]) = From(cp, i, data[i])
           /\ \A n \in Nat : Has(data[i], n) \subseteq Has(data'[i], n)
           /\ \A n \in Nat : Has(data'[i], n) \subseteq Has(data[i], n) \cup {written'}
           /\ Left(cp, i, data[i]) \subseteq Left(cp, i, data'[i])
           /\ Left(cp, i, data'[i]) \subseteq Left(cp, i, data[i]) \cup {written'}
<1>1. CASE i # fd
  <2>1. data'[i] = data[i]
    BY <1>1 DEF Grows
  <2> QED  BY <2>1
<1>2. CASE i = fd
  <2>1. /\ data[i] \in Seq(1..2 * MaxLines) /\ data'[i] \in Seq(1..2 * MaxLines) /\ Top \in Int
        /\ written' \in 1..MaxLines /\ Extends(data[i], data'[i], Top, written')
    BY <1>2, Types DEF Grows
  <2>2. cp # None => cp \in Checkpoints /\ Proper(cp, Top)
    BY Types DEF CheckpointInv
  <2>3. cp # None => (Fits(cp, data'[i]) <=> Fits(cp, data[i]))
    BY <2>1, <2>2, GrowFits
  <2>4. From(cp, i, data'[i]) = From(cp, i, data[i]) /\ From(cp, i, data[i]) \in Nat
    BY <2>3, Types DEF From
  <2>5. \A n \in Nat : /\ Has(data[i], n) \subseteq Has(data'[i], n)
                       /\ Has(data'[i], n) \subseteq Has(data[i], n) \cup {written'}
    BY <2>1, GrowHas
  <2> QED  BY <2>3, <2>4, <2>5 DEF Left
<1> QED  BY <1>1, <1>2

\* A file that passes for the checkpoint's still does, and one that does not
\* yet is not read past the offset.
LEMMA GrowPasses ==
    ASSUME TypeOK, CheckpointInv, Grows, NEW i \in Inodes, cp # None
    PROVE  /\ Alike(cp, data[i]) => Alike(cp, data'[i])
           /\ Alike(cp, data'[i]) => Alike(cp, data[i]) \/ Has(data[i], cp.offset) = {}
<1>1. CASE i # fd
  <2>1. data'[i] = data[i]
    BY <1>1 DEF Grows
  <2> QED  BY <2>1
<1>2. CASE i = fd
  <2>1. /\ Len(data[i]) \in Nat /\ Len(data'[i]) \in Nat /\ Len(data[i]) < Len(data'[i])
        /\ \A k \in 1..Len(data[i]) : data'[i][k] = data[i][k]
    <3>1. data[i] \in Seq(1..2 * MaxLines) /\ data'[i] \in Seq(1..2 * MaxLines)
      BY <1>2, Types DEF Grows
    <3>2. Len(data[i]) < Len(data'[i]) /\ \A k \in 1..Len(data[i]) : data'[i][k] = data[i][k]
      BY <1>2 DEF Grows, Extends
    <3> QED  BY <3>1, <3>2
  <2>2. cp.offset \in Nat /\ (cp.anchor # None => cp.offset > 0)
    BY Types DEF CheckpointInv, Proper
  <2>3. CASE cp.anchor = None
    BY <2>3 DEF Alike
  <2>4. CASE cp.anchor # None /\ cp.offset <= Len(data[i])
    <3>1. cp.offset \in 1..Len(data[i]) /\ cp.offset <= Len(data'[i])
      BY <2>1, <2>2, <2>4
    <3> QED  BY <2>1, <2>4, <3>1 DEF Alike
  <2>5. CASE cp.offset > Len(data[i])
    <3>1. \A k \in 1..Len(data[i]) : ~(k > cp.offset)
      BY <2>1, <2>2, <2>5
    <3>2. Has(data[i], cp.offset) = {}
      BY <3>1 DEF Has
    <3>3. cp.anchor # None => ~Alike(cp, data[i])
      BY <2>1, <2>2, <2>5 DEF Alike
    <3> QED  BY <2>3, <3>2, <3>3
  <2> QED  BY <2>1, <2>2, <2>3, <2>4, <2>5
<1> QED  BY <1>1, <1>2

\* An empty file has nothing, and fits only a checkpoint at its start.
LEMMA EmptyLeft ==
    ASSUME NEW s \in Seq(1..2 * MaxLines), Len(s) = 0
    PROVE  /\ \A n : Has(s, n) = {}
           /\ \A c, i : Left(c, i, s) = {}
<1>1. \A n : Has(s, n) = {}
  BY DEF Has
<1> QED  BY <1>1 DEF Left

\* Xray's writing goes on.
LEMMA TopGrows ==
    ASSUME TypeOK, PairInv, Next PROVE Top <= Top' /\ Top' \in Int
<1>1. CASE WriteLine \/ WriteHead \/ WriteTail
  <2>1. Grows
    BY <1>1, WriteGrows
  <2> QED  BY <2>1, Types DEF Grows
<1>2. CASE Reopen
  <2>1. written' = written /\ half' = FALSE
    BY <1>2 DEF Reopen
  <2>2. Top' = 2 * written
    BY <2>1 DEF Top
  <2> QED  BY <2>2, Types DEF Top
<1>3. CASE Rotate \/ Truncate
  <2>1. UNCHANGED <<written, half>>
    BY <1>3 DEF Rotate, Truncate
  <2> QED  BY <2>1, Types DEF Top
<1>4. CASE RemoveArchive \/ CollectorStep \/ Interrupt
  <2>1. UNCHANGED <<written, half>>
    BY <1>4 DEF CollectorStep, Interrupt, Collect, First, CheckAnchor, Find, CheckRotated, OpenRotated,
       OpenPath, Open, ReadLine, EndOfFile, Move, RemoveArchive, log
  <2> QED  BY <2>1, Types DEF Top
<1> QED  BY <1>1, <1>2, <1>3, <1>4 DEF Next, LogStep

\* The checkpoint of a position remembers the piece before it.
LEMMA ProperAt ==
    ASSUME NEW i, NEW s \in Seq(1..2 * MaxLines), NEW n \in Nat, n <= Len(s),
           NEW top \in Int, \A k \in 1..Len(s) : s[k] <= top
    PROVE  Proper(CheckpointAt(i, s, n), top)
<1>1. n # 0 => s[n] \in Nat /\ s[n] <= top
  OBVIOUS
<1> QED  BY <1>1 DEF Proper, CheckpointAt

\* A checkpoint that is reset.
LEMMA Reset ==
    ASSUME NEW c \in Checkpoints, NEW d, d = [c EXCEPT !.offset = 0, !.anchor = None]
    PROVE  /\ d \in Checkpoints /\ d.inode = c.inode /\ d.offset = 0 /\ d.anchor = None
           /\ \A s : Fits(d, s) /\ Alike(d, s)
<1>1. d \in Checkpoints
  <2>1. [c EXCEPT !.offset = 0, !.anchor = None] \in Checkpoints
    BY DEF Checkpoints
  <2> QED  BY <2>1
<1>2. d.inode = c.inode /\ d.offset = 0 /\ d.anchor = None
  BY DEF Checkpoints
<1>3. \A s : Fits(d, s) /\ Alike(d, s)
  BY <1>2 DEF Fits, Alike
<1> QED  BY <1>1, <1>2, <1>3

\* Every step keeps what the checkpoint remembers.
LEMMA CheckpointStep ==
    ASSUME TypeOK, FileInv, PairInv, CheckpointInv, PlaceInv, Next PROVE CheckpointInv'
<1>0. Top <= Top' /\ Top' \in Int /\ Top \in Int
  BY TopGrows, Types
<1>1. CASE LogStep \/ Interrupt \/ Collect \/ Find \/ CheckRotated \/ OpenRotated \/ OpenPath \/ EndOfFile
  <2>1. UNCHANGED <<cp, queued>>
    BY <1>1 DEF LogStep, WriteLine, WriteHead, WriteTail, Reopen, Rotate, Truncate, RemoveArchive,
       collector, Interrupt, Collect, Find, CheckRotated, OpenRotated, OpenPath, Open, EndOfFile
  <2>2. cp # None => Proper(cp, Top')
    <3>1. cp # None /\ cp.anchor # None => cp.anchor \in Nat
      BY Types DEF Checkpoints
    <3> QED  BY <1>0, <3>1 DEF CheckpointInv, Proper
  <2>3. \A k \in 1..Len(queued) : 2 * queued[k] <= Top'
    <3> SUFFICES ASSUME NEW k \in 1..Len(queued) PROVE 2 * queued[k] <= Top'
      OBVIOUS
    <3>1. queued[k] \in 1..MaxLines /\ 2 * queued[k] <= Top
      BY Types DEF CheckpointInv
    <3> QED  BY <1>0, <3>1
  <2> QED  BY <2>1, <2>2, <2>3 DEF CheckpointInv
<1>2. CASE First
  <2>1. cp = None /\ queued = <<>> /\ queued' = queued /\ Top' = Top
    BY <1>2 DEF First, PlaceInv, CheckpointInv, log, Top
  <2> DEFINE found == IF path = None THEN <<>> ELSE data[path]
  <2>2. found \in Seq(1..2 * MaxLines)
    <3>1. <<>> \in Seq(1..2 * MaxLines)
      OBVIOUS
    <3> QED  BY <3>1, Types
  <2>3. \A k \in 1..Len(found) : found[k] <= Top
    BY Types DEF FileInv
  <2>4. seen.size \in Nat
    BY DEF TypeOK
  <2>5. cp' = IF seen.size <= Len(found) THEN CheckpointAt(seen.inode, found, seen.size) ELSE cp
    BY <1>2 DEF First
  <2>6. cp' # None => Proper(cp', Top)
    <3> HIDE DEF found
    <3> QED  BY <1>0, <2>1, <2>2, <2>3, <2>4, <2>5, ProperAt
  <2>7. \A k \in 1..Len(queued') : 2 * queued'[k] <= Top'
    BY <2>1
  <2> QED  BY <2>1, <2>6, <2>7 DEF CheckpointInv
<1>3. CASE CheckAnchor
  <2>1. cp # None /\ cp \in Checkpoints /\ queued' = queued /\ Top' = Top
    BY <1>3, Types DEF CheckAnchor, PlaceInv, log, Top
  <2>2. cp' = cp \/ cp' = [cp EXCEPT !.offset = 0, !.anchor = None]
    BY <1>3 DEF CheckAnchor
  <2>3. Proper(cp', Top)
    <3>1. CASE cp' = cp
      BY <2>1, <3>1 DEF CheckpointInv
    <3>2. CASE cp' = [cp EXCEPT !.offset = 0, !.anchor = None]
      <4>1. cp'.offset = 0 /\ cp'.anchor = None
        BY <2>1, <3>2, Reset
      <4> QED  BY <4>1 DEF Proper
    <3> QED  BY <2>2, <3>1, <3>2
  <2>4. cp' \in Checkpoints
    BY <2>1, <2>2, Reset
  <2> QED  BY <2>1, <2>3, <2>4 DEF CheckpointInv
<1>4. CASE ReadLine
  <2>1. cp # None /\ opened \in Inodes /\ Ends # {} /\ Top' = Top
    BY <1>4 DEF ReadLine, PlaceInv, log, Top
  <2> DEFINE s == data[opened]
             e == Min(Ends)
  <2>2. /\ e \in 1..Len(s) /\ s[e] \div 2 \in 1..MaxLines /\ s[e] = 2 * (s[e] \div 2)
    BY <2>1, NextLine
  <2>3. s \in Seq(1..2 * MaxLines) /\ Len(s) \in Nat /\ cp.inode \in Inodes
    BY <2>1, Types
  <2>4. \A k \in 1..Len(s) : s[k] <= Top
    BY <2>1 DEF FileInv
  <2>5. cp' = CheckpointAt(cp.inode, s, e)
    BY <1>4 DEF ReadLine
  <2>6. Proper(cp', Top) /\ cp' \in Checkpoints
    <3> HIDE DEF s, e
    <3>1. e \in Nat /\ e <= Len(s)
      BY <2>2, <2>3
    <3> QED  BY <1>0, <2>3, <2>4, <2>5, <3>1, ProperAt, CheckpointType
  <2>7. queued' = queued \/ queued' = Append(queued, s[e] \div 2)
    BY <1>4 DEF ReadLine
  <2>8. \A k \in 1..Len(queued') : 2 * queued'[k] <= Top
    <3>1. CASE queued' = queued
      BY <3>1 DEF CheckpointInv
    <3>2. CASE queued' = Append(queued, s[e] \div 2)
      <4> SUFFICES ASSUME NEW k \in 1..Len(queued') PROVE 2 * queued'[k] <= Top
        OBVIOUS
      <4>1. /\ Len(queued') = Len(queued) + 1 /\ queued'[Len(queued) + 1] = s[e] \div 2
            /\ Len(queued) \in Nat
            /\ \A j \in 1..Len(queued) : queued'[j] = queued[j]
        <5> HIDE DEF s, e
        <5>1. queued \in Seq(1..MaxLines) /\ s[e] \div 2 \in 1..MaxLines
          BY <2>2 DEF TypeOK
        <5> QED  BY <3>2, <5>1, AppendProperties
      <4>2. CASE k = Len(queued) + 1
        BY <2>2, <2>4, <4>1, <4>2
      <4>3. CASE k # Len(queued) + 1
        <5>1. k \in 1..Len(queued)
          BY <4>1, <4>3
        <5> QED  BY <4>1, <5>1 DEF CheckpointInv
      <4> QED  BY <4>2, <4>3
    <3> QED  BY <2>7, <3>1, <3>2
  <2> QED  BY <2>1, <2>6, <2>8 DEF CheckpointInv
<1>5. CASE Move
  <2>1. seen.inode \in Inodes /\ queued' = queued /\ Top' = Top
    BY <1>5 DEF Move, PlaceInv, log, Top
  <2>2. cp' = CheckpointAt(seen.inode, <<>>, 0)
    BY <1>5 DEF Move
  <2>3. Proper(cp', Top) /\ cp' \in Checkpoints
    BY <2>1, <2>2 DEF CheckpointAt, Proper, Checkpoints
  <2> QED  BY <2>1, <2>3 DEF CheckpointInv
<1> QED  BY <1>1, <1>2, <1>3, <1>4, <1>5 DEF Next, CollectorStep

-----------------------------------------------------------------------------
(* Where collectOnce stands *)

\* An empty file does not fit a checkpoint that is past its start.
LEMMA EmptyFits ==
    ASSUME NEW c \in Checkpoints, NEW s \in Seq(1..2 * MaxLines), Len(s) = 0, NEW top,
           Proper(c, top)
    PROVE  Fits(c, s) <=> c.offset = 0
  BY DEF Fits, Proper, Checkpoints

\* What a step of the log leaves of the collector's state.
LEMMA LogKeeps ==
    ASSUME LogStep PROVE UNCHANGED <<cp, queued, pc, seen, opened, faults>>
  BY DEF LogStep, WriteLine, WriteHead, WriteTail, Reopen, Rotate, Truncate, RemoveArchive,
     collector

\* Every step keeps what collectOnce knows.
LEMMA PlaceStep ==
    ASSUME TypeOK, PairInv, CheckpointInv, PlaceInv, Next PROVE PlaceInv'
<1> USE DEF Racing, Rotated, ByName
<1>1. CASE LogStep
  <2>1. UNCHANGED <<cp, queued, pc, seen, opened>>
    BY <1>1, LogKeeps
  <2>2. races \in Nat /\ races' \in Nat /\ races <= races'
    BY <1>1, Types DEF LogStep, WriteLine, WriteHead, WriteTail, Reopen, Rotate, Truncate,
       RemoveArchive
  <2>3. pc \in Racing /\ path' # seen.inode => races' > 0
    <3>1. CASE Rotate
      BY <2>2, <3>1 DEF Rotate, Labels
    <3>2. CASE Reopen
      <4>1. CASE path # None
        BY <3>2, <4>1 DEF Reopen, PlaceInv
      <4>2. CASE path = None
        <5>1. pc \in Racing => path # seen.inode
          BY <4>2 DEF PlaceInv
        <5> QED  BY <3>2, <5>1 DEF Reopen, PlaceInv
      <4> QED  BY <4>1, <4>2
    <3>3. CASE UNCHANGED <<path, races>>
      BY <3>3 DEF PlaceInv
    <3> QED  BY <1>1, <3>1, <3>2, <3>3 DEF LogStep, WriteLine, WriteHead, WriteTail, Truncate,
                RemoveArchive
  <2>4. ASSUME pc = "anchor", seen.size < cp.offset PROVE ~Fits(cp, data'[cp.inode])
    <3>1. cp # None /\ cp \in Checkpoints /\ cp.inode \in Inodes /\ cp.offset \in Nat
      BY <2>4, Types DEF PlaceInv
    <3>2. ~Fits(cp, data[cp.inode]) /\ Proper(cp, Top)
      BY <2>4, <3>1 DEF PlaceInv, Matches, CheckpointInv
    <3>3. CASE WriteLine \/ WriteHead \/ WriteTail
      <4>1. Grows
        BY <3>3, WriteGrows
      <4> QED  BY <3>1, <3>2, <4>1, GrowLeft
    <3>4. CASE Reopen \/ Rotate \/ Truncate
      <4>1. data'[cp.inode] = data[cp.inode]
            \/ (Len(data'[cp.inode]) = 0 /\ data'[cp.inode] \in Seq(1..2 * MaxLines))
        BY <3>1, <3>4, LogEffect DEF Empties
      <4>2. cp.offset > 0
        <5>1. seen.size \in Nat
          BY DEF TypeOK
        <5> QED  BY <2>4, <3>1, <5>1
      <4> QED  BY <3>1, <3>2, <4>1, <4>2, EmptyFits
    <3>5. CASE RemoveArchive
      BY <3>2, <3>5 DEF RemoveArchive
    <3> QED  BY <1>1, <3>3, <3>4, <3>5 DEF LogStep
  <2>5. pc \in {"drain", "drainRotated"} /\ races' = 0 => opened = cp.inode
    BY <2>2 DEF PlaceInv
  <2>6. pc \in ByName /\ races' = 0 => rotated' \in {cp.inode, None}
    <3>1. CASE Rotate
      BY <2>2, <3>1 DEF Rotate, Labels
    <3>2. CASE RemoveArchive
      BY <2>2, <3>2 DEF RemoveArchive, PlaceInv
    <3>3. CASE UNCHANGED rotated
      BY <2>2, <3>3 DEF PlaceInv
    <3> QED  BY <1>1, <3>1, <3>2, <3>3 DEF LogStep, WriteLine, WriteHead, WriteTail, Reopen,
                Truncate
  <2>7. path' \notin archived'
    <3>1. CASE Rotate
      <4>1. path \in Inodes /\ archived' = archived \cup {path} /\ (path' = None \/ path' \in Fresh)
        BY <3>1, Types DEF Rotate
      <4>2. archived \subseteq Inodes
        BY DEF TypeOK
      <4> QED  BY <4>1, <4>2, FreshIsFree
    <3>2. CASE Reopen
      BY <3>2, FreshIsFree DEF Reopen, PlaceInv
    <3>3. CASE path' = path /\ archived' \subseteq archived
      BY <3>3 DEF PlaceInv
    <3> QED  BY <1>1, <3>1, <3>2, <3>3 DEF LogStep, WriteLine, WriteHead, WriteTail, Truncate,
                RemoveArchive
  <2> QED  BY <2>1, <2>3, <2>4, <2>5, <2>6, <2>7 DEF PlaceInv, Matches
<1>2. CASE Interrupt
  BY <1>2 DEF Interrupt, Return, PlaceInv, log
<1>3. CASE Collect
  <2>1. /\ path \in Inodes /\ Len(data[path]) \in Nat
        /\ cp # None => cp \in Checkpoints /\ cp.offset \in Nat /\ Proper(cp, Top)
    BY <1>3, Types DEF Collect, CheckpointInv
  <2>2. /\ seen'.inode = path /\ seen'.size = Len(data[path]) /\ path' = path /\ cp' = cp
        /\ data' = data /\ races' = races /\ archived' = archived
    BY <1>3 DEF Collect, log
  <2>3. \/ cp = None /\ pc' = "first"
        \/ cp # None /\ cp.inode = path /\ pc' = "anchor"
        \/ cp # None /\ cp.inode # path /\ pc' = "find"
    <3>1. CASE cp = None
      BY <1>3, <3>1 DEF Collect, Inode
    <3>2. CASE cp # None /\ cp.inode = path
      BY <1>3, <3>2 DEF Collect, Inode
    <3>3. CASE cp # None /\ cp.inode # path
      BY <1>3, <3>3 DEF Collect, Inode
    <3> QED  BY <3>1, <3>2, <3>3
  <2>4. cp # None /\ cp.inode = path /\ Len(data[path]) < cp.offset => ~Fits(cp, data[cp.inode])
    BY <2>1 DEF Fits, Proper
  <2> QED  BY <2>1, <2>2, <2>3, <2>4 DEF PlaceInv, Matches
<1>4. CASE First
  BY <1>4 DEF First, Return, PlaceInv, log
<1>5. CASE CheckAnchor
  <2>0. UNCHANGED <<path, archived>>
    BY <1>5 DEF CheckAnchor, log
  <2>1. CASE Return
    BY <2>0, <2>1 DEF Return, PlaceInv
  <2>2. CASE ~Return
    <3>1. /\ pc = "anchor" /\ pc' = "open" /\ UNCHANGED <<seen, path, archived, races>>
          /\ cp' = cp \/ cp' = [cp EXCEPT !.offset = 0, !.anchor = None]
      BY <1>5, <2>2 DEF CheckAnchor, log
    <3>2. cp # None /\ cp \in Checkpoints
      BY <3>1, Types DEF PlaceInv
    <3>3. cp'.inode = cp.inode /\ cp' \in Checkpoints
      BY <3>1, <3>2, Reset
    <3> QED  BY <3>1, <3>2, <3>3 DEF PlaceInv
  <2> QED  BY <2>1, <2>2
<1>6. CASE Find
  BY <1>6 DEF Find, PlaceInv, log
<1>12. CASE CheckRotated
  <2>0. UNCHANGED <<path, archived>>
    BY <1>12 DEF CheckRotated, log
  <2>1. CASE Return
    BY <2>0, <2>1 DEF Return, PlaceInv
  <2>2. CASE ~Return
    BY <1>12, <2>2 DEF CheckRotated, PlaceInv, log
  <2> QED  BY <2>1, <2>2
<1>7. CASE OpenRotated
  <2>0. UNCHANGED <<path, archived>>
    BY <1>7 DEF OpenRotated, Open, log
  <2>1. CASE Return
    BY <2>0, <2>1 DEF Return, PlaceInv
  <2>2. CASE ~Return
    <3>1. /\ pc = "openRotated" /\ pc' = "drainRotated"
          /\ UNCHANGED <<seen, path, archived, races, cp>>
          /\ opened' = rotated /\ rotated # None
      BY <1>7, <2>2 DEF OpenRotated, Open, log
    <3>2. cp # None /\ rotated \in Inodes
      BY <3>1, Types DEF PlaceInv, TypeOK, Files
    <3>3. races = 0 => opened' = cp.inode
      BY <3>1 DEF PlaceInv
    <3> QED  BY <3>1, <3>2, <3>3 DEF PlaceInv
  <2> QED  BY <2>1, <2>2
<1>8. CASE OpenPath
  <2>0. UNCHANGED <<path, archived>>
    BY <1>8 DEF OpenPath, Open, log
  <2>1. CASE Return
    BY <2>0, <2>1 DEF Return, PlaceInv
  <2>2. CASE ~Return
    <3>1. /\ pc = "open" /\ pc' = "drain" /\ UNCHANGED <<seen, path, archived, races, cp>>
          /\ opened' = path /\ path # None
      BY <1>8, <2>2 DEF OpenPath, Open, log
    <3>2. cp # None /\ path \in Inodes /\ races \in Nat
      BY <3>1, Types DEF PlaceInv
    <3>3. races = 0 => path = cp.inode
      BY <3>1, <3>2 DEF PlaceInv
    <3> QED  BY <3>1, <3>2, <3>3 DEF PlaceInv
  <2> QED  BY <2>1, <2>2
<1>9. CASE ReadLine
  <2>1. cp # None /\ opened \in Inodes /\ Ends # {}
    BY <1>9 DEF ReadLine, PlaceInv
  <2>2. /\ cp.inode \in Inodes /\ data[opened] \in Seq(1..2 * MaxLines)
        /\ Len(data[opened]) \in Nat
    BY <2>1, Types
  <2>3. Min(Ends) \in 1..Len(data[opened])
    BY <2>1, NextLine
  <2>4. cp' = CheckpointAt(cp.inode, data[opened], Min(Ends))
    BY <1>9 DEF ReadLine
  <2>5. cp' \in Checkpoints
    BY <2>2, <2>3, <2>4, CheckpointType
  <2>6. cp'.inode = cp.inode
    BY <2>4 DEF CheckpointAt
  <2>7. pc \in {"drain", "drainRotated"} /\ UNCHANGED <<pc, seen, opened, path, archived, races>>
    BY <1>9 DEF ReadLine, log
  <2> QED  BY <2>5, <2>6, <2>7 DEF PlaceInv
<1>10. CASE EndOfFile
  <2>0. UNCHANGED <<path, archived>>
    BY <1>10 DEF EndOfFile, log
  <2>1. CASE Return
    BY <2>0, <2>1 DEF Return, PlaceInv
  <2>2. CASE ~Return
    <3>1. pc = "drainRotated" /\ pc' = "move" /\ UNCHANGED <<seen, path, archived, races, cp>>
      BY <1>10, <2>2 DEF EndOfFile, Drained, log
    <3> QED  BY <3>1 DEF PlaceInv
  <2> QED  BY <2>1, <2>2
<1>11. CASE Move
  <2>1. /\ pc \in {"move", "gap"} /\ pc' = "open" /\ UNCHANGED <<seen, path, archived, races>>
        /\ cp' = CheckpointAt(seen.inode, <<>>, 0)
    BY <1>11 DEF Move, log
  <2>2. seen.inode \in Inodes
    BY <2>1 DEF PlaceInv
  <2>3. cp' \in Checkpoints /\ cp'.inode = seen.inode
    BY <2>1, <2>2 DEF CheckpointAt, Checkpoints
  <2> QED  BY <2>1, <2>2, <2>3 DEF PlaceInv
<1> QED
  BY <1>1, <1>2, <1>3, <1>4, <1>5, <1>6, <1>7, <1>8, <1>9, <1>10, <1>11, <1>12
     DEF Next, CollectorStep

\* A file that is created or truncated while collectOnce works is neither the
\* checkpoint's nor the one that was seen, unless that is recorded as torn.
LEMMA CreateElsewhere ==
    ASSUME TypeOK, PlaceInv, NEW i \in Fresh, NEW taken, Create(i, taken), ~torn', pc # "idle"
    PROVE  ~torn /\ i # seen.inode /\ (cp # None => i # cp.inode /\ data'[cp.inode] = data[cp.inode])
<1>1. ~torn /\ i # seen.inode /\ i # Inode
  BY DEF Create
<1>2. i \in Inodes
  BY FreshIsFree
<1>3. Empties(i)
  BY <1>2, EmptyFile DEF Create
<1>4. cp # None => cp.inode \in Inodes /\ i # cp.inode
  BY <1>1, Types DEF Inode
<1> QED  BY <1>1, <1>3, <1>4 DEF Empties

\* Every step keeps what collectOnce relies on.
LEMMA MatchStep ==
    ASSUME TypeOK, FileInv, PairInv, CheckpointInv, PlaceInv, MatchInv, Next PROVE MatchInv'
<1> SUFFICES ASSUME ~torn' PROVE MatchInv'
  BY DEF MatchInv
<1> USE DEF Rotated, ByName
<1>1. CASE WriteLine \/ WriteHead \/ WriteTail
  <2>1. Grows
    BY <1>1, WriteGrows
  <2>2. UNCHANGED <<cp, pc, seen, opened, rotated, path, archived, torn>>
    BY <1>1 DEF WriteLine, WriteHead, WriteTail, collector
  <2>3. cp # None /\ Alike(cp, data[cp.inode]) => Alike(cp, data'[cp.inode])
    BY <2>1, Types, GrowPasses
  <2>4. path # None => Len(data[path]) <= Len(data'[path])
    <3> SUFFICES ASSUME path # None PROVE Len(data[path]) <= Len(data'[path])
      OBVIOUS
    <3>1. path \in Inodes /\ Len(data[path]) \in Nat
      BY Types
    <3>2. CASE path # fd
      BY <2>1, <3>1, <3>2 DEF Grows
    <3>3. CASE path = fd
      <4>1. Len(data[path]) < Len(data'[path]) /\ data'[path] \in Seq(1..2 * MaxLines)
        BY <2>1, <3>1, <3>3 DEF Grows, Extends
      <4>2. Len(data'[path]) \in Nat
        BY <4>1
      <4> QED  BY <3>1, <4>1, <4>2
    <3> QED  BY <3>2, <3>3
  <2>5. ASSUME pc = "first", path = seen.inode PROVE seen.size <= Len(data'[path])
    <3>1. seen.size <= Len(data[path]) /\ path \in Inodes
      BY <2>2, <2>5 DEF MatchInv, PlaceInv
    <3>2. Len(data[path]) \in Nat /\ Len(data'[path]) \in Nat /\ seen.size \in Nat
      <4>1. data'[path] \in Seq(1..2 * MaxLines)
        BY <2>1, <3>1 DEF Grows
      <4>2. Len(data'[path]) \in Nat
        BY <4>1
      <4>3. seen.size \in Nat
        BY DEF TypeOK
      <4>4. Len(data[path]) \in Nat
        BY <3>1, Types
      <4> QED  BY <4>2, <4>3, <4>4
    <3>3. Len(data[path]) <= Len(data'[path])
      BY <2>4, <3>1
    <3>4. \A a, b, c \in Nat : a <= b /\ b <= c => a <= c
      OBVIOUS
    <3> QED  BY <3>1, <3>2, <3>3, <3>4
  <2> QED  BY <2>2, <2>3, <2>5 DEF MatchInv, PlaceInv, Passes
<1>2. CASE RemoveArchive
  <2>1. /\ UNCHANGED <<cp, pc, seen, opened, data, path, torn>>
        /\ \E i \in archived : archived' = archived \ {i} /\ rotated' = IF rotated = i THEN None ELSE rotated
    BY <1>2 DEF RemoveArchive, collector
  <2>2. cp # None => cp.inode # None
    BY Types
  <2>3. pc \notin {"idle", "first"} => cp # None
    BY DEF PlaceInv
  <2> QED  BY <2>1, <2>2, <2>3 DEF MatchInv, Passes
<1>3. CASE Reopen
  <2>1. UNCHANGED <<cp, pc, seen, opened, rotated, archived>>
    BY <1>3 DEF Reopen, collector
  <2>2. CASE path # None
    <3>1. UNCHANGED <<data, path, torn>>
      BY <1>3, <2>2 DEF Reopen
    <3> QED  BY <2>1, <3>1 DEF MatchInv, Passes
  <2>3. CASE path = None /\ pc # "idle"
    <3>1. PICK i \in Fresh : Create(i, {}) /\ path' = i
      BY <1>3, <2>3 DEF Reopen
    <3>2. ~torn /\ i # seen.inode /\ (cp # None => i # cp.inode /\ data'[cp.inode] = data[cp.inode])
      BY <2>3, <3>1, CreateElsewhere
    <3>3. i # opened
      BY FreshIsFree
    <3> QED  BY <2>1, <3>1, <3>2, <3>3 DEF MatchInv, PlaceInv, Passes
  <2>4. CASE pc = "idle"
    BY <2>1, <2>4 DEF MatchInv
  <2> QED  BY <2>2, <2>3, <2>4
<1>4. CASE Rotate
  <2>1. UNCHANGED <<cp, pc, seen, opened>>
    BY <1>4 DEF Rotate, collector
  <2>2. CASE pc = "idle"
    BY <2>1, <2>2 DEF MatchInv
  <2>3. CASE pc # "idle"
    <3>1. /\ path' # seen.inode /\ ~torn
          /\ cp # None => path' # cp.inode /\ data'[cp.inode] = data[cp.inode]
          /\ path' = None \/ path' # opened
      <4>1. CASE path' = None /\ UNCHANGED <<data, torn>>
        <5>1. cp # None => cp.inode # None
          BY Types
        <5>2. seen.inode # None
          BY <2>3 DEF PlaceInv
        <5> QED  BY <4>1, <5>1, <5>2
      <4>2. CASE \E i \in Fresh : \E taken : path' = i /\ Create(i, taken)
        <5>1. PICK i \in Fresh : \E taken : path' = i /\ Create(i, taken)
          BY <4>2
        <5>2. PICK taken : path' = i /\ Create(i, taken)
          BY <5>1
        <5>3. ~torn /\ i # seen.inode /\ (cp # None => i # cp.inode /\ data'[cp.inode] = data[cp.inode])
          BY <2>3, <5>2, CreateElsewhere
        <5>4. i # opened
          BY FreshIsFree
        <5> QED  BY <5>2, <5>3, <5>4
      <4> QED  BY <1>4, <4>1, <4>2 DEF Rotate
    <3>2. ASSUME pc \in ByName
          PROVE  /\ rotated' \in archived' \cup {None}
                 /\ rotated' = cp.inode => rotated = cp.inode
      <4>1. /\ cp # None /\ path # None /\ path # cp.inode /\ Inode = cp.inode /\ cp.inode # None
            /\ rotated \in archived \cup {None} /\ path \notin archived
        BY <1>4, <3>1, <3>2, Types DEF Rotate, PlaceInv, MatchInv, Inode
      <4>2. rotated' \in {rotated, path, None} \cup (archived \ {cp.inode})
        BY <1>4, <3>2, <4>1 DEF Rotate, Rename
      <4>3. archived' = archived \cup {path}
        BY <1>4 DEF Rotate
      <4> QED  BY <4>1, <4>2, <4>3
    <3>3. opened \in Inodes => opened # None
      OBVIOUS
    <3> QED  BY <2>1, <2>3, <3>1, <3>2, <3>3 DEF MatchInv, PlaceInv, Passes
  <2> QED  BY <2>2, <2>3
<1>5. CASE Truncate
  <2>1. pc = "idle" /\ pc' = pc
    BY <1>5 DEF Truncate, collector
  <2> QED  BY <2>1 DEF MatchInv
<1>6. CASE Interrupt \/ First
  BY <1>6 DEF Interrupt, First, Return, MatchInv
<1>7. CASE Collect
  <2>1. /\ seen'.inode = path /\ seen'.size = Len(data[path]) /\ path' = path /\ cp' = cp
        /\ data' = data /\ path \in Inodes /\ Len(data[path]) \in Nat
    BY <1>7, Types DEF Collect, log
  <2>2. pc' \in {"first", "anchor", "find"} /\ (pc' = "find" => cp.inode # path)
    BY <1>7 DEF Collect, Inode
  <2> QED  BY <2>1, <2>2 DEF MatchInv
<1>8. CASE CheckAnchor
  <2>1. CASE Return
    BY <2>1 DEF Return, MatchInv
  <2>2. CASE ~Return
    <3>1. /\ pc = "anchor" /\ pc' = "open" /\ UNCHANGED <<path, data>>
          /\ \/ cp' = [cp EXCEPT !.offset = 0, !.anchor = None]
             \/ cp' = cp /\ (cp.anchor = None \/ AnchorMatches(data[path]))
      BY <1>8, <2>2 DEF CheckAnchor, log
    <3>2. cp # None /\ cp \in Checkpoints
      BY <3>1, Types DEF PlaceInv
    <3>3. path = cp'.inode => Alike(cp', data[cp'.inode])
      <4>1. CASE cp' = [cp EXCEPT !.offset = 0, !.anchor = None]
        BY <3>2, <4>1, Reset
      <4>2. CASE cp' = cp /\ (cp.anchor = None \/ AnchorMatches(data[path]))
        BY <4>2 DEF AnchorMatches, Alike
      <4> QED  BY <3>1, <4>1, <4>2
    <3> QED  BY <3>1, <3>3 DEF MatchInv, Passes
  <2> QED  BY <2>1, <2>2
<1>9. CASE Find
  <2>1. /\ pc = "find" /\ UNCHANGED <<cp, data, path, archived, torn>>
        /\ \/ pc' = "anchorRotated" /\ rotated' = cp.inode /\ cp.inode \in archived \cup {path}
           \/ pc' = "gap"
    BY <1>9 DEF Find, log
  <2> QED  BY <2>1 DEF MatchInv
<1>15. CASE CheckRotated
  <2>1. CASE Return
    BY <2>1 DEF Return, MatchInv
  <2>2. CASE ~Return
    <3>1. /\ pc = "anchorRotated" /\ UNCHANGED <<cp, data, path, archived, seen, torn>>
          /\ \/ /\ pc' = "openRotated" /\ rotated' = rotated
                /\ cp.anchor = None \/ AnchorMatches(data[rotated])
             \/ pc' = "gap"
      BY <1>15, <2>2 DEF CheckRotated, log
    <3> QED  BY <3>1 DEF MatchInv, Passes, AnchorMatches, Alike
  <2> QED  BY <2>1, <2>2
<1>10. CASE OpenRotated
  <2>1. CASE Return
    BY <2>1 DEF Return, MatchInv
  <2>2. CASE ~Return
    <3>1. /\ pc = "openRotated" /\ pc' = "drainRotated" /\ UNCHANGED <<cp, data, path, torn>>
          /\ opened' = rotated /\ rotated # None
      BY <1>10, <2>2 DEF OpenRotated, Open, log
    <3>2. rotated # path
      BY <3>1 DEF MatchInv, PlaceInv
    <3> QED  BY <3>1, <3>2 DEF MatchInv, Passes
  <2> QED  BY <2>1, <2>2
<1>11. CASE OpenPath
  <2>1. CASE Return
    BY <2>1 DEF Return, MatchInv
  <2>2. CASE ~Return
    <3>1. pc = "open" /\ pc' = "drain" /\ opened' = path /\ UNCHANGED <<cp, data, path, torn>>
      BY <1>11, <2>2 DEF OpenPath, Open, log
    <3> QED  BY <3>1 DEF MatchInv, Passes
  <2> QED  BY <2>1, <2>2
<1>12. CASE ReadLine
  <2>1. cp # None /\ opened \in Inodes /\ Ends # {}
    BY <1>12 DEF ReadLine, PlaceInv
  <2>2. Min(Ends) \in 1..Len(data[opened]) /\ Len(data[opened]) \in Nat
    BY <2>1, NextLine, Types
  <2>3. cp' = CheckpointAt(cp.inode, data[opened], Min(Ends))
    BY <1>12 DEF ReadLine
  <2>4. cp'.inode = cp.inode /\ cp'.offset = Min(Ends) /\ cp'.anchor = data[opened][Min(Ends)]
    BY <2>2, <2>3 DEF CheckpointAt
  <2>5. opened = cp.inode => Alike(cp', data[cp.inode])
    BY <2>2, <2>4 DEF Alike
  <2>6. pc \in {"drain", "drainRotated"} /\ UNCHANGED <<pc, opened, data, path, torn>>
    BY <1>12 DEF ReadLine, log
  <2> QED  BY <2>4, <2>5, <2>6 DEF MatchInv, Passes
<1>13. CASE EndOfFile
  <2>1. CASE Return
    BY <2>1 DEF Return, MatchInv
  <2>2. CASE ~Return
    <3>1. pc = "drainRotated" /\ pc' = "move" /\ UNCHANGED <<cp, data, path, torn>>
      BY <1>13, <2>2 DEF EndOfFile, Drained, log
    <3> QED  BY <3>1 DEF MatchInv
  <2> QED  BY <2>1, <2>2
<1>14. CASE Move
  <2>1. pc' = "open" /\ cp' = CheckpointAt(seen.inode, <<>>, 0)
    BY <1>14 DEF Move
  <2>2. \A s : Alike(cp', s)
    BY <2>1 DEF CheckpointAt, Alike
  <2> QED  BY <2>1, <2>2 DEF MatchInv, Passes
<1> QED
  BY <1>1, <1>2, <1>3, <1>4, <1>5, <1>6, <1>7, <1>8, <1>9, <1>10, <1>11, <1>12, <1>13, <1>14, <1>15
     DEF Next, CollectorStep, LogStep

-----------------------------------------------------------------------------
(* Order *)

\* What is appended is the last.
LEMMA AppendLast ==
    ASSUME NEW q \in Seq(1..MaxLines), NEW x \in 1..MaxLines
    PROVE  /\ Len(Append(q, x)) = Len(q) + 1 /\ Append(q, x)[Len(q) + 1] = x
           /\ \A k \in 1..Len(q) : Append(q, x)[k] = q[k]
           /\ Len(q) \in Nat /\ \A k \in 1..Len(q) : q[k] \in 1..MaxLines
  OBVIOUS

\* Every step keeps the order.
LEMMA OrderStep ==
    ASSUME TypeOK, FileInv, PairInv, CheckpointInv, PlaceInv, OrderInv, Next PROVE OrderInv'
<1> SUFFICES ASSUME races' = 0 PROVE OrderInv'
  BY DEF OrderInv
<1>0. races = 0
  BY Types DEF Next, CollectorStep, LogStep, Interrupt, Collect, First, CheckAnchor,
     Find, CheckRotated, OpenRotated, OpenPath, Open, ReadLine, EndOfFile, Move, WriteLine, WriteHead,
     WriteTail, Reopen, Rotate, Truncate, RemoveArchive
<1>1. CASE WriteLine \/ WriteHead \/ WriteTail
  <2>1. Grows
    BY <1>1, WriteGrows
  <2>2. UNCHANGED <<cp, queued, path>>
    BY <1>1 DEF WriteLine, WriteHead, WriteTail, collector
  <2>3. ASSUME NEW i \in Inodes, NEW k \in 1..Len(data'[i]), NEW q \in 1..Len(queued),
               k \in 1..Len(data[i]) => data[i][k] > 2 * queued[q]
        PROVE  data'[i][k] > 2 * queued[q]
    <3>1. CASE i # fd
      BY <2>1, <2>3, <3>1 DEF Grows
    <3>2. CASE i = fd /\ k <= Len(data[i])
      <4>1. k \in 1..Len(data[i]) /\ data'[i][k] = data[i][k]
        <5>1. k \in 1..Len(data[i])
          BY <3>2, Types
        <5>2. \A m \in 1..Len(data[fd]) : data'[fd][m] = data[fd][m]
          BY <2>1 DEF Grows, Extends
        <5> QED  BY <3>2, <5>1, <5>2
      <4> QED  BY <2>3, <4>1
    <3>3. CASE i = fd /\ k > Len(data[i])
      <4>1. data'[i][k] > Top /\ data'[i] \in Seq(1..2 * MaxLines)
        BY <2>1, <3>3 DEF Grows, Extends
      <4>2. data'[i][k] \in Nat
        BY <4>1
      <4>3. 2 * queued[q] <= Top /\ queued[q] \in 1..MaxLines /\ Top \in Int
        BY Types DEF CheckpointInv
      <4>4. \A a, b \in Nat, c \in Int : a > c /\ 2 * b <= c => a > 2 * b
        OBVIOUS
      <4>5. queued[q] \in Nat
        BY <4>3
      <4> QED  BY <4>1, <4>2, <4>3, <4>4, <4>5
    <3>4. Len(data[i]) \in Nat
      BY Types
    <3> QED  BY <3>1, <3>2, <3>3, <3>4
  <2>4. cp # None => cp.inode \in Inodes /\ (Fits(cp, data'[cp.inode]) <=> Fits(cp, data[cp.inode]))
    BY <2>1, Types, GrowLeft
  <2>5. ASSUME cp # None, NEW k \in 1..Len(data'[cp.inode]), NEW q \in 1..Len(queued),
               Fits(cp, data'[cp.inode]) => k > cp.offset
        PROVE  data'[cp.inode][k] > 2 * queued[q]
    BY <1>0, <2>3, <2>4, <2>5 DEF OrderInv, Matches
  <2>6. ASSUME cp # None, path # None, path # cp.inode,
               NEW k \in 1..Len(data'[path]), NEW q \in 1..Len(queued)
        PROVE  data'[path][k] > 2 * queued[q]
    <3>1. path \in Inodes
      BY <2>6, Types
    <3> QED  BY <1>0, <2>3, <2>6, <3>1 DEF OrderInv
  <2> QED  BY <1>0, <2>2, <2>5, <2>6 DEF OrderInv, Matches
<1>2. CASE Reopen \/ Rotate \/ Truncate
  <2>1. UNCHANGED <<cp, queued>>
    BY <1>2 DEF Reopen, Rotate, Truncate, collector
  <2>2. \A i \in Inodes : data'[i] = data[i] \/ Len(data'[i]) = 0
    BY <1>2, LogEffect DEF Empties
  <2>3. path' = path \/ path' = None \/ Len(data'[path']) = 0
    <3>1. ASSUME NEW i \in Fresh, NEW taken, Create(i, taken) PROVE Len(data'[i]) = 0
      <4>1. i \in Inodes
        BY FreshIsFree
      <4>2. Empties(i)
        BY <3>1, <4>1, EmptyFile DEF Create
      <4> QED  BY <4>2 DEF Empties
    <3>2. \/ path' = path
          \/ path' = None
          \/ \E i \in Fresh : \E taken : path' = i /\ Create(i, taken)
      BY <1>2 DEF Reopen, Rotate, Truncate
    <3> QED  BY <3>1, <3>2
  <2>4. cp # None => cp.inode \in Inodes
    BY Types
  <2>5. path # None => path \in Inodes
    BY Types
  <2>6. ASSUME cp # None, NEW k \in 1..Len(data'[cp.inode]), NEW q \in 1..Len(queued),
               Fits(cp, data'[cp.inode]) => k > cp.offset
        PROVE  data'[cp.inode][k] > 2 * queued[q]
    <3>1. data'[cp.inode] = data[cp.inode]
      BY <2>2, <2>4, <2>6
    <3> QED  BY <1>0, <2>6, <3>1 DEF OrderInv, Matches
  <2>7. ASSUME cp # None, path' # None, path' # cp.inode,
               NEW k \in 1..Len(data'[path']), NEW q \in 1..Len(queued)
        PROVE  data'[path'][k] > 2 * queued[q]
    <3>1. path' = path
      BY <2>3, <2>7
    <3>2. data'[path] = data[path]
      BY <2>2, <2>5, <2>7, <3>1
    <3> QED  BY <1>0, <2>7, <3>1, <3>2 DEF OrderInv
  <2> QED  BY <1>0, <2>1, <2>6, <2>7 DEF OrderInv, Matches
<1>3. CASE RemoveArchive \/ Interrupt \/ Collect \/ Find \/ CheckRotated \/ OpenRotated \/ OpenPath \/ EndOfFile
  <2>1. UNCHANGED <<cp, queued, data, path>>
    BY <1>3 DEF RemoveArchive, Interrupt, Collect, Find, CheckRotated, OpenRotated, OpenPath, Open, EndOfFile,
       log, collector
  <2> QED  BY <1>0, <2>1 DEF OrderInv, Matches
<1>4. CASE First
  <2>1. queued' = <<>>
    BY <1>4 DEF First, PlaceInv, CheckpointInv
  <2> QED  BY <2>1 DEF OrderInv
<1>5. CASE CheckAnchor
  <2>1. pc = "anchor" /\ UNCHANGED <<queued, data, path>>
    BY <1>5 DEF CheckAnchor, log
  <2>2. cp # None /\ cp \in Checkpoints /\ path = cp.inode
    BY <1>0, <2>1, Types DEF PlaceInv, Racing
  <2>3. CASE cp' = cp
    BY <1>0, <2>1, <2>3 DEF OrderInv, Matches
  <2>4. CASE cp' # cp
    <3>1. /\ cp' = [cp EXCEPT !.offset = 0, !.anchor = None]
          /\ seen.size < cp.offset \/ ~(cp.anchor = None \/ AnchorMatches(data[path]))
      BY <1>5, <2>4 DEF CheckAnchor
    <3>2. ~Matches
      BY <2>1, <2>2, <3>1 DEF PlaceInv, Matches, AnchorMatches, Fits
    <3>3. cp'.inode = cp.inode
      BY <2>2, <3>1, Reset
    <3> QED  BY <1>0, <2>1, <2>2, <3>2, <3>3 DEF OrderInv, Matches
  <2> QED  BY <2>3, <2>4
<1>6. CASE ReadLine
  <2>1. cp # None /\ opened \in Inodes /\ Ends # {} /\ opened = cp.inode /\ UNCHANGED <<data, path>>
    BY <1>0, <1>6 DEF ReadLine, PlaceInv, log
  <2> DEFINE s == data[cp.inode]
             e == Min(Ends)
             x == s[e] \div 2
  <2>2. e \in 1..Len(s) /\ e > cp.offset /\ x \in 1..MaxLines /\ s[e] = 2 * x
    BY <2>1, NextLine
  <2>3. cp' = CheckpointAt(cp.inode, s, e) /\ (queued' = queued \/ queued' = Append(queued, x))
    BY <1>6, <2>1 DEF ReadLine
  <2>4. /\ s \in Seq(1..2 * MaxLines) /\ Len(s) \in Nat /\ cp.inode \in Inodes /\ cp.offset \in Nat
        /\ \A k \in 1..Len(s) : s[k] \in Nat
        /\ queued \in Seq(1..MaxLines)
    BY <2>1, Types DEF TypeOK
  <2>5. /\ cp'.inode = cp.inode /\ cp'.offset = e /\ Fits(cp', s)
    <3> HIDE DEF s, e, x
    <3>1. cp'.inode = cp.inode /\ cp'.offset = e /\ cp'.anchor = s[e]
      BY <2>2, <2>3, <2>4 DEF CheckpointAt
    <3> QED  BY <2>2, <2>4, <3>1 DEF Fits
  <2>6. \A k \in 1..Len(s), q \in 1..Len(queued) : k > cp.offset => s[k] > 2 * queued[q]
    BY <1>0, <2>1 DEF OrderInv
  <2>7. \A k \in 1..Len(s) : k > e => s[k] > 2 * x
    <3> SUFFICES ASSUME NEW k \in 1..Len(s), k > e PROVE s[k] > 2 * x
      OBVIOUS
    <3>1. s[e] < s[k]
      BY <2>2, <2>4 DEF FileInv
    <3> QED  BY <2>2, <2>4, <3>1
  <2>8. ASSUME path # None, path # cp.inode, NEW k \in 1..Len(data[path]) PROVE data[path][k] > 2 * x
    <3>1. path \in Inodes
      BY <2>8, Types
    <3>2. path = fd
      BY <2>8 DEF FileInv
    <3>3. s[e] < data[path][k]
      BY <2>2, <2>4, <2>8, <3>2 DEF FileInv
    <3>4. data[path][k] \in Nat /\ s[e] \in Nat
      BY <2>2, <2>4, <3>1, Types
    <3> QED  BY <2>2, <3>3, <3>4
  <2>9. \A q \in 1..Len(queued) : queued[q] < x
    <3> SUFFICES ASSUME NEW q \in 1..Len(queued) PROVE queued[q] < x
      OBVIOUS
    <3>1. s[e] > 2 * queued[q] /\ queued[q] \in Nat /\ x \in Nat
      <4>1. s[e] > 2 * queued[q]
        BY <2>2, <2>6
      <4>2. queued[q] \in 1..MaxLines
        BY Types
      <4> HIDE DEF s, e, x
      <4>3. queued[q] \in Nat /\ x \in Nat
        BY <2>2, <4>2
      <4> QED  BY <4>1, <4>3
    <3> HIDE DEF s, e, x
    <3> QED  BY <2>2, <3>1
  <2> HIDE DEF s, e, x
  <2>10. ASSUME NEW j \in 1..Len(queued'), NEW k \in 1..Len(queued'), j < k
         PROVE  queued'[j] < queued'[k]
    <3>1. CASE queued' = queued
      BY <1>0, <2>10, <3>1 DEF OrderInv
    <3>2. CASE queued' = Append(queued, x)
      <4>1. /\ Len(queued') = Len(queued) + 1 /\ queued'[Len(queued) + 1] = x
            /\ \A m \in 1..Len(queued) : queued'[m] = queued[m]
            /\ Len(queued) \in Nat
        BY <2>2, <2>4, <3>2, AppendLast
      <4>2. j \in 1..Len(queued) /\ (k \in 1..Len(queued) \/ k = Len(queued) + 1)
        BY <2>10, <4>1
      <4> QED  BY <1>0, <2>9, <2>10, <4>1, <4>2 DEF OrderInv
    <3> QED  BY <2>3, <3>1, <3>2
  <2>11. ASSUME NEW q \in 1..Len(queued')
         PROVE  \/ queued'[q] = x
                \/ q \in 1..Len(queued) /\ queued'[q] = queued[q]
    <3>1. CASE queued' = queued
      BY <3>1
    <3>2. CASE queued' = Append(queued, x)
      <4>1. /\ Len(queued') = Len(queued) + 1 /\ queued'[Len(queued) + 1] = x
            /\ \A m \in 1..Len(queued) : queued'[m] = queued[m]
            /\ Len(queued) \in Nat
        BY <2>2, <2>4, <3>2, AppendLast
      <4>2. q \in 1..Len(queued) \/ q = Len(queued) + 1
        BY <2>11, <4>1
      <4> QED  BY <4>1, <4>2
    <3> QED  BY <2>3, <3>1, <3>2
  <2>12. ASSUME NEW k \in 1..Len(s), NEW q \in 1..Len(queued'), k > e PROVE s[k] > 2 * queued'[q]
    <3>1. k > cp.offset
      BY <2>2, <2>4, <2>12
    <3> QED  BY <2>6, <2>7, <2>11, <2>12, <3>1
  <2>13. ASSUME path # None, path # cp.inode, NEW k \in 1..Len(data[path]), NEW q \in 1..Len(queued')
         PROVE  data[path][k] > 2 * queued'[q]
    <3>1. \A m \in 1..Len(queued) : data[path][k] > 2 * queued[m]
      BY <1>0, <2>1, <2>13 DEF OrderInv
    <3> QED  BY <2>8, <2>11, <2>13, <3>1
  <2>14. \A j, k \in 1..Len(queued') : j < k => queued'[j] < queued'[k]
    BY <2>10
  <2>15. \A k \in 1..Len(data'[cp'.inode]), q \in 1..Len(queued') :
            (Matches' => k > cp'.offset) => data'[cp'.inode][k] > 2 * queued'[q]
    <3>1. data'[cp'.inode] = s /\ Matches'
      BY <2>1, <2>5 DEF s, Matches
    <3> QED  BY <2>5, <2>12, <3>1
  <2>16. path' # None /\ path' # cp'.inode =>
            \A k \in 1..Len(data'[path']), q \in 1..Len(queued') : data'[path'][k] > 2 * queued'[q]
    BY <2>1, <2>5, <2>13
  <2> QED  BY <2>14, <2>15, <2>16 DEF OrderInv
<1>7. CASE Move
  <2>1. /\ pc \in {"move", "gap"} /\ cp' = CheckpointAt(seen.inode, <<>>, 0)
        /\ UNCHANGED <<queued, data, path>>
    BY <1>7 DEF Move, log
  <2>2. cp'.inode = seen.inode
    BY <2>1 DEF CheckpointAt
  <2>3. /\ path = seen.inode /\ seen.inode \in Inodes /\ cp # None /\ cp.inode # seen.inode
    BY <1>0, <2>1 DEF PlaceInv, Racing, Rotated
  <2> QED  BY <1>0, <2>1, <2>2, <2>3 DEF OrderInv
<1> QED
  BY <1>1, <1>2, <1>3, <1>4, <1>5, <1>6, <1>7 DEF Next, CollectorStep, LogStep

-----------------------------------------------------------------------------
(* Copies *)

\* What ReadLine does to the checkpoint and to the copies; a line that cannot
\* be parsed gets none.
LEMMA ReadEffect ==
    ASSUME TypeOK, PlaceInv, ReadLine
    PROVE  LET s == data[opened]
               e == Min(Ends)
               x == s[e] \div 2
           IN  /\ cp # None /\ cp.inode \in Inodes /\ cp.offset \in Nat /\ opened \in Inodes
               /\ e \in 1..Len(s) /\ e > cp.offset /\ x \in 1..MaxLines /\ s[e] = 2 * x
               /\ cp' # None /\ cp'.inode = cp.inode /\ cp'.offset = e /\ cp'.anchor = s[e]
               /\ x \in Has(s, cp.offset) /\ x \in Has(s, 0)
               /\ \A l : CopiesIn(queued', l) <= CopiesIn(queued, l) + 1
               /\ \A l : l # x => CopiesIn(queued', l) = CopiesIn(queued, l)
               /\ UNCHANGED <<data, path, pc, seen, opened, races, torn>>
<1> DEFINE s == data[opened]
           e == Min(Ends)
           x == s[e] \div 2
<1>1. cp # None /\ opened \in Inodes /\ Ends # {} /\ UNCHANGED <<data, path, pc, seen, opened, races, torn>>
  BY DEF ReadLine, PlaceInv, log
<1>2. e \in 1..Len(s) /\ e > cp.offset /\ x \in 1..MaxLines /\ s[e] = 2 * x
  BY <1>1, NextLine
<1>3. cp' = CheckpointAt(cp.inode, s, e) /\ (queued' = queued \/ queued' = Append(queued, x))
  BY DEF ReadLine
<1>4. /\ s \in Seq(1..2 * MaxLines) /\ Len(s) \in Nat /\ cp.inode \in Inodes /\ cp.offset \in Nat
      /\ queued \in Seq(1..MaxLines)
  BY <1>1, Types DEF TypeOK
<1> HIDE DEF s, e, x
<1>5. cp'.inode = cp.inode /\ cp'.offset = e /\ cp'.anchor = s[e]
  BY <1>2, <1>3, <1>4 DEF CheckpointAt
<1>6. cp' # None
  <2>1. cp' \in Checkpoints
    BY <1>2, <1>3, <1>4, CheckpointType
  <2> QED  BY <2>1
<1>7. x \in Has(s, cp.offset) /\ x \in Has(s, 0)
  <2>1. Of(x, s[e]) /\ e > 0
    BY <1>2, <1>4 DEF Of
  <2> QED  BY <1>2, <2>1 DEF Has
<1>8. ASSUME NEW l PROVE /\ CopiesIn(queued', l) <= CopiesIn(queued, l) + 1
                         /\ l # x => CopiesIn(queued', l) = CopiesIn(queued, l)
  <2>1. CopiesIn(queued, l) \in Nat
    BY <1>4, CopiesType
  <2>2. CASE queued' = queued
    BY <2>1, <2>2
  <2>3. CASE queued' = Append(queued, x)
    <3>1. CopiesIn(queued', l) = IF x = l THEN CopiesIn(queued, l) + 1 ELSE CopiesIn(queued, l)
      BY <1>2, <1>4, <2>3, AppendCopies
    <3> QED  BY <2>1, <3>1
  <2> QED  BY <1>3, <2>2, <2>3
<1> QED  BY <1>1, <1>2, <1>4, <1>5, <1>6, <1>7, <1>8 DEF s, e, x

\* What is in another file than a line is not that line.
LEMMA Disjoint ==
    ASSUME TypeOK, FileInv, NEW i \in Inodes, NEW j \in Inodes, i # j, NEW l,
           NEW n \in Nat, NEW m \in Nat, l \in Has(data[i], n), l \in Has(data[j], m)
    PROVE  FALSE
<1>1. PICK k \in 1..Len(data[i]) : Of(l, data[i][k])
  BY DEF Has
<1>2. PICK q \in 1..Len(data[j]) : Of(l, data[j][q])
  BY DEF Has
<1>3. l \in 1..MaxLines
  BY DEF Has
<1> QED  BY <1>1, <1>2, <1>3 DEF FileInv

\* Lines after a later position are lines after an earlier one.
LEMMA HasLess ==
    ASSUME NEW s \in Seq(1..2 * MaxLines), NEW n \in Nat, NEW m \in Nat, n <= m
    PROVE  Has(s, m) \subseteq Has(s, n)
<1> SUFFICES ASSUME NEW l \in Has(s, m) PROVE l \in Has(s, n)
  OBVIOUS
<1>1. PICK k \in 1..Len(s) : k > m /\ Of(l, s[k])
  BY DEF Has
<1>2. l \in 1..MaxLines /\ k > n
  BY <1>1 DEF Has
<1> QED  BY <1>1, <1>2 DEF Has

\* What is left is in the file.
LEMMA LeftIn ==
    ASSUME TypeOK, NEW i \in Inodes
    PROVE  /\ Left(cp, i, data[i]) \subseteq Has(data[i], 0)
           /\ (cp = None \/ i # cp.inode) => Left(cp, i, data[i]) = Has(data[i], 0)
<1>1. From(cp, i, data[i]) \in Nat
  BY Types DEF From
<1>2. data[i] \in Seq(1..2 * MaxLines)
  BY Types
<1>3. Left(cp, i, data[i]) \subseteq Has(data[i], 0)
  BY <1>1, <1>2, HasLess DEF Left
<1>4. (cp = None \/ i # cp.inode) => From(cp, i, data[i]) = 0
  BY DEF From
<1> QED  BY <1>3, <1>4 DEF Left

\* After a line's end only later lines come.
LEMMA Later ==
    ASSUME TypeOK, FileInv, NEW i \in Inodes, NEW e \in 1..Len(data[i]), NEW x \in 1..MaxLines,
           data[i][e] = 2 * x
    PROVE  x \notin Has(data[i], e)
<1> SUFFICES ASSUME NEW k \in 1..Len(data[i]), k > e, Of(x, data[i][k]) PROVE FALSE
  BY DEF Has
<1>1. data[i][e] < data[i][k]
  BY DEF FileInv
<1>2. x \in Nat /\ (data[i][k] = 2 * x - 1 \/ data[i][k] = 2 * x) /\ data[i][e] = 2 * x
  BY DEF Of
<1>3. \A y \in Nat : ~(2 * y < 2 * y - 1) /\ ~(2 * y < 2 * y)
  OBVIOUS
<1> QED  BY <1>1, <1>2, <1>3

\* A checkpoint taken from another file's content does not fit its own file.
LEMMA ReadElsewhere ==
    ASSUME TypeOK, FileInv, PlaceInv, ReadLine, opened # cp.inode
    PROVE  ~Matches'
<1> DEFINE s == data[opened]
           e == Min(Ends)
           x == s[e] \div 2
<1>1. /\ cp.inode \in Inodes /\ opened \in Inodes
      /\ e \in 1..Len(s) /\ x \in 1..MaxLines /\ s[e] = 2 * x
      /\ cp'.inode = cp.inode /\ cp'.offset = e /\ cp'.anchor = s[e]
      /\ x \in Has(s, 0) /\ UNCHANGED data
  BY ReadEffect
<1>2. s[e] \in Nat /\ Len(s) \in Nat /\ Len(data[cp.inode]) \in Nat
  BY <1>1, Types
<1>3. x \notin Has(data[cp.inode], 0)
  BY <1>1, Disjoint
<1> HIDE DEF s, e, x
<1> SUFFICES ASSUME Matches' PROVE FALSE
  OBVIOUS
<1>4. Fits(cp', data[cp.inode])
  BY <1>1 DEF Matches
<1>5. e <= Len(data[cp.inode]) /\ data[cp.inode][e] = s[e]
  BY <1>1, <1>2, <1>4 DEF Fits
<1>6. e \in 1..Len(data[cp.inode])
  BY <1>1, <1>2, <1>5
<1>7. Of(x, data[cp.inode][e])
  BY <1>1, <1>5 DEF Of
<1>8. x \in Has(data[cp.inode], 0)
  BY <1>1, <1>6, <1>7 DEF Has
<1> QED  BY <1>3, <1>8

\* Reading a line leaves one that was allowed another copy, or that was read
\* from a file that is not the checkpoint's.
LEMMA ReadCopies ==
    ASSUME TypeOK, FileInv, PairInv, CheckpointInv, PlaceInv, MatchInv, CopyInv, ReadLine, Note,
           ~torn
    PROVE  CopyInv'
<1> DEFINE s == data[opened]
           e == Min(Ends)
           x == s[e] \div 2
<1>1. /\ cp # None /\ cp.inode \in Inodes /\ cp.offset \in Nat /\ opened \in Inodes
      /\ e \in 1..Len(s) /\ e > cp.offset /\ x \in 1..MaxLines /\ s[e] = 2 * x
      /\ cp' # None /\ cp'.inode = cp.inode /\ cp'.offset = e /\ cp'.anchor = s[e]
      /\ x \in Has(s, cp.offset) /\ x \in Has(s, 0)
      /\ \A l : CopiesIn(queued', l) <= CopiesIn(queued, l) + 1
      /\ \A l : l # x => CopiesIn(queued', l) = CopiesIn(queued, l)
      /\ UNCHANGED <<data, path, pc, seen, opened, races, torn>>
  BY ReadEffect
<1>2. /\ pc \in {"drain", "drainRotated"} /\ queued' \in Seq(1..MaxLines)
      /\ queued \in Seq(1..MaxLines) /\ races \in Nat
  <2>1. CollectorType'
    BY CollectorTypeStep DEF Next, CollectorStep
  <2> QED  BY <2>1, Types DEF CollectorType, ReadLine, TypeOK
<1>3. \A l : CopiesIn(queued, l) \in Nat /\ CopiesIn(queued', l) \in Nat
  BY <1>2, CopiesType
<1>4. s \in Seq(1..2 * MaxLines) /\ Len(s) \in Nat
  BY <1>1, Types
<1>5. x \notin Has(s, e)
  BY <1>1, Later
<1>6. /\ Has(s, e) \subseteq Has(s, cp.offset) /\ e \in Nat
      /\ Has(data[cp.inode], e) \subseteq Has(data[cp.inode], cp.offset)
      /\ Has(data[cp.inode], e) \subseteq Has(data[cp.inode], 0)
  <2>0. data[cp.inode] \in Seq(1..2 * MaxLines)
    BY <1>1, Types
  <2> HIDE DEF s, e, x
  <2>1. e \in Nat /\ cp.offset <= e /\ 0 <= e /\ 0 \in Nat
    BY <1>1, <1>4
  <2> QED  BY <1>1, <1>4, <2>0, <2>1, HasLess
<1>7. \A i \in Inodes : i # opened => x \notin Has(data[i], 0)
  BY <1>1, Disjoint
<1>8. \A i \in Inodes : i # cp.inode => /\ Left(cp', i, data'[i]) = Has(data[i], 0)
                                       /\ Left(cp, i, data[i]) = Has(data[i], 0)
  BY <1>1 DEF Left, From
<1>9. ASSUME NEW l, CopiesIn(queued, l) < races PROVE CopiesIn(queued', l) <= races
  <2>1. CopiesIn(queued', l) <= CopiesIn(queued, l) + 1 /\ CopiesIn(queued, l) \in Nat
        /\ CopiesIn(queued', l) \in Nat
    BY <1>1, <1>3
  <2> QED  BY <1>2, <1>9, <2>1
<1>10. ASSUME CopiesIn(queued, x) <= races PROVE FewCopies'
  <2> SUFFICES ASSUME NEW l \in 1..MaxLines PROVE CopiesIn(queued', l) <= races + 1
    BY <1>1 DEF FewCopies
  <2>1. CASE l = x
    <3>1. CopiesIn(queued', l) <= CopiesIn(queued, l) + 1 /\ CopiesIn(queued, l) <= races
      BY <1>1, <1>10, <2>1
    <3> QED  BY <1>2, <1>3, <3>1
  <2>2. CASE l # x
    BY <1>1, <2>2 DEF CopyInv, FewCopies
  <2> QED  BY <2>1, <2>2
<1>11. RacedCopies' /\ SeenCopies'
  BY <1>1, <1>2 DEF RacedCopies, SeenCopies, ByName
<1>12. CASE opened = cp.inode
  <2>1. Passes
    BY <1>2, <1>12 DEF MatchInv
  <2>2. \A l \in Has(s, cp.offset) : CopiesIn(queued, l) <= races
    BY <1>1, <1>12, <2>1 DEF CopyInv, OwnCopies
  <2>3. \A l \in Has(s, e) : CopiesIn(queued', l) <= races
    BY <1>1, <1>5, <1>6, <2>2
  <2>4. Left(cp', cp.inode, s) = Has(s, e)
    <3>1. Fits(cp', s)
      BY <1>1, <1>4 DEF Fits
    <3> QED  BY <1>1, <1>12, <3>1 DEF Left, From
  <2>5. FewCopies'
    BY <1>1, <1>10, <2>2
  <2>6. ReachCopies'
    <3> SUFFICES ASSUME NEW i \in Reach', NEW l \in Left(cp', i, data'[i])
                 PROVE  CopiesIn(queued', l) <= races
      BY <1>1 DEF ReachCopies
    <3>1. i \in Inodes /\ i \in Reach /\ data'[i] = data[i]
      BY <1>1 DEF Reach
    <3>2. CASE i = cp.inode
      BY <1>12, <2>3, <2>4, <3>1, <3>2
    <3>3. CASE i # cp.inode
      <4>1. l \in Has(data[i], 0) /\ l \in Left(cp, i, data[i])
        BY <1>8, <3>1, <3>3
      <4>2. l # x
        BY <1>7, <1>12, <3>1, <3>3, <4>1
      <4>3. CopiesIn(queued, l) <= races
        BY <3>1, <4>1 DEF CopyInv, ReachCopies
      <4> QED  BY <1>1, <4>2, <4>3
    <3> QED  BY <3>2, <3>3
  <2>7. OwnCopies'
    BY <1>1, <1>12, <2>3 DEF OwnCopies
  <2>8. NewCopies'
    <3> SUFFICES ASSUME pc \in Racing, path # None, path # seen.inode, NEW l \in Has(data[path], 0)
                 PROVE  CopiesIn(queued', l) = 0
      BY <1>1 DEF NewCopies
    <3>1. pc = "drainRotated" /\ path \in Inodes
      BY <1>2, Types DEF Racing
    <3>2. path # cp.inode
      BY <3>1 DEF MatchInv, Rotated
    <3>3. l # x
      BY <1>7, <1>12, <3>1, <3>2
    <3>4. CopiesIn(queued, l) = 0
      BY DEF CopyInv, NewCopies
    <3> QED  BY <1>1, <3>3, <3>4
  <2>9. DrainCopies' /\ RotatedCopies'
    BY <1>1, <1>12 DEF DrainCopies, RotatedCopies
  <2> QED  BY <1>11, <2>5, <2>6, <2>7, <2>8, <2>9 DEF CopyInv
<1>13. ASSUME opened # cp.inode PROVE OwnCopies'
  <2> SUFFICES ASSUME NEW l \in Has(data[cp.inode], e) PROVE CopiesIn(queued', l) <= races
    BY <1>1 DEF OwnCopies
  <2>1. Astray
    BY <1>2, <1>13 DEF Astray
  <2>2. CopiesIn(queued, l) <= races
    BY <1>1, <1>6, <2>1 DEF CopyInv, OwnCopies
  <2>3. l # x
    BY <1>1, <1>6, <1>7, <1>13
  <2> QED  BY <1>1, <2>2, <2>3
<1>14. CASE opened # cp.inode /\ pc = "drain"
  <2>1. races > 0 /\ path # cp.inode
    BY <1>14 DEF MatchInv, CopyInv, DrainCopies
  <2>2. /\ \A l \in Has(s, 0) : CopiesIn(queued, l) <= 1
        /\ \A l \in Has(s, cp.offset) : CopiesIn(queued, l) = 0
    BY <1>14 DEF CopyInv, DrainCopies
  <2>3. CopiesIn(queued', x) <= 1 /\ CopiesIn(queued, x) = 0
    <3>1. CopiesIn(queued, x) = 0 /\ CopiesIn(queued', x) <= CopiesIn(queued, x) + 1
      BY <1>1, <2>2
    <3> QED  BY <3>1
  <2>4. FewCopies'
    BY <1>2, <1>10, <2>1, <2>3
  <2>5. ReachCopies'
    <3> SUFFICES ASSUME NEW i \in Reach', NEW l \in Left(cp', i, data'[i])
                 PROVE  CopiesIn(queued', l) <= races
      BY <1>1 DEF ReachCopies
    <3>1. i \in Inodes /\ i \in Reach /\ i # cp.inode
      BY <1>1, <1>14, <2>1 DEF Reach, Rotated
    <3>2. l \in Left(cp, i, data[i])
      BY <1>8, <3>1
    <3>3. CASE l = x
      BY <1>2, <1>3, <2>1, <2>3, <3>3
    <3>4. CASE l # x
      BY <1>1, <3>1, <3>2, <3>4 DEF CopyInv, ReachCopies
    <3> QED  BY <3>3, <3>4
  <2>6. NewCopies' /\ RotatedCopies'
    BY <1>1, <1>14 DEF NewCopies, RotatedCopies, Racing
  <2>7. \A l \in Has(s, 0) : CopiesIn(queued', l) <= 1
    BY <1>1, <2>2, <2>3
  <2>8. \A l \in Has(s, e) : CopiesIn(queued', l) = 0
    BY <1>1, <1>5, <1>6, <2>2
  <2>9. DrainCopies'
    BY <1>1, <2>1, <2>7, <2>8 DEF DrainCopies
  <2> QED  BY <1>11, <1>13, <1>14, <2>4, <2>5, <2>6, <2>9 DEF CopyInv
<1>15. CASE opened # cp.inode /\ pc = "drainRotated"
  <2>1. path # opened /\ path # cp.inode /\ seen.inode # cp.inode /\ seen.inode \in Inodes
    BY <1>15 DEF MatchInv, PlaceInv, Rotated
  <2>2. /\ races > 0 /\ \A l \in Has(s, cp.offset) : CopiesIn(queued, l) <= races
        /\ opened = seen.inode => \A l \in Has(s, cp.offset) : CopiesIn(queued, l) < races
    BY <1>15 DEF CopyInv, RotatedCopies
  <2>3. CopiesIn(queued, x) <= races /\ (opened = seen.inode => CopiesIn(queued, x) < races)
    BY <1>1, <2>2
  <2>4. FewCopies'
    BY <1>10, <2>3
  <2>5. ReachCopies'
    <3> SUFFICES ASSUME NEW i \in Reach', NEW l \in Left(cp', i, data'[i])
                 PROVE  CopiesIn(queued', l) <= races
      BY <1>1 DEF ReachCopies
    <3>1. i \in Inodes /\ i \in Reach /\ i # cp.inode /\ i \in {path, seen.inode}
      BY <1>1, <2>1 DEF Reach
    <3>2. l \in Left(cp, i, data[i]) /\ l \in Has(data[i], 0)
      BY <1>8, <3>1
    <3>3. CASE l = x
      <4>1. opened = seen.inode
        BY <1>7, <2>1, <3>1, <3>2, <3>3
      <4> QED  BY <1>9, <2>3, <3>3, <4>1
    <3>4. CASE l # x
      BY <1>1, <3>1, <3>2, <3>4 DEF CopyInv, ReachCopies
    <3> QED  BY <3>3, <3>4
  <2>6. NewCopies'
    <3> SUFFICES ASSUME pc \in Racing, path # None, path # seen.inode, NEW l \in Has(data[path], 0)
                 PROVE  CopiesIn(queued', l) = 0
      BY <1>1 DEF NewCopies
    <3>1. path \in Inodes
      BY Types
    <3>2. l # x
      BY <1>7, <2>1, <3>1
    <3>3. CopiesIn(queued, l) = 0
      BY DEF CopyInv, NewCopies
    <3> QED  BY <1>1, <3>2, <3>3
  <2>7. /\ \A l \in Has(s, e) : CopiesIn(queued', l) <= races
        /\ opened = seen.inode => \A l \in Has(s, e) : CopiesIn(queued', l) < races
    BY <1>1, <1>5, <1>6, <2>2
  <2>8. RotatedCopies' /\ DrainCopies'
    BY <1>1, <1>15, <2>2, <2>7 DEF RotatedCopies, DrainCopies
  <2> QED  BY <1>11, <1>13, <1>15, <2>4, <2>5, <2>6, <2>8 DEF CopyInv
<1> QED  BY <1>2, <1>12, <1>14, <1>15

\* A file is emptied: what remains to be read was there before.
LEMMA EmptyCopies ==
    ASSUME TypeOK, PlaceInv, CopyInv, ~torn, ~torn', NEW e \in Inodes, Empties(e),
           UNCHANGED <<cp, queued, pc, seen, opened, races>>,
           path' \in {path, e, None},
           pc # "idle" => e # opened,
           pc \in Racing => path = None
    PROVE  CopyInv'
<1>1. \A i \in Inodes : data'[i] = data[i] \/ (Len(data'[i]) = 0 /\ data'[i] \in Seq(1..2 * MaxLines))
  BY DEF Empties
<1>2. Len(data'[e]) = 0 /\ data'[e] \in Seq(1..2 * MaxLines)
  BY DEF Empties
<1>3. \A i \in Inodes : \A n : Has(data'[i], n) \subseteq Has(data[i], n)
  BY <1>1, EmptyLeft
<1>4. FewCopies'
  BY DEF CopyInv, FewCopies
<1>5. ReachCopies'
  <2> SUFFICES ASSUME NEW i \in Reach', NEW l \in Left(cp, i, data'[i])
               PROVE  CopiesIn(queued, l) <= races
    BY DEF ReachCopies
  <2>1. i \in Inodes
    BY DEF Reach
  <2>2. data'[i] = data[i] /\ i # e
    BY <1>1, <1>2, <2>1, EmptyLeft
  <2>3. i \in Reach
    BY <2>1, <2>2 DEF Reach
  <2> QED  BY <2>2, <2>3 DEF CopyInv, ReachCopies
<1>6. OwnCopies'
  <2> SUFFICES ASSUME cp # None, (Passes \/ Astray)', NEW l \in Has(data'[cp.inode], cp.offset)
               PROVE  CopiesIn(queued, l) <= races
    BY DEF OwnCopies
  <2>1. cp.inode \in Inodes
    BY Types
  <2>2. data'[cp.inode] = data[cp.inode] /\ cp.inode # e
    BY <1>1, <1>2, <2>1, EmptyLeft
  <2>3. Astray' => Astray
    BY <2>1 DEF Astray, Racing
  <2>4. Passes' => Passes
    BY <2>2 DEF Passes
  <2> QED  BY <2>2, <2>3, <2>4 DEF CopyInv, OwnCopies
<1>7. NewCopies'
  <2> SUFFICES ASSUME pc \in Racing, path' # None, path' # seen.inode, NEW l \in Has(data'[path'], 0)
               PROVE  CopiesIn(queued, l) = 0
    BY DEF NewCopies
  <2>1. path' = e
    OBVIOUS
  <2> QED  BY <1>2, <2>1, EmptyLeft
<1>8. pc # "idle" => seen.inode \in Inodes
  BY DEF PlaceInv
<1>9. RacedCopies' /\ SeenCopies'
  <2>1. pc \in {"anchor", "find"} \cup ByName => path # seen.inode /\ seen.inode \in Inodes
    BY <1>8 DEF Racing, ByName
  <2> QED  BY <1>3, <2>1 DEF CopyInv, RacedCopies, SeenCopies
<1>10. pc \in {"drain", "drainRotated"} => opened \in Inodes /\ data'[opened] = data[opened]
  BY DEF Empties, PlaceInv
<1>11. DrainCopies' /\ RotatedCopies'
  BY <1>10 DEF CopyInv, DrainCopies, RotatedCopies
<1> QED  BY <1>4, <1>5, <1>6, <1>7, <1>9, <1>11 DEF CopyInv

\* A collection ends.
LEMMA IdleCopies ==
    ASSUME CopyInv, ~torn, pc' = "idle", UNCHANGED <<cp, queued, data, path, races>>
    PROVE  CopyInv'
<1>1. \A i \in Reach' : i \in Reach
  BY DEF Reach, Rotated
<1>2. FewCopies' /\ ReachCopies'
  BY <1>1 DEF CopyInv, FewCopies, ReachCopies
<1>3. OwnCopies'
  BY DEF CopyInv, OwnCopies, Passes, Astray
<1>4. NewCopies' /\ RacedCopies' /\ SeenCopies' /\ DrainCopies' /\ RotatedCopies'
  BY DEF NewCopies, RacedCopies, SeenCopies, DrainCopies, RotatedCopies, Racing, ByName
<1> QED  BY <1>2, <1>3, <1>4 DEF CopyInv

\* Every step keeps the copies within what the races allow.
LEMMA CopyStep ==
    ASSUME TypeOK, FileInv, PairInv, CheckpointInv, PlaceInv, MatchInv, CopyInv, Next
    PROVE  CopyInv'
<1> SUFFICES ASSUME ~torn' PROVE CopyInv'
  BY DEF CopyInv
<1>0. ~torn
  BY DEF Next, CollectorStep, LogStep, Interrupt, Collect, First, CheckAnchor,
     Find, CheckRotated, OpenRotated, OpenPath, Open, ReadLine, EndOfFile, Move, WriteLine, WriteHead,
     WriteTail, Reopen, Rotate, Truncate, RemoveArchive, Create
<1>1. CASE WriteLine \/ WriteHead \/ WriteTail
  <2>1. Grows
    BY <1>1, WriteGrows
  <2>2. UNCHANGED <<cp, queued, pc, seen, opened, path, races>>
    BY <1>1 DEF WriteLine, WriteHead, WriteTail, collector
  <2>3. CopiesIn(queued, written') = 0
    <3>1. ASSUME NEW k \in 1..Len(queued) PROVE queued[k] # written'
      <4>1. 2 * queued[k] <= Top /\ Top \in Int /\ queued[k] \in 1..MaxLines
        BY Types DEF CheckpointInv
      <4>2. 2 * written' > Top /\ written' \in 1..MaxLines
        BY <2>1 DEF Grows
      <4>3. PICK a \in 1..MaxLines : a = queued[k]
        BY <4>1
      <4>4. PICK b \in 1..MaxLines : b = written'
        BY <4>2
      <4>5. PICK t \in Int : t = Top
        BY <4>1
      <4>6. 2 * a <= t
        BY <4>1, <4>3, <4>5
      <4>7. 2 * b > t
        BY <4>2, <4>4, <4>5
      <4>8. a # b
        BY <4>6, <4>7
      <4> QED  BY <4>3, <4>4, <4>8
    <3>2. queued \in Seq(1..MaxLines)
      BY DEF TypeOK
    <3> QED  BY <3>1, <3>2, NoCopies
  <2>4. races \in Nat /\ \A l : CopiesIn(queued, l) \in Nat
    BY Types, CopiesType DEF TypeOK
  <2>5. FewCopies' /\ RacedCopies'
    BY <1>0, <2>2 DEF CopyInv, FewCopies, RacedCopies
  <2>6. ReachCopies'
    <3> SUFFICES ASSUME NEW i \in Reach', NEW l \in Left(cp, i, data'[i])
                 PROVE  CopiesIn(queued, l) <= races
      BY <2>2 DEF ReachCopies
    <3>1. i \in Inodes /\ i \in Reach
      BY <2>2 DEF Reach
    <3>2. l \in Left(cp, i, data[i]) \cup {written'}
      BY <2>1, <3>1, GrowLeft
    <3>3. CASE l = written'
      BY <2>3, <2>4, <3>3
    <3>4. CASE l \in Left(cp, i, data[i])
      BY <1>0, <3>1, <3>4 DEF CopyInv, ReachCopies
    <3> QED  BY <3>2, <3>3, <3>4
  <2>7. OwnCopies'
    <3> SUFFICES ASSUME cp # None, (Passes \/ Astray)', NEW l \in Has(data'[cp.inode], cp.offset)
                 PROVE  CopiesIn(queued, l) <= races
      BY <2>2 DEF OwnCopies
    <3>1. cp.inode \in Inodes /\ cp.offset \in Nat
      BY Types
    <3>2. l \in Has(data[cp.inode], cp.offset) \cup {written'}
      BY <2>1, <3>1, GrowLeft
    <3>3. CASE l = written'
      BY <2>3, <2>4, <3>3
    <3>4. CASE l \in Has(data[cp.inode], cp.offset)
      <4>1. Astray' => Astray
        BY <2>2 DEF Astray
      <4>2. Passes' => Passes
        <5>1. Passes' => Alike(cp, data'[cp.inode])
          BY <2>2 DEF Passes
        <5> QED  BY <2>1, <3>1, <3>4, <5>1, GrowPasses DEF Passes
      <4> QED  BY <1>0, <3>4, <4>1, <4>2 DEF CopyInv, OwnCopies
    <3> QED  BY <3>2, <3>3, <3>4
  <2>8. NewCopies'
    <3> SUFFICES ASSUME pc \in Racing, path # None, path # seen.inode, NEW l \in Has(data'[path], 0)
                 PROVE  CopiesIn(queued, l) = 0
      BY <2>2 DEF NewCopies
    <3>1. path \in Inodes
      BY Types
    <3>2. l \in Has(data[path], 0) \cup {written'}
      BY <2>1, <3>1, GrowLeft
    <3> QED  BY <1>0, <2>3, <3>2 DEF CopyInv, NewCopies
  <2>9. SeenCopies'
    <3> SUFFICES ASSUME pc \in {"find"} \cup ByName, path # seen.inode,
                        NEW l \in Has(data'[seen.inode], 0)
                 PROVE  CopiesIn(queued, l) < races
      BY <2>2 DEF SeenCopies
    <3>1. seen.inode \in Inodes /\ races > 0
      BY DEF PlaceInv, Racing, ByName
    <3>2. l \in Has(data[seen.inode], 0) \cup {written'}
      BY <2>1, <3>1, GrowLeft
    <3> QED  BY <1>0, <2>3, <3>1, <3>2 DEF CopyInv, SeenCopies
  <2>10. ASSUME pc \in {"drain", "drainRotated"}
         PROVE  /\ Has(data'[opened], 0) \subseteq Has(data[opened], 0) \cup {written'}
                /\ Has(data'[opened], cp.offset) \subseteq Has(data[opened], cp.offset) \cup {written'}
    <3>1. opened \in Inodes /\ cp.offset \in Nat
      BY <2>10, Types DEF PlaceInv
    <3> QED  BY <2>1, <3>1, GrowLeft
  <2>11. DrainCopies'
    <3> SUFFICES ASSUME pc = "drain", opened # cp.inode
                 PROVE  /\ races > 0
                        /\ \A l \in Has(data'[opened], 0) : CopiesIn(queued, l) <= 1
                        /\ \A l \in Has(data'[opened], cp.offset) : CopiesIn(queued, l) = 0
      BY <2>2 DEF DrainCopies
    <3>1. /\ races > 0
          /\ \A l \in Has(data[opened], 0) : CopiesIn(queued, l) <= 1
          /\ \A l \in Has(data[opened], cp.offset) : CopiesIn(queued, l) = 0
      BY <1>0 DEF CopyInv, DrainCopies
    <3> QED  BY <2>3, <2>10, <3>1
  <2>12. RotatedCopies'
    <3> SUFFICES ASSUME pc = "drainRotated", opened # cp.inode
                 PROVE  /\ races > 0
                        /\ \A l \in Has(data'[opened], cp.offset) : CopiesIn(queued, l) <= races
                        /\ opened = seen.inode =>
                             \A l \in Has(data'[opened], cp.offset) : CopiesIn(queued, l) < races
      BY <2>2 DEF RotatedCopies
    <3>1. /\ races > 0
          /\ \A l \in Has(data[opened], cp.offset) : CopiesIn(queued, l) <= races
          /\ opened = seen.inode => \A l \in Has(data[opened], cp.offset) : CopiesIn(queued, l) < races
      BY <1>0 DEF CopyInv, RotatedCopies
    <3>2. CopiesIn(queued, written') <= races /\ CopiesIn(queued, written') < races
      BY <2>3, <2>4, <3>1
    <3> QED  BY <2>10, <3>1, <3>2
  <2> QED  BY <2>5, <2>6, <2>7, <2>8, <2>9, <2>11, <2>12 DEF CopyInv
<1>2. CASE RemoveArchive
  <2>1. UNCHANGED <<cp, queued, pc, seen, opened, path, races, data, torn>>
    BY <1>2 DEF RemoveArchive, collector
  <2> QED
    BY <2>1 DEF CopyInv, FewCopies, ReachCopies, OwnCopies, NewCopies, RacedCopies, SeenCopies,
       DrainCopies, RotatedCopies, Reach, Passes, Astray
<1>3. CASE Reopen
  <2>1. UNCHANGED <<cp, queued, pc, seen, opened, races>>
    BY <1>3 DEF Reopen, collector
  <2>2. CASE path # None
    <3>1. UNCHANGED <<data, path, torn>>
      BY <1>3, <2>2 DEF Reopen
    <3> QED
      BY <2>1, <3>1 DEF CopyInv, FewCopies, ReachCopies, OwnCopies, NewCopies, RacedCopies, SeenCopies,
         DrainCopies, RotatedCopies, Reach, Passes, Astray
  <2>3. CASE path = None
    <3>1. PICK i \in Fresh : Create(i, {}) /\ path' = i
      BY <1>3, <2>3 DEF Reopen
    <3>2. i \in Inodes /\ i # opened /\ i # path
      BY FreshIsFree
    <3>3. Empties(i)
      BY <3>1, <3>2, EmptyFile DEF Create
    <3> QED  BY <1>0, <2>1, <2>3, <3>1, <3>2, <3>3, EmptyCopies
  <2> QED  BY <2>2, <2>3
<1>4. CASE Rotate
  <2>1. UNCHANGED <<cp, queued, pc, seen, opened>>
    BY <1>4 DEF Rotate, collector
  <2>2. /\ races \in Nat /\ races' = IF pc \in Racing THEN races + 1 ELSE races
    BY <1>4, Types DEF Rotate, Racing, Labels, TypeOK
  <2>3. \A l : CopiesIn(queued, l) \in Nat
    BY CopiesType DEF TypeOK
  <2>4. \A l \in 1..MaxLines : CopiesIn(queued, l) <= races + 1
    BY <1>0 DEF CopyInv, FewCopies
  <2>5. \/ path' = None /\ UNCHANGED data
        \/ \E i \in Fresh : \E taken : path' = i /\ Create(i, taken)
    BY <1>4 DEF Rotate
  <2>6. CASE pc \in Racing
    <3>1. races' = races + 1
      BY <2>2, <2>6
    <3>2. \A l \in 1..MaxLines : CopiesIn(queued, l) <= races' /\ CopiesIn(queued, l) <= races' + 1
      BY <2>2, <2>3, <2>4, <3>1
    <3>3. \A c, i, s : Left(c, i, s) \subseteq 1..MaxLines
      BY DEF Left, Has
    <3>4. path' # None => Has(data'[path'], 0) = {}
      <4> SUFFICES ASSUME path' # None PROVE Has(data'[path'], 0) = {}
        OBVIOUS
      <4>0. PICK i \in Fresh : \E taken : path' = i /\ Create(i, taken)
        BY <2>5
      <4>1. PICK taken : path' = i /\ Create(i, taken)
        BY <4>0
      <4>2. i \in Inodes
        BY FreshIsFree
      <4>3. Empties(i)
        BY <4>1, <4>2, EmptyFile DEF Create
      <4>4. Len(data'[i]) = 0 /\ data'[i] \in Seq(1..2 * MaxLines)
        BY <4>2, <4>3 DEF Empties
      <4> QED  BY <4>1, <4>4, EmptyLeft
    <3>5. FewCopies' /\ ReachCopies' /\ OwnCopies' /\ RacedCopies'
      <4>1. \A s, n : Has(s, n) \subseteq 1..MaxLines
        BY DEF Has
      <4> QED  BY <2>1, <3>2, <3>3, <4>1 DEF FewCopies, ReachCopies, OwnCopies, RacedCopies
    <3>6. NewCopies'
      BY <3>4 DEF NewCopies
    <3>7. ASSUME NEW i \in Inodes, NEW n PROVE Has(data'[i], n) \subseteq Has(data[i], n)
      <4>1. data' = data \/ \E j \in Inodes : Empties(j)
        BY <1>4, LogEffect
      <4>2. data'[i] = data[i] \/ (Len(data'[i]) = 0 /\ data'[i] \in Seq(1..2 * MaxLines))
        BY <4>1 DEF Empties
      <4> QED  BY <4>2, EmptyLeft
    <3>8. SeenCopies'
      <4> SUFFICES ASSUME pc \in {"find"} \cup ByName, NEW l \in Has(data'[seen.inode], 0)
                   PROVE  CopiesIn(queued, l) < races + 1
        BY <2>1, <3>1 DEF SeenCopies
      <4>1. seen.inode \in Inodes /\ seen.inode # cp.inode /\ seen.inode \in Reach
        BY DEF PlaceInv, Rotated, Reach, ByName
      <4>2. l \in Left(cp, seen.inode, data[seen.inode])
        BY <3>7, <4>1, LeftIn
      <4>3. CopiesIn(queued, l) <= races
        BY <1>0, <4>1, <4>2 DEF CopyInv, ReachCopies
      <4> QED  BY <2>2, <2>3, <4>3
    <3>9. DrainCopies' /\ RotatedCopies'
      <4>1. pc # "drain"
        BY <2>6 DEF Racing
      <4> SUFFICES ASSUME pc = "drainRotated", opened # cp.inode
                   PROVE  /\ races + 1 > 0
                          /\ \A l \in Has(data'[opened], cp.offset) :
                                CopiesIn(queued, l) <= races + 1 /\ CopiesIn(queued, l) < races + 1
        BY <2>1, <3>1, <4>1 DEF DrainCopies, RotatedCopies
      <4>2. opened \in Inodes
        BY DEF PlaceInv
      <4>3. \A l \in Has(data[opened], cp.offset) : CopiesIn(queued, l) <= races
        BY <1>0 DEF CopyInv, RotatedCopies
      <4>4. \A l \in Has(data'[opened], cp.offset) : CopiesIn(queued, l) <= races
        BY <3>7, <4>2, <4>3
      <4> QED  BY <2>2, <2>3, <4>4
    <3> QED  BY <3>5, <3>6, <3>8, <3>9 DEF CopyInv
  <2>7. CASE pc \notin Racing
    <3>1. races' = races /\ pc \in {"idle", "drain"}
      BY <2>2, <2>7 DEF Racing, TypeOK, Labels
    <3>2. CASE path' = None /\ UNCHANGED data
      <4>1. \A i \in Reach' : i \in Reach
        BY <2>1, <3>1, <3>2 DEF Reach, Rotated
      <4>2. FewCopies' /\ ReachCopies' /\ DrainCopies'
        BY <1>0, <2>1, <3>1, <3>2, <4>1 DEF CopyInv, FewCopies, ReachCopies, DrainCopies
      <4>3. OwnCopies'
        BY <1>0, <2>1, <3>1, <3>2 DEF CopyInv, OwnCopies, Passes, Astray
      <4>4. NewCopies' /\ RacedCopies' /\ SeenCopies' /\ RotatedCopies'
        BY <2>1, <3>1 DEF NewCopies, RacedCopies, SeenCopies, RotatedCopies, Racing, ByName
      <4> QED  BY <4>2, <4>3, <4>4 DEF CopyInv
    <3>3. CASE \E i \in Fresh : \E taken : path' = i /\ Create(i, taken)
      <4>0. PICK i \in Fresh : \E taken : path' = i /\ Create(i, taken)
        BY <3>3
      <4>1. PICK taken : path' = i /\ Create(i, taken)
        BY <4>0
      <4>2. i \in Inodes /\ i # opened /\ i # path
        BY FreshIsFree
      <4>3. Empties(i)
        BY <4>1, <4>2, EmptyFile DEF Create
      <4> QED  BY <1>0, <2>1, <2>7, <3>1, <4>1, <4>2, <4>3, EmptyCopies
    <3> QED  BY <2>5, <3>2, <3>3
  <2> QED  BY <2>6, <2>7
<1>5. CASE Truncate
  <2>1. /\ UNCHANGED <<cp, queued, pc, seen, opened, races, path>> /\ pc = "idle"
        /\ path \in Inodes /\ data' = [data EXCEPT ![path] = <<>>]
    BY <1>5, Types DEF Truncate, collector
  <2>2. Empties(path)
    BY <2>1, EmptyFile
  <2>3. pc \notin Racing
    BY <2>1 DEF Racing
  <2> QED  BY <1>0, <2>1, <2>2, <2>3, EmptyCopies
<1>6. CASE Collect
  <2>1. /\ seen'.inode = path /\ UNCHANGED <<cp, queued, data, path, races, torn>>
        /\ path # None /\ path \in Inodes
    BY <1>6, Types DEF Collect, log
  <2>2. pc' \in {"first", "anchor", "find"}
    BY <1>6 DEF Collect
  <2>3. FewCopies' /\ ReachCopies' /\ OwnCopies'
    BY <1>0, <2>1, <2>2 DEF CopyInv, FewCopies, ReachCopies, OwnCopies, Reach, Passes, Astray
  <2>4. NewCopies' /\ RacedCopies' /\ SeenCopies' /\ DrainCopies' /\ RotatedCopies'
    BY <2>1, <2>2 DEF NewCopies, RacedCopies, SeenCopies, DrainCopies, RotatedCopies
  <2> QED  BY <2>3, <2>4 DEF CopyInv
<1>7. CASE First
  <2>1. queued' = <<>> /\ pc' = "idle" /\ races' = races /\ races \in Nat
    BY <1>7, Types DEF First, PlaceInv, CheckpointInv, Return
  <2>2. \A l : CopiesIn(queued', l) = 0
    <3>1. ASSUME NEW l PROVE CopiesIn(<<>>, l) = 0
      <4>1. {k \in DOMAIN <<>> : <<>>[k] = l} = {}
        OBVIOUS
      <4> QED  BY <4>1, FS_EmptySet DEF CopiesIn
    <3> QED  BY <2>1, <3>1
  <2>3. NewCopies' /\ RacedCopies' /\ SeenCopies' /\ DrainCopies' /\ RotatedCopies'
    BY <2>1 DEF NewCopies, RacedCopies, SeenCopies, DrainCopies, RotatedCopies, Racing, ByName
  <2>4. FewCopies' /\ ReachCopies' /\ OwnCopies'
    BY <2>1, <2>2 DEF FewCopies, ReachCopies, OwnCopies
  <2> QED  BY <2>3, <2>4 DEF CopyInv
<1>8. CASE CheckAnchor
  <2>1. pc = "anchor" /\ UNCHANGED <<queued, data, path, races>>
    BY <1>8 DEF CheckAnchor, log
  <2>2. cp # None /\ cp \in Checkpoints /\ cp.inode = seen.inode /\ seen.inode \in Inodes
    BY <2>1, Types DEF PlaceInv
  <2>3. CASE Return
    <3>1. cp' = cp /\ pc' = "idle"
      BY <1>8, <2>3 DEF CheckAnchor, Return
    <3> QED  BY <1>0, <2>1, <3>1, IdleCopies
  <2>4. CASE ~Return
    <3>1. /\ pc' = "open" /\ seen' = seen
          /\ \/ cp' = cp
             \/ /\ cp' = [cp EXCEPT !.offset = 0, !.anchor = None]
                /\ seen.size < cp.offset \/ ~(cp.anchor = None \/ AnchorMatches(data[path]))
      BY <1>8, <2>4 DEF CheckAnchor
    <3>2. NewCopies' /\ RacedCopies' /\ SeenCopies' /\ DrainCopies' /\ RotatedCopies' /\ FewCopies'
      BY <1>0, <2>1, <3>1 DEF CopyInv, FewCopies, NewCopies, RacedCopies, SeenCopies, DrainCopies,
         RotatedCopies, Racing, ByName
    <3>3. Reach' = {i \in Inodes : i = path}
      BY <2>1, <3>1 DEF Reach, Rotated
    <3>4. path # seen.inode => \A l \in 1..MaxLines : CopiesIn(queued, l) <= races
      BY <1>0, <2>1 DEF CopyInv, RacedCopies
    <3>5. ReachCopies
      BY <1>0 DEF CopyInv
    <3>6. \A s, n : Has(s, n) \subseteq 1..MaxLines
      BY DEF Has
    <3>7. CASE cp' = cp
      <4>1. ReachCopies'
        BY <2>1, <3>3, <3>5, <3>7 DEF ReachCopies, Reach
      <4>2. CASE path # seen.inode
        BY <2>1, <3>2, <3>4, <3>6, <3>7, <4>1, <4>2 DEF CopyInv, OwnCopies
      <4>3. CASE path = seen.inode
        <5>1. ~Astray'
          BY <2>1, <2>2, <3>1, <3>7, <4>3 DEF Astray
        <5>2. OwnCopies'
          BY <1>0, <2>1, <3>7, <5>1 DEF CopyInv, OwnCopies, Passes
        <5> QED  BY <3>2, <4>1, <5>2 DEF CopyInv
      <4> QED  BY <4>2, <4>3
    <3>8. CASE cp' # cp
      <4>1. cp'.inode = cp.inode /\ cp'.offset = 0 /\ cp' # None
        BY <2>2, <3>1, <3>8, Reset
      <4>2. path = cp.inode => ~Matches
        BY <2>1, <2>2, <3>1, <3>8 DEF PlaceInv, Matches, AnchorMatches, Fits
      <4>3. ASSUME path = cp.inode PROVE \A l \in Has(data[path], 0) : CopiesIn(queued, l) <= races
        <5>1. Left(cp, path, data[path]) = Has(data[path], 0) /\ path \in Reach
          BY <2>2, <4>2, <4>3 DEF Left, From, Matches, Reach
        <5> QED  BY <3>5, <5>1 DEF ReachCopies
      <4>4. ReachCopies'
        <5> SUFFICES ASSUME NEW i \in Inodes, i = path, NEW l \in Left(cp', i, data[i])
                     PROVE  CopiesIn(queued, l) <= races
          BY <2>1, <3>3 DEF ReachCopies
        <5>1. l \in Has(data[path], 0) /\ l \in 1..MaxLines
          BY <3>6, <4>1 DEF Left, From
        <5> QED  BY <2>2, <3>4, <4>3, <5>1
      <4>5. OwnCopies'
        <5> SUFFICES ASSUME NEW l \in Has(data[cp.inode], 0) PROVE CopiesIn(queued, l) <= races
          BY <2>1, <4>1 DEF OwnCopies
        <5>1. l \in 1..MaxLines
          BY <3>6
        <5> QED  BY <2>2, <3>4, <4>3, <5>1
      <4> QED  BY <3>2, <4>4, <4>5 DEF CopyInv
    <3> QED  BY <3>7, <3>8
  <2> QED  BY <2>3, <2>4
<1>9. CASE pc' = "idle" /\ (Interrupt \/ CheckRotated \/ OpenRotated \/ OpenPath \/ EndOfFile)
  <2>1. UNCHANGED <<cp, queued, data, path, races>>
    BY <1>9 DEF Interrupt, CheckRotated, OpenRotated, OpenPath, Open, EndOfFile, log
  <2> QED  BY <1>0, <1>9, <2>1, IdleCopies
<1>10. CASE Interrupt
  <2>1. pc' = "idle"
    BY <1>10 DEF Interrupt, Return
  <2> QED  BY <1>9, <1>10, <2>1
<1>11. CASE pc' # "idle" /\ (Find \/ CheckRotated \/ EndOfFile)
  <2>1. UNCHANGED <<cp, queued, data, path, races, seen>>
    BY <1>11 DEF Find, CheckRotated, EndOfFile, Return, log
  <2>2. /\ pc \in Rotated /\ pc' \in {"anchorRotated", "openRotated", "gap", "move"}
        /\ pc' \in ByName => pc \in {"find"} \cup ByName
    BY <1>11 DEF Find, CheckRotated, EndOfFile, Drained, Return, Rotated, ByName
  <2>3. FewCopies' /\ ReachCopies' /\ OwnCopies'
    BY <1>0, <2>1, <2>2 DEF CopyInv, FewCopies, ReachCopies, OwnCopies, Reach, Passes, Astray, Rotated
  <2>4. NewCopies'
    BY <1>0, <2>1, <2>2 DEF CopyInv, NewCopies, Racing, Rotated
  <2>5. RacedCopies' /\ SeenCopies'
    BY <1>0, <2>1, <2>2 DEF CopyInv, RacedCopies, SeenCopies, ByName
  <2>6. DrainCopies' /\ RotatedCopies'
    BY <2>2 DEF DrainCopies, RotatedCopies
  <2> QED  BY <2>3, <2>4, <2>5, <2>6 DEF CopyInv
<1>12. CASE pc' # "idle" /\ OpenRotated
  <2>1. /\ pc = "openRotated" /\ pc' = "drainRotated" /\ opened' = rotated /\ rotated # None
        /\ UNCHANGED <<cp, queued, data, path, races, seen>>
    BY <1>12 DEF OpenRotated, Open, Return, log
  <2>2. cp # None /\ cp.offset \in Nat /\ rotated \in Inodes
    <3>1. rotated \in Files
      BY DEF TypeOK
    <3> QED  BY <2>1, <3>1, Types DEF PlaceInv, Files
  <2>3. FewCopies' /\ ReachCopies' /\ NewCopies'
    BY <1>0, <2>1 DEF CopyInv, FewCopies, ReachCopies, NewCopies, Reach, Rotated, Racing
  <2>4. RacedCopies' /\ SeenCopies' /\ DrainCopies'
    BY <2>1 DEF RacedCopies, SeenCopies, DrainCopies, ByName
  <2>5. CASE rotated = cp.inode
    <3>1. OwnCopies'
      BY <1>0, <2>1, <2>5 DEF CopyInv, OwnCopies, Passes, Astray
    <3>2. RotatedCopies'
      BY <2>1, <2>5 DEF RotatedCopies
    <3> QED  BY <2>3, <2>4, <3>1, <3>2 DEF CopyInv
  <2>6. CASE rotated # cp.inode
    <3>1. path # seen.inode /\ races > 0
      BY <1>0, <2>1, <2>6 DEF MatchInv, PlaceInv, ByName, Racing
    <3>2. /\ \A l \in 1..MaxLines : CopiesIn(queued, l) <= races
          /\ \A l \in Has(data[seen.inode], 0) : CopiesIn(queued, l) < races
      BY <1>0, <2>1, <3>1 DEF CopyInv, RacedCopies, SeenCopies, ByName
    <3>3. \A s, n : Has(s, n) \subseteq 1..MaxLines
      BY DEF Has
    <3>4. OwnCopies'
      BY <2>1, <3>2, <3>3 DEF OwnCopies
    <3>5. Has(data[rotated], cp.offset) \subseteq Has(data[rotated], 0)
      <4>1. data[rotated] \in Seq(1..2 * MaxLines) /\ 0 \in Nat /\ 0 <= cp.offset
        BY <2>2, Types
      <4> QED  BY <2>2, <4>1, HasLess
    <3>6. RotatedCopies'
      BY <2>1, <3>1, <3>2, <3>3, <3>5 DEF RotatedCopies
    <3> QED  BY <2>3, <2>4, <3>4, <3>6 DEF CopyInv
  <2> QED  BY <2>5, <2>6
<1>13. CASE pc' # "idle" /\ OpenPath
  <2>1. /\ pc = "open" /\ pc' = "drain" /\ UNCHANGED <<cp, queued, data, path, races>>
        /\ opened' = path /\ path # None
    BY <1>13 DEF OpenPath, Open, Return, log
  <2>2. FewCopies' /\ ReachCopies' /\ OwnCopies'
    BY <1>0, <2>1 DEF CopyInv, FewCopies, ReachCopies, OwnCopies, Reach, Passes, Astray, Rotated
  <2>3. NewCopies' /\ RacedCopies' /\ SeenCopies' /\ RotatedCopies'
    BY <2>1 DEF NewCopies, RacedCopies, SeenCopies, RotatedCopies, Racing, ByName
  <2>4. DrainCopies'
    <3> SUFFICES ASSUME path # cp.inode
                 PROVE  /\ races > 0
                        /\ \A l \in Has(data[path], 0) : CopiesIn(queued, l) <= 1
                        /\ \A l \in Has(data[path], cp.offset) : CopiesIn(queued, l) = 0
      BY <2>1 DEF DrainCopies
    <3>1. /\ races > 0
          /\ \A l \in Has(data[path], 0) : CopiesIn(queued, l) = 0
      BY <1>0, <2>1 DEF CopyInv, NewCopies, PlaceInv, Racing
    <3>2. cp.offset \in Nat /\ data[path] \in Seq(1..2 * MaxLines)
      BY <2>1, Types DEF PlaceInv
    <3>3. Has(data[path], cp.offset) \subseteq Has(data[path], 0)
      BY <3>2, HasLess
    <3> QED  BY <3>1, <3>3
  <2> QED  BY <2>2, <2>3, <2>4 DEF CopyInv
<1>14. CASE ReadLine
  BY <1>0, <1>14, ReadCopies DEF Next
<1>15. CASE Move
  <2>1. /\ pc \in {"move", "gap"} /\ cp' = CheckpointAt(seen.inode, <<>>, 0) /\ pc' = "open"
        /\ UNCHANGED <<queued, data, path, races, seen>>
    BY <1>15 DEF Move, log
  <2>2. cp'.inode = seen.inode /\ cp'.offset = 0
    BY <2>1 DEF CheckpointAt
  <2>3. cp # None /\ cp.inode # seen.inode /\ seen.inode \in Inodes /\ path # cp.inode
    BY <1>0, <2>1 DEF PlaceInv, MatchInv, Rotated
  <2>4. ASSUME NEW i \in {path, seen.inode}, i # None, NEW l \in Has(data[i], 0)
        PROVE  CopiesIn(queued, l) <= races
    <3>1. i \in Inodes /\ i # cp.inode /\ i \in Reach
      BY <2>1, <2>3, <2>4, Types DEF Reach, Rotated
    <3>2. Left(cp, i, data[i]) = Has(data[i], 0)
      BY <3>1, LeftIn
    <3> QED  BY <1>0, <2>4, <3>1, <3>2 DEF CopyInv, ReachCopies
  <2>5. ReachCopies'
    <3> SUFFICES ASSUME NEW i \in Inodes, i = path, NEW l \in Left(cp', i, data[i])
                 PROVE  CopiesIn(queued, l) <= races
      BY <2>1 DEF ReachCopies, Reach, Rotated
    <3>1. l \in Has(data[i], 0)
      BY <2>2 DEF Left, From
    <3> QED  BY <2>4, <3>1
  <2>6. OwnCopies'
    BY <2>1, <2>2, <2>3, <2>4 DEF OwnCopies
  <2>7. FewCopies' /\ NewCopies' /\ RacedCopies' /\ SeenCopies' /\ DrainCopies' /\ RotatedCopies'
    BY <1>0, <2>1 DEF CopyInv, FewCopies, NewCopies, RacedCopies, SeenCopies, DrainCopies,
       RotatedCopies, Racing, ByName
  <2> QED  BY <2>5, <2>6, <2>7 DEF CopyInv
<1>16. Find => pc' # "idle"
  BY DEF Find
<1> QED
  BY <1>1, <1>2, <1>3, <1>4, <1>5, <1>6, <1>7, <1>8, <1>9, <1>10, <1>11, <1>12, <1>13, <1>14,
     <1>15, <1>16 DEF Next, CollectorStep, LogStep
-----------------------------------------------------------------------------
(* Losses *)

\* What Ahead is, when there is a checkpoint.
LEMMA AheadIs ==
    ASSUME TypeOK, NEW i
    PROVE  /\ i \in Ahead => i \in Inodes
           /\ i \in Ahead <=> \/ i = path /\ path # None
                              \/ cp # None /\ i = cp.inode /\ pc # "move"
<1>1. path # None => path \in Inodes
  BY Types
<1>2. cp # None => cp.inode \in Inodes /\ cp.inode # None
  BY Types
<1> QED  BY <1>1, <1>2 DEF Ahead, Inode

\* What is left of the checkpoint's file comes after the offset, or is mistaken.
LEMMA PassesLeft ==
    ASSUME TypeOK, NoteInv, cp # None, Passes
    PROVE  Left(cp, cp.inode, data[cp.inode]) \subseteq Has(data[cp.inode], cp.offset) \cup mistaken
<1>1. cp.inode \in Inodes /\ cp.offset \in Nat /\ data[cp.inode] \in Seq(1..2 * MaxLines)
  BY Types
<1>2. AnchorMatches(data[cp.inode]) /\ cp.inode = Inode
  BY DEF AnchorMatches, Passes, Alike, Inode
<1>3. Unread(cp.inode) = LinesIn(After(data[cp.inode], cp.offset))
  BY <1>2 DEF Unread
<1>4. Unread(cp.inode) = Has(data[cp.inode], cp.offset)
  BY <1>1, <1>3, LinesAfter
<1> QED  BY <1>1, <1>4, LeftIsUnread

\* Xray writes: the new line is ahead of the collector or forgone.
LEMMA WriteLoss ==
    ASSUME TypeOK, TypeOK', FileInv, PairInv, CheckpointInv, PlaceInv, MatchInv, LossInv, ~torn,
           WriteLine \/ WriteHead \/ WriteTail, mistaken \subseteq mistaken'
    PROVE  LossInv'
<1>1. Grows
  BY WriteGrows
<1>2. /\ UNCHANGED <<cp, queued, pc, seen, opened, path, cut>> /\ forgone \subseteq forgone'
      /\ fd \in Inodes
  BY Types DEF WriteLine, WriteHead, WriteTail, collector, Begin
<1>3. \A i : i \in Ahead' <=> i \in Ahead
  BY <1>2 DEF Ahead, Inode
<1>4. /\ written' = written \/ written' = written + 1
      /\ written' = written + 1 => fd \in Ahead \/ written' \in forgone'
      /\ written \in Nat /\ written' \in 1..MaxLines
  <2>1. written \in Nat /\ written' \in 1..MaxLines
    BY <1>1, Types DEF Grows
  <2>2. CASE WriteLine \/ WriteHead
    <3>1. written' = written + 1 /\ forgone' = forgone \cup (IF fd \in Ahead THEN {} ELSE {written'})
      BY <2>2 DEF WriteLine, WriteHead, Begin
    <3> QED  BY <2>1, <3>1
  <2>3. CASE WriteTail
    <3>1. written' = written /\ written # written + 1
      BY <2>1, <2>3 DEF WriteTail
    <3> QED  BY <2>1, <3>1
  <2> QED  BY <2>2, <2>3
<1>5. \A l \in 1..written' : l \in 1..written \/ (l = written' /\ written' = written + 1)
  BY <1>4
<1>6. /\ data[fd] \in Seq(1..2 * MaxLines) /\ data'[fd] \in Seq(1..2 * MaxLines) /\ Top \in Int
      /\ Len(data[fd]) \in Nat /\ Extends(data[fd], data'[fd], Top, written')
  BY <1>1, <1>2, Types DEF Grows
<1>7. \A i \in Inodes : /\ Left(cp, i, data[i]) \subseteq Left(cp, i, data'[i])
                        /\ \A n \in Nat : Has(data[i], n) \subseteq Has(data'[i], n)
  BY <1>1, GrowLeft
<1>8. \A n \in Nat : n <= Len(data[fd]) => written' \in Has(data'[fd], n)
  BY <1>4, <1>6, GrowHas
<1>9. ASSUME cp # None, NEW l \in 1..written' \ cut'
      PROVE  Settled(l)' \/ \E i \in Ahead' : l \in Left(cp', i, data'[i])
  <2>1. CASE l \in 1..written
    <3>1. Settled(l) \/ \E i \in Ahead : l \in Left(cp, i, data[i])
      BY <1>2, <1>9, <2>1 DEF LossInv
    <3>2. CASE Settled(l)
      BY <1>2, <3>2 DEF Settled
    <3>3. CASE \E i \in Ahead : l \in Left(cp, i, data[i])
      BY <1>2, <1>3, <1>7, <3>3, AheadIs
    <3> QED  BY <3>1, <3>2, <3>3
  <2>2. CASE l = written' /\ fd \in Ahead
    <3>1. From(cp, fd, data[fd]) \in Nat /\ From(cp, fd, data[fd]) <= Len(data[fd])
      <4>1. cp.offset \in Nat /\ (cp.anchor = None => cp.offset = 0)
        BY <1>9, Types DEF CheckpointInv, Proper
      <4> QED  BY <1>6, <4>1 DEF From, Fits
    <3>2. From(cp, fd, data'[fd]) = From(cp, fd, data[fd])
      BY <1>1, <1>2, GrowLeft
    <3>3. l \in Left(cp, fd, data'[fd])
      BY <1>8, <2>2, <3>1, <3>2 DEF Left
    <3> QED  BY <1>2, <1>3, <2>2, <3>3
  <2>3. CASE l = written' /\ l \in forgone'
    BY <2>3 DEF Settled
  <2> QED  BY <1>4, <1>5, <1>9, <2>1, <2>2, <2>3
<1>10. ASSUME pc = "first", NEW l \in 1..written' \ cut' PROVE FirstOwed(l)'
  <2>1. cp = None /\ seen.inode \in Inodes /\ seen.size \in Nat
    BY <1>10 DEF PlaceInv, TypeOK
  <2>2. CASE l \in 1..written
    <3>1. FirstOwed(l)
      BY <1>2, <1>10, <2>2 DEF LossInv, FirstOwed
    <3>2. path # None => path \in Inodes
      BY Types
    <3>3. path # None => /\ Has(data[path], 0) \subseteq Has(data'[path], 0)
                         /\ Has(data[path], seen.size) \subseteq Has(data'[path], seen.size)
      BY <1>7, <2>1, <3>2
    <3> QED  BY <1>2, <3>1, <3>3 DEF FirstOwed
  <2>3. CASE l = written' /\ fd \in Ahead
    <3>1. fd = path /\ path # None
      BY <2>1, <2>3, AheadIs
    <3>2. CASE path = seen.inode
      <4>1. seen.size <= Len(data[path])
        BY <1>10, <3>2 DEF MatchInv
      <4> QED  BY <1>2, <1>8, <2>1, <2>3, <3>1, <3>2, <4>1 DEF FirstOwed
    <3>3. CASE path # seen.inode
      <4>1. 0 <= Len(data[path])
        BY <1>6, <3>1
      <4> QED  BY <1>2, <1>8, <2>3, <3>1, <3>3, <4>1 DEF FirstOwed
    <3> QED  BY <3>2, <3>3
  <2>4. CASE l = written' /\ l \in forgone'
    BY <2>4 DEF FirstOwed
  <2> QED  BY <1>4, <1>5, <2>2, <2>3, <2>4
<1> QED  BY <1>2, <1>9, <1>10 DEF LossInv, FirstOwed

\* A step of the log that takes a file away, or its name, forgoes what was
\* unread there.
LEMMA TakeLoss ==
    ASSUME TypeOK, TypeOK', LossInv, ~torn, UNCHANGED <<cp, queued, pc, seen, written>>,
           cut \subseteq cut', forgone \subseteq forgone', mistaken \subseteq mistaken',
           \A i \in Ahead : \A l \in Left(cp, i, data[i]) :
              l \in forgone' \cup mistaken' \/ (i \in Ahead' /\ data'[i] = data[i]),
           pc = "first" => \A l \in 1..written \ cut : FirstOwed(l) => FirstOwed(l)'
    PROVE  LossInv'
<1>1. ASSUME cp # None, NEW l \in 1..written \ cut'
      PROVE  Settled(l)' \/ \E i \in Ahead' : l \in Left(cp, i, data'[i])
  <2>1. Settled(l) \/ \E i \in Ahead : l \in Left(cp, i, data[i])
    BY <1>1 DEF LossInv
  <2>2. CASE Settled(l)
    BY <2>2 DEF Settled
  <2>3. CASE \E i \in Ahead : l \in Left(cp, i, data[i])
    <3>1. PICK i \in Ahead : l \in Left(cp, i, data[i])
      BY <2>3
    <3> QED  BY <3>1 DEF Settled
  <2> QED  BY <2>1, <2>2, <2>3
<1>2. ASSUME pc = "first", NEW l \in 1..written \ cut' PROVE FirstOwed(l)'
  BY <1>2 DEF LossInv, FirstOwed
<1> QED  BY <1>1, <1>2 DEF LossInv, FirstOwed


\* The collector takes a line: it is settled, and no other line is passed over.
LEMMA ReadLoss ==
    ASSUME TypeOK, FileInv, PairInv, CheckpointInv, PlaceInv, MatchInv, LossInv, NoteInv, ~torn,
           ReadLine, mistaken \subseteq mistaken'
    PROVE  LossInv'
<1> DEFINE s == data[opened]
           e == Min(Ends)
           x == s[e] \div 2
<1>1. /\ cp # None /\ cp.inode \in Inodes /\ cp.offset \in Nat /\ opened \in Inodes
      /\ e \in 1..Len(s) /\ e > cp.offset /\ x \in 1..MaxLines /\ s[e] = 2 * x
      /\ cp' # None /\ cp'.inode = cp.inode /\ cp'.offset = e /\ cp'.anchor = s[e]
      /\ UNCHANGED <<data, path, pc, seen, opened, races, torn>>
  BY ReadEffect
<1>2. \A k \in 1..Len(s), l \in 1..MaxLines : k > cp.offset /\ s[k] = 2 * l => k >= e
  BY <1>1, NextLine DEF ReadLine
<1>3. /\ pc \in {"drain", "drainRotated"} /\ UNCHANGED <<written, cut>>
      /\ \/ queued' = Append(queued, x) /\ forgone' = forgone
         \/ queued' = queued /\ forgone' = forgone \cup {x}
  BY DEF ReadLine, log
<1>4. s \in Seq(1..2 * MaxLines) /\ Len(s) \in Nat /\ written \in 0..MaxLines /\ half \in BOOLEAN
  BY <1>1, Types DEF TypeOK
<1>5. \A k \in 1..Len(s) : s[k] \in Nat
  BY <1>1, Types
<1>6. queued \in Seq(1..MaxLines)
  BY DEF TypeOK
<1>7. \A k \in 1..Len(s) : s[k] <= Top
  BY <1>1 DEF FileInv
<1>8. \A j, k \in 1..Len(s) : j < k => s[j] < s[k]
  BY <1>1 DEF FileInv
<1>9. \A k \in 1..Len(s), l \in 1..MaxLines :
         s[k] = 2 * l - 1 =>
             \/ l \in cut
             \/ k + 1 <= Len(s) /\ s[k + 1] = 2 * l
             \/ half /\ l = written
  BY <1>1 DEF PairInv
<1>10. opened # cp.inode => ~Matches'
  BY ReadElsewhere
<1> HIDE DEF s, e, x
<1>11. \A l : Settled(l) \/ l = x => Settled(l)'
  <2>1. CASE queued' = Append(queued, x) /\ forgone' = forgone
    <3>1. /\ Len(queued') = Len(queued) + 1 /\ queued'[Len(queued) + 1] = x
          /\ \A k \in 1..Len(queued) : queued'[k] = queued[k]
          /\ Len(queued) \in Nat
      BY <1>1, <1>6, <2>1, AppendLast
    <3>2. Len(queued) + 1 \in 1..Len(queued') /\ \A k \in 1..Len(queued) : k \in 1..Len(queued')
      BY <3>1
    <3>3. ASSUME NEW l, l = x PROVE Settled(l)'
      BY <3>1, <3>2, <3>3 DEF Settled
    <3>4. ASSUME NEW l, Settled(l) PROVE Settled(l)'
      BY <2>1, <3>1, <3>2, <3>4 DEF Settled
    <3> QED  BY <3>3, <3>4
  <2>2. CASE queued' = queued /\ forgone' = forgone \cup {x}
    BY <2>2 DEF Settled
  <2> QED  BY <1>3, <2>1, <2>2
<1>12. ASSUME NEW l \in 1..written \ cut, l # x, l \in Has(s, cp.offset) PROVE l \in Has(s, e)
  <2>1. PICK k \in 1..Len(s) : k > cp.offset /\ Of(l, s[k])
    BY <1>12 DEF Has
  <2>2. l \in 1..MaxLines /\ l \in Nat /\ x \in Nat
    BY <1>1, <1>12 DEF Has
  <2>3. CASE k > e
    BY <2>1, <2>2, <2>3 DEF Has
  <2>4. CASE k = e
    <3>1. Of(l, 2 * x)
      BY <1>1, <2>1, <2>4
    <3> QED  BY <1>12, <2>2, <3>1 DEF Of
  <2>5. CASE k < e
    <3>1. s[k] = 2 * l - 1
      <4>0. k \in Nat /\ e \in 1..Len(s) /\ Len(s) \in Nat
        BY <1>1, <1>4
      <4>1. ~(k >= e)
        BY <2>5, <4>0
      <4>2. s[k] # 2 * l
        BY <1>2, <2>1, <2>2, <4>1
      <4> QED  BY <2>1, <4>2 DEF Of
    <3>2. CASE k + 1 <= Len(s) /\ s[k + 1] = 2 * l
      <4>1. k + 1 \in 1..Len(s) /\ k + 1 > cp.offset
        <5>1. \A a, b, c \in Nat : a > c /\ a + 1 <= b => a + 1 \in 1..b /\ a + 1 > c
          OBVIOUS
        <5>2. k \in Nat /\ cp.offset \in Nat /\ Len(s) \in Nat
          BY <1>1, <1>4
        <5> QED  BY <2>1, <3>2, <5>1, <5>2
      <4>2. k + 1 >= e
        BY <1>2, <2>2, <3>2, <4>1
      <4>3. k + 1 = e
        BY <1>1, <1>4, <2>5, <4>2
      <4> QED  BY <1>1, <1>12, <2>2, <3>2, <4>3
    <3>3. CASE half /\ l = written
      <4>1. s[e] <= 2 * l - 1
        BY <1>1, <1>7, <3>3 DEF Top
      <4>2. s[k] < s[e]
        BY <1>1, <1>8, <2>5
      <4>3. \A a, b \in Nat : ~(2 * a <= 2 * b - 1 /\ 2 * b - 1 < 2 * a)
        OBVIOUS
      <4> QED  BY <1>1, <2>2, <3>1, <4>1, <4>2, <4>3
    <3> QED  BY <1>9, <1>12, <2>2, <3>1, <3>2, <3>3
  <2> QED  BY <1>1, <1>4, <2>3, <2>4, <2>5
<1>13. ASSUME NEW i \in Ahead, NEW l \in 1..written \ cut, l # x, l \in Left(cp, i, data[i])
       PROVE  l \in mistaken \/ l \in Left(cp', i, data[i])
  <2>1. i \in Inodes
    BY AheadIs
  <2>2. CASE i # cp.inode
    BY <1>1, <1>13, <2>2 DEF Left, From
  <2>3. CASE i = cp.inode /\ opened = cp.inode
    <3>1. Passes
      BY <1>3, <2>3 DEF MatchInv
    <3>2. l \in Has(s, cp.offset) \cup mistaken
      BY <1>1, <1>13, <2>3, <3>1, PassesLeft DEF s
    <3>3. Fits(cp', s)
      BY <1>1, <1>4 DEF Fits
    <3>4. Left(cp', i, s) = Has(s, e)
      BY <1>1, <2>3, <3>3 DEF Left, From
    <3> QED  BY <1>12, <1>13, <2>3, <3>2, <3>4 DEF s
  <2>4. CASE i = cp.inode /\ opened # cp.inode
    <3>1. ~Fits(cp', data[i])
      BY <1>1, <1>10, <2>4 DEF Matches
    <3>2. Left(cp', i, data[i]) = Has(data[i], 0)
      BY <3>1 DEF Left, From
    <3> QED  BY <1>13, <2>1, <3>2, LeftIn
  <2> QED  BY <2>2, <2>3, <2>4
<1>14. ASSUME NEW l \in 1..written \ cut
       PROVE  Settled(l)' \/ \E i \in Ahead' : l \in Left(cp', i, data'[i])
  <2>1. Settled(l) \/ \E i \in Ahead : l \in Left(cp, i, data[i])
    BY <1>1, <1>14 DEF LossInv
  <2>2. CASE Settled(l) \/ l = x
    BY <1>11, <2>2
  <2>3. CASE l # x /\ \E i \in Ahead : l \in Left(cp, i, data[i])
    <3>1. PICK i \in Ahead : l \in Left(cp, i, data[i])
      BY <2>3
    <3>2. l \in mistaken \/ l \in Left(cp', i, data'[i])
      BY <1>1, <1>13, <1>14, <2>3, <3>1
    <3>3. i \in Ahead'
      BY <1>1, <3>1 DEF Ahead, Inode
    <3>4. l \in mistaken => Settled(l)'
      BY DEF Settled
    <3> QED  BY <3>2, <3>3, <3>4
  <2> QED  BY <2>1, <2>2, <2>3
<1>15. pc' # "first"
  BY <1>1, <1>3
<1> QED  BY <1>3, <1>14, <1>15 DEF LossInv

\* A step after which nothing less is ahead of the collector.
LEMMA KeepLoss ==
    ASSUME TypeOK, LossInv, ~torn, cp # None, cp' # None, pc' # "first",
           UNCHANGED <<data, path, written, cut, queued>>, forgone \subseteq forgone',
           mistaken \subseteq mistaken',
           \A i \in Ahead : \A l \in 1..written \ cut : l \in Left(cp, i, data[i]) =>
              l \in forgone' \cup mistaken' \/ \E j \in Ahead' : l \in Left(cp', j, data[j])
    PROVE  LossInv'
<1>1. ASSUME NEW l \in 1..written \ cut
      PROVE  Settled(l)' \/ \E j \in Ahead' : l \in Left(cp', j, data[j])
  <2>1. Settled(l) \/ \E i \in Ahead : l \in Left(cp, i, data[i])
    BY <1>1 DEF LossInv
  <2>2. CASE Settled(l)
    BY <2>2 DEF Settled
  <2>3. CASE \E i \in Ahead : l \in Left(cp, i, data[i])
    <3>1. l \in forgone' \cup mistaken' \/ \E j \in Ahead' : l \in Left(cp', j, data[j])
      BY <1>1, <2>3
    <3> QED  BY <3>1 DEF Settled
  <2> QED  BY <2>1, <2>2, <2>3
<1> QED  BY <1>1 DEF LossInv

\* The log is reopened or rotated: what is taken out of reach is forgone.
LEMMA LogLoss ==
    ASSUME TypeOK, TypeOK', PlaceInv, MatchInv, LossInv, NoteInv, ~torn, ~torn',
           Reopen \/ Rotate \/ Truncate \/ RemoveArchive, mistaken \subseteq mistaken'
    PROVE  LossInv'
<1>1. UNCHANGED <<cp, queued, pc, seen, written>> /\ cut \subseteq cut' /\ forgone \subseteq forgone'
  BY DEF Reopen, Rotate, Truncate, RemoveArchive, Create, collector
<1>2. \A i \in Inodes : /\ Left(cp, i, data[i]) \subseteq Unread(i) \cup mistaken /\ LinesIn(data[i]) = Has(data[i], 0)
                        /\ Left(cp, i, data[i]) \subseteq Has(data[i], 0)
  <2> SUFFICES ASSUME NEW i \in Inodes
               PROVE  /\ Left(cp, i, data[i]) \subseteq Unread(i) \cup mistaken /\ LinesIn(data[i]) = Has(data[i], 0)
                      /\ Left(cp, i, data[i]) \subseteq Has(data[i], 0)
    OBVIOUS
  <2>1. data[i] \in Seq(1..2 * MaxLines) /\ 0 \in Nat
    BY Types
  <2>2. LinesIn(data[i]) = Has(data[i], 0)
    BY <2>1, LinesAfter
  <2> QED  BY <2>2, LeftIsUnread, LeftIn
<1>3. path # None => path \in Inodes
  BY Types
<1>4. pc = "first" => cp = None /\ Inode = None /\ seen.size \in Nat
  BY Types DEF PlaceInv, Inode, TypeOK
<1>5. \A i \in Ahead : /\ i \in Inodes
                       /\ \/ i = path /\ path # None
                          \/ cp # None /\ i = cp.inode /\ i = Inode /\ pc # "move"
  BY AheadIs DEF Inode
<1>6. \A i \in Inodes : cp # None /\ i = cp.inode /\ pc # "move" => i \in Ahead'
  BY <1>1 DEF Ahead, Inode
<1>7. CASE RemoveArchive \/ (Reopen /\ path # None)
  <2>1. UNCHANGED <<data, path, forgone>>
    BY <1>7 DEF RemoveArchive, Reopen
  <2>2. Ahead' = Ahead
    BY <1>1, <2>1 DEF Ahead, Inode
  <2>3. \A l : FirstOwed(l) => FirstOwed(l)'
    BY <1>1, <2>1 DEF FirstOwed
  <2> QED  BY <1>1, <2>1, <2>2, <2>3, TakeLoss
<1>8. CASE Truncate
  <2>1. /\ pc = "idle" /\ path # None /\ path' = path /\ forgone' = forgone \cup Unread(path)
        /\ data' = [data EXCEPT ![path] = <<>>]
    BY <1>8 DEF Truncate
  <2>2. Empties(path)
    BY <1>3, <2>1, EmptyFile
  <2>3. \A i \in Ahead : i # path => i \in Ahead' /\ data'[i] = data[i]
    BY <1>5, <1>6, <2>1, <2>2 DEF Empties
  <2>4. \A i \in Ahead : \A l \in Left(cp, i, data[i]) :
           l \in forgone' \cup mistaken' \/ (i \in Ahead' /\ data'[i] = data[i])
    BY <1>2, <1>3, <2>1, <2>3
  <2> QED  BY <1>1, <2>1, <2>4, TakeLoss
<1>9. CASE Reopen /\ path = None
  <2>1. PICK i \in Fresh : Create(i, {}) /\ path' = i
    BY <1>9 DEF Reopen
  <2>2. i \in Inodes
    BY FreshIsFree
  <2>3. Empties(i)
    BY <2>1, <2>2, EmptyFile DEF Create
  <2>4. \A j \in Ahead : \A l \in Left(cp, j, data[j]) :
           l \in forgone' \cup mistaken' \/ (j \in Ahead' /\ data'[j] = data[j])
    <3> SUFFICES ASSUME NEW j \in Ahead, NEW l \in Left(cp, j, data[j])
                 PROVE  l \in forgone' \cup mistaken' \/ (j \in Ahead' /\ data'[j] = data[j])
      OBVIOUS
    <3>1. j \in Inodes /\ cp # None /\ j = cp.inode /\ j = Inode /\ pc # "move"
      BY <1>5, <1>9
    <3>2. CASE j = i
      BY <1>2, <2>1, <3>1, <3>2 DEF Create
    <3>3. CASE j # i
      BY <1>6, <2>3, <3>1, <3>3 DEF Empties
    <3> QED  BY <3>2, <3>3
  <2>5. \A l : FirstOwed(l) => FirstOwed(l)'
    BY <1>1, <1>9 DEF FirstOwed
  <2> QED  BY <1>1, <2>4, <2>5, TakeLoss
<1>10. CASE Rotate
  <2> DEFINE taken == IF path = Inode THEN {} ELSE LinesIn(data[path])
  <2>1. path # None /\ path \in Inodes
    BY <1>3, <1>10 DEF Rotate
  <2>2. \/ forgone' = forgone \cup taken /\ UNCHANGED data
        \/ \E i \in Fresh : Create(i, taken)
    BY <1>10 DEF Rotate
  <2>3. taken \subseteq forgone'
    BY <2>2 DEF Create
  <2>4. \A j \in Inodes : \/ data'[j] = data[j]
                          \/ j = Inode => Left(cp, j, data[j]) \subseteq forgone' \cup mistaken'
    <3> SUFFICES ASSUME NEW i \in Fresh, Create(i, taken), NEW j \in Inodes
                 PROVE  \/ data'[j] = data[j]
                        \/ j = Inode => Left(cp, j, data[j]) \subseteq forgone' \cup mistaken'
      BY <2>2
    <3>1. i \in Inodes
      BY FreshIsFree
    <3>2. Empties(i)
      BY <3>1, EmptyFile DEF Create
    <3>3. CASE j = i
      BY <1>2, <3>3 DEF Create
    <3>4. CASE j # i
      BY <3>2, <3>4 DEF Empties
    <3> QED  BY <3>3, <3>4
  <2>5. ASSUME NEW j \in Ahead, NEW l \in Left(cp, j, data[j])
        PROVE  l \in forgone' \cup mistaken' \/ (j \in Ahead' /\ data'[j] = data[j])
    <3>1. j \in Inodes
      BY <1>5
    <3>2. CASE j # Inode
      <4>1. j = path
        BY <1>5, <3>2
      <4> QED  BY <1>2, <2>3, <2>5, <3>1, <3>2, <4>1
    <3>3. CASE j = Inode
      <4>1. cp # None /\ j = cp.inode
        BY <3>1, <3>3 DEF Inode
      <4>2. pc # "move"
        BY <1>5, <2>5, <4>1 DEF MatchInv, Rotated
      <4> QED  BY <1>6, <2>4, <2>5, <3>1, <3>3, <4>1, <4>2
    <3> QED  BY <3>2, <3>3
  <2>6. ASSUME pc = "first", NEW l, FirstOwed(l) PROVE FirstOwed(l)'
    <3>1. taken = Has(data[path], 0)
      BY <1>2, <1>4, <2>1, <2>6
    <3>2. data[path] \in Seq(1..2 * MaxLines) /\ 0 \in Nat /\ 0 <= seen.size /\ seen.size \in Nat
      BY <1>4, <2>1, <2>6, Types
    <3>3. Has(data[path], seen.size) \subseteq Has(data[path], 0)
      BY <3>2, HasLess
    <3>4. l \in forgone'
      BY <1>1, <2>3, <2>6, <3>1, <3>3 DEF FirstOwed
    <3> QED  BY <3>4 DEF FirstOwed
  <2> QED  BY <1>1, <2>5, <2>6, TakeLoss
<1> QED  BY <1>7, <1>8, <1>9, <1>10

\* Every step accounts for the lines.
LEMMA LossStep ==
    ASSUME TypeOK, TypeOK', FileInv, PairInv, CheckpointInv, PlaceInv, MatchInv, LossInv, NoteInv,
           Next
    PROVE  LossInv'
<1> SUFFICES ASSUME ~torn' PROVE LossInv'
  BY DEF LossInv
<1>0. ~torn
  BY DEF Next, CollectorStep, LogStep, Interrupt, Collect, First, CheckAnchor,
     Find, CheckRotated, OpenRotated, OpenPath, Open, ReadLine, EndOfFile, Move, WriteLine, WriteHead,
     WriteTail, Reopen, Rotate, Truncate, RemoveArchive, Create
<1>m. mistaken \subseteq mistaken'
  BY DEF Next, Note
<1>1. CASE WriteLine \/ WriteHead \/ WriteTail
  BY <1>0, <1>m, <1>1, WriteLoss
<1>2. CASE Reopen \/ Rotate \/ Truncate \/ RemoveArchive
  BY <1>0, <1>m, <1>2, LogLoss
<1>3. CASE ReadLine
  BY <1>0, <1>m, <1>3, ReadLoss
<1>4. CASE Collect
  <2>1. /\ UNCHANGED <<data, path, written, cut, cp, queued>> /\ pc = "idle" /\ path # None
        /\ forgone' = forgone \cup (IF cp = None THEN 1..written ELSE {})
    BY <1>4 DEF Collect, log
  <2>2. pc' \in {"first", "anchor", "find"} /\ (cp # None => pc' # "first")
    BY <1>4 DEF Collect
  <2>3. Ahead' = Ahead
    BY <2>1, <2>2 DEF Ahead, Inode
  <2>4. CASE cp # None
    BY <1>0, <1>m, <2>1, <2>2, <2>3, <2>4, KeepLoss
  <2>5. CASE cp = None
    BY <2>1, <2>5 DEF LossInv, FirstOwed
  <2> QED  BY <2>4, <2>5
<1>5. CASE First
  <2>1. /\ UNCHANGED <<data, path, written, cut, queued, forgone>> /\ pc = "first" /\ pc' = "idle"
    BY <1>5 DEF First, log, Return
  <2>2. cp = None /\ seen.inode \in Inodes /\ seen.size \in Nat
    BY <2>1, Types DEF PlaceInv, TypeOK
  <2>3. ASSUME cp' # None, NEW l \in 1..written \ cut
        PROVE  l \in forgone \/ \E i \in Ahead' : l \in Left(cp', i, data[i])
    <3>1. FirstOwed(l)
      BY <1>0, <2>1, <2>3 DEF LossInv
    <3>2. CASE path # None
      <4>1. path \in Inodes /\ data[path] \in Seq(1..2 * MaxLines) /\ Len(data[path]) \in Nat
        BY <3>2, Types
      <4>2. cp' = CheckpointAt(seen.inode, data[path], seen.size) /\ seen.size <= Len(data[path])
        BY <1>5, <2>2, <2>3, <3>2 DEF First
      <4>3. /\ cp'.inode = seen.inode /\ cp'.offset = seen.size
            /\ cp'.anchor = IF seen.size = 0 THEN None ELSE data[path][seen.size]
        BY <4>2 DEF CheckpointAt
      <4>4. Fits(cp', data[path])
        BY <4>2, <4>3 DEF Fits
      <4>5. Left(cp', path, data[path]) =
               IF path = seen.inode THEN Has(data[path], seen.size) ELSE Has(data[path], 0)
        BY <2>3, <4>3, <4>4 DEF Left, From
      <4>6. path \in Ahead'
        BY <2>1, <3>2 DEF Ahead
      <4> QED  BY <3>1, <4>5, <4>6 DEF FirstOwed
    <3>3. CASE path = None
      BY <3>1, <3>3 DEF FirstOwed
    <3> QED  BY <3>2, <3>3
  <2> QED  BY <2>1, <2>3 DEF LossInv, Settled
<1>6. CASE CheckAnchor
  <2>1. /\ UNCHANGED <<data, path, written, cut, queued, forgone>> /\ pc = "anchor"
        /\ pc' \in {"idle", "open"}
        /\ cp' = cp \/ cp' = [cp EXCEPT !.offset = 0, !.anchor = None]
    BY <1>6 DEF CheckAnchor, log, Return
  <2>2. cp # None /\ cp \in Checkpoints
    BY <2>1, Types DEF PlaceInv
  <2>3. /\ cp' # None /\ cp'.inode = cp.inode
        /\ cp' = cp \/ cp'.offset = 0
    BY <2>1, <2>2, Reset
  <2>4. Ahead' = Ahead
    BY <2>1, <2>2, <2>3 DEF Ahead, Inode
  <2>5. ASSUME NEW i \in Ahead, NEW l \in Left(cp, i, data[i]) PROVE l \in Left(cp', i, data[i])
    <3>1. CASE cp' = cp
      BY <2>5, <3>1
    <3>2. CASE cp'.offset = 0
      <4>1. i \in Inodes
        BY AheadIs
      <4>2. Left(cp', i, data[i]) = Has(data[i], 0)
        BY <3>2 DEF Left, From
      <4> QED  BY <2>5, <4>1, <4>2, LeftIn
    <3> QED  BY <2>3, <3>1, <3>2
  <2> QED  BY <1>0, <1>m, <2>1, <2>2, <2>3, <2>4, <2>5, KeepLoss
<1>7. CASE Interrupt \/ Find \/ CheckRotated \/ OpenRotated \/ OpenPath \/ (EndOfFile /\ ~Drained)
  <2>1. UNCHANGED <<data, path, written, cut, cp, queued, forgone>> /\ pc' \notin {"first", "move"}
    BY <1>7 DEF Interrupt, Find, CheckRotated, OpenRotated, OpenPath, Open, EndOfFile, log, Return
  <2>2. \A i \in Ahead : i \in Ahead'
    BY <2>1 DEF Ahead, Inode
  <2>3. CASE cp # None
    BY <1>0, <1>m, <2>1, <2>2, <2>3, KeepLoss
  <2>4. CASE cp = None
    BY <2>1, <2>4 DEF LossInv
  <2> QED  BY <2>3, <2>4
<1>8. CASE EndOfFile /\ Drained
  <2>1. /\ UNCHANGED <<data, path, written, cut, cp, queued>> /\ pc' = "move"
        /\ pc = "drainRotated" /\ Len(data[opened]) <= cp.offset
        /\ forgone' = forgone \cup (IF opened = Inode THEN {} ELSE Unread(Inode))
    BY <1>8 DEF EndOfFile, Drained, log
  <2>2. cp # None /\ cp.inode \in Inodes /\ cp.offset \in Nat /\ cp.inode = Inode
    BY <2>1, Types DEF PlaceInv, Inode
  <2>3. Left(cp, cp.inode, data[cp.inode]) \subseteq forgone' \cup mistaken'
    <3>1. CASE opened = cp.inode
      <4>1. Passes
        BY <1>0, <2>1, <3>1 DEF MatchInv
      <4>2. Len(data[cp.inode]) \in Nat /\ Len(data[cp.inode]) <= cp.offset
        BY <2>1, <2>2, <3>1, Types
      <4>3. \A k \in 1..Len(data[cp.inode]) : ~(k > cp.offset)
        BY <2>2, <4>2
      <4>4. Has(data[cp.inode], cp.offset) = {}
        BY <4>3 DEF Has
      <4> QED  BY <1>m, <2>2, <4>1, <4>4, PassesLeft
    <3>2. CASE opened # cp.inode
      BY <1>m, <2>1, <2>2, <3>2, LeftIsUnread
    <3> QED  BY <3>1, <3>2
  <2>4. \A i \in Ahead : \A l \in Left(cp, i, data[i]) : l \in forgone' \cup mistaken' \/ i \in Ahead'
    <3> SUFFICES ASSUME NEW i \in Ahead, NEW l \in Left(cp, i, data[i]), i # cp.inode
                 PROVE  i \in Ahead'
      BY <2>3
    <3>1. i = path /\ path # None
      BY AheadIs
    <3> QED  BY <2>1, <3>1 DEF Ahead
  <2>5. forgone \subseteq forgone'
    BY <2>1
  <2> QED  BY <1>0, <1>m, <2>1, <2>2, <2>4, <2>5, KeepLoss
<1>9. CASE Move
  <2>1. /\ pc \in {"move", "gap"} /\ cp' = CheckpointAt(seen.inode, <<>>, 0) /\ pc' = "open"
        /\ UNCHANGED <<queued, data, path, written, cut, seen>>
        /\ forgone' = forgone \cup
              (IF pc = "gap" THEN 1..written \ LinesIn(data[seen.inode]) ELSE {})
    BY <1>9 DEF Move, log
  <2>2. cp'.inode = seen.inode /\ cp'.offset = 0
    BY <2>1 DEF CheckpointAt
  <2>3. cp # None /\ seen.inode \in Inodes /\ path # cp.inode
    BY <1>0, <2>1 DEF PlaceInv, MatchInv, Rotated
  <2>4. data[seen.inode] \in Seq(1..2 * MaxLines) /\ 0 \in Nat /\ Len(<<>>) = 0
    BY <2>3, Types
  <2>5. cp' # None
    <3>1. <<>> \in Seq(1..2 * MaxLines) /\ 0 <= Len(<<>>)
      BY <2>4
    <3>2. cp' \in Checkpoints
      BY <2>1, <2>3, <2>4, <3>1, CheckpointType
    <3> QED  BY <3>2
  <2>6. \A i : Left(cp', i, data[i]) = Has(data[i], 0)
    BY <2>2 DEF Left, From
  <2>7. ASSUME NEW i \in Ahead, NEW l \in 1..written \ cut, l \in Left(cp, i, data[i])
        PROVE  l \in forgone' \/ \E j \in Ahead' : l \in Left(cp', j, data[j])
    <3>1. CASE pc = "move"
      <4>1. i = path /\ path # None /\ i \in Inodes
        BY <3>1, AheadIs
      <4>2. l \in Has(data[i], 0)
        BY <2>7, <4>1, LeftIn
      <4>3. i \in Ahead'
        BY <2>1, <4>1 DEF Ahead
      <4> QED  BY <2>6, <4>2, <4>3
    <3>2. CASE pc = "gap" /\ l \notin LinesIn(data[seen.inode])
      BY <2>1, <2>7, <3>2
    <3>3. CASE l \in LinesIn(data[seen.inode])
      <4>1. l \in Has(data[seen.inode], 0)
        BY <2>4, <3>3, LinesAfter
      <4>2. seen.inode \in Ahead'
        BY <2>1, <2>2, <2>3, <2>5 DEF Ahead, Inode
      <4> QED  BY <2>6, <4>1, <4>2
    <3> QED  BY <2>1, <3>1, <3>2, <3>3
  <2> QED  BY <1>0, <1>m, <2>1, <2>3, <2>5, <2>7, KeepLoss
<1> QED
  BY <1>1, <1>2, <1>3, <1>4, <1>5, <1>6, <1>7, <1>8, <1>9 DEF Next, CollectorStep, LogStep

-----------------------------------------------------------------------------
(* The theorems *)

\* The invariant holds in the beginning: the log is empty and nobody reads.
LEMMA InitInv == Init => Inv
<1> SUFFICES ASSUME Init PROVE Inv
  OBVIOUS
<1>1. \E i \in Inodes : TRUE
  BY AccessAssumption
<1>2. path \in Inodes /\ fd = path /\ path # None
  BY <1>1 DEF Init
<1>3. <<>> \in Seq(1..2 * MaxLines) /\ <<>> \in Seq(1..MaxLines) /\ Len(<<>>) = 0
  OBVIOUS
<1>4. data \in [Inodes -> Seq(1..2 * MaxLines)] /\ \A i \in Inodes : data[i] = <<>> /\ Len(data[i]) = 0
  BY <1>3 DEF Init
<1>5. queued \in Seq(1..MaxLines) /\ Len(queued) = 0
  BY <1>3 DEF Init
<1>6. TypeOK
  <2>1. LogType
    <3>1. written \in 0..MaxLines /\ archived \subseteq Inodes /\ cut \subseteq 1..MaxLines
      BY DEF Init
    <3>2. half \in BOOLEAN
      BY DEF Init
    <3> QED  BY <1>2, <1>4, <3>1, <3>2 DEF LogType, Files
  <2>2. CollectorType
    BY <1>5 DEF Init, CollectorType, Labels, Files, NotSeen
  <2>3. HistoryType
    BY DEF Init, HistoryType
  <2> QED  BY <2>1, <2>2, <2>3, TypeParts
<1>7. FileInv
  <2>1. \A i \in Inodes : 1..Len(data[i]) = {}
    BY <1>4
  <2> QED  BY <1>2, <2>1 DEF FileInv
<1>8. PairInv
  <2>1. \A i \in Inodes : 1..Len(data[i]) = {}
    BY <1>4
  <2> QED  BY <2>1 DEF Init, PairInv
<1>9. CheckpointInv
  <2>1. 1..Len(queued) = {}
    BY <1>5
  <2> QED  BY <2>1 DEF Init, CheckpointInv
<1>10. PlaceInv /\ MatchInv
  BY DEF Init, PlaceInv, MatchInv, Rotated, Racing, ByName
<1>11. OrderInv
  <2>1. 1..Len(queued) = {}
    BY <1>5
  <2> QED  BY <2>1 DEF Init, OrderInv
<1>12. CopyInv
  <2>1. \A l : CopiesIn(queued, l) = 0
    <3> SUFFICES ASSUME NEW l PROVE CopiesIn(queued, l) = 0
      OBVIOUS
    <3>1. \A k \in 1..Len(queued) : queued[k] # l
      BY <1>5
    <3> QED  BY <1>5, <3>1, NoCopies
  <2>2. races = 0 /\ pc = "idle"
    BY DEF Init
  <2>3. FewCopies /\ ReachCopies /\ OwnCopies
    BY <2>1, <2>2 DEF FewCopies, ReachCopies, OwnCopies
  <2>4. NewCopies /\ RacedCopies /\ SeenCopies /\ DrainCopies /\ RotatedCopies
    BY <2>2 DEF NewCopies, RacedCopies, SeenCopies, DrainCopies, RotatedCopies, Racing, ByName
  <2> QED  BY <2>3, <2>4 DEF CopyInv
<1>13. LossInv /\ NoteInv
  BY DEF Init, LossInv, NoteInv, Mistaken
<1> QED  BY <1>6, <1>7, <1>8, <1>9, <1>10, <1>11, <1>12, <1>13 DEF Inv

\* Every step keeps the invariant.
LEMMA NextInv == Inv /\ [Next]_vars => Inv'
<1> SUFFICES ASSUME Inv, [Next]_vars PROVE Inv'
  OBVIOUS
<1>0. TypeOK /\ FileInv /\ PairInv /\ CheckpointInv /\ PlaceInv /\ MatchInv /\ OrderInv /\ CopyInv /\ LossInv
      /\ NoteInv
  BY DEF Inv
<1>1. CASE Next
  <2>1. TypeOK'
    BY <1>0, <1>1, TypeStep
  <2>2. FileInv'
    BY <1>0, <1>1, FileStep
  <2>3. PairInv'
    BY <1>0, <1>1, PairStep
  <2>4. CheckpointInv'
    BY <1>0, <1>1, CheckpointStep
  <2>5. PlaceInv'
    BY <1>0, <1>1, PlaceStep
  <2>6. MatchInv'
    BY <1>0, <1>1, MatchStep
  <2>7. OrderInv'
    BY <1>0, <1>1, OrderStep
  <2>8. CopyInv'
    BY <1>0, <1>1, CopyStep
  <2>9. LossInv'
    BY <1>0, <1>1, <2>1, LossStep
  <2>10. NoteInv'
    BY <1>1 DEF Next, Note, NoteInv
  <2> QED  BY <2>1, <2>2, <2>3, <2>4, <2>5, <2>6, <2>7, <2>8, <2>9, <2>10 DEF Inv
<1>2. CASE UNCHANGED vars
  <2>1. /\ UNCHANGED <<data, path, archived, fd, written, half, cut>>
        /\ UNCHANGED <<cp, queued, pc, seen, opened, rotated, rotations, faults, races, torn>>
        /\ UNCHANGED <<forgone, mistaken>>
    BY <1>2 DEF vars, log, collector
  <2>2. TypeOK' /\ FileInv' /\ PairInv'
    BY <1>0, <2>1 DEF TypeOK, FileInv, PairInv, Top
  <2>3. CheckpointInv' /\ PlaceInv' /\ MatchInv'
    BY <1>0, <2>1 DEF CheckpointInv, PlaceInv, MatchInv, Matches, Passes, Top
  <2>4. OrderInv' /\ CopyInv'
    BY <1>0, <2>1 DEF OrderInv, CopyInv, FewCopies, ReachCopies, OwnCopies, NewCopies, RacedCopies,
       SeenCopies, DrainCopies, RotatedCopies, Reach, Matches, Passes, Astray
  <2>5. LossInv' /\ NoteInv'
    BY <1>0, <2>1 DEF LossInv, Settled, FirstOwed, Ahead, Inode, NoteInv, Mistaken, AnchorMatches
  <2> QED  BY <2>2, <2>3, <2>4, <2>5 DEF Inv
<1> QED  BY <1>1, <1>2

\* The invariant holds of every behaviour of the log and of collectOnce.
THEOREM Invariance == Spec => []Inv
  BY InitInv, NextInv, PTL DEF Spec

\* The state stays within its types, the checkpoint of collectOnce included.
THEOREM TypeCorrect == Spec => []TypeOK
<1>1. Inv => TypeOK
  BY DEF Inv
<1> QED  BY <1>1, Invariance, PTL

\* collectOnce and drain report lines in the order they were written unless a
\* rename races with the stat, and every such race costs at most one copy.
THEOREM OrderIsKept == Spec => []LinesInOrder
<1>1. Inv => LinesInOrder
  <2> SUFFICES ASSUME Inv PROVE LinesInOrder
    OBVIOUS
  <2>1. OrderInv /\ CopyInv /\ queued \in Seq(1..MaxLines)
    BY DEF Inv, TypeOK
  <2>2. DOMAIN queued = 1..Len(queued)
    BY <2>1
  <2>3. \A l : Copies(l) = CopiesIn(queued, l)
    BY DEF Copies, CopiesIn
  <2>4. races = 0 => \A j, k \in DOMAIN queued : j < k => queued[j] < queued[k]
    BY <2>1, <2>2 DEF OrderInv
  <2>5. ~torn => \A l \in 1..MaxLines : Copies(l) <= races + 1
    BY <2>1, <2>3 DEF CopyInv, FewCopies
  <2> QED  BY <2>4, <2>5 DEF LinesInOrder
<1> QED  BY <1>1, Invariance, PTL

\* Every finished line was queued, is ahead of collectOnce, was forgone, or
\* stands before an offset whose anchor another line's ending matched: no other
\* interleaving of rotations, restarts and reads loses one in silence.
THEOREM NothingIsLost == Spec => []LossIsAccountedFor
<1>1. Inv => LossIsAccountedFor
  <2> SUFFICES ASSUME Inv, cp # None, ~torn, NEW l \in Finished
               PROVE  \/ l \in forgone \cup mistaken
                      \/ \E k \in DOMAIN queued : queued[k] = l
                      \/ \E i \in Ahead : l \in Unread(i)
    BY DEF LossIsAccountedFor
  <2>1. LossInv /\ TypeOK /\ NoteInv /\ queued \in Seq(1..MaxLines)
    BY DEF Inv, TypeOK
  <2>2. l \in 1..written \ cut
    BY DEF Finished
  <2>3. Settled(l) \/ \E i \in Ahead : l \in Left(cp, i, data[i])
    BY <2>1, <2>2 DEF LossInv
  <2>4. DOMAIN queued = 1..Len(queued)
    BY <2>1
  <2>5. \A i \in Ahead : Left(cp, i, data[i]) \subseteq Unread(i) \cup mistaken
    BY <2>1, AheadIs, LeftIsUnread
  <2> QED  BY <2>3, <2>4, <2>5 DEF Settled
<1> QED  BY <1>1, Invariance, PTL
=============================================================================
