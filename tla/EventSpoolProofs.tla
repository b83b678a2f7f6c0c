-------------------------- MODULE EventSpoolProofs --------------------------
(***************************************************************************)
(* The event pipeline implements EventQueue, for every list of access      *)
(* lines, every size and limit, and every number of failures.              *)
(*                                                                         *)
(* Neither the contiguity of the queue nor the refinement is inductive:    *)
(* both need to know what the requests in flight contain, because a late   *)
(* one can still make the center grow.  Inv says that every copy of an     *)
(* event, in the queue, in a request or at the center, is the same event.  *)
(* On top of it stand the accounting of Store, the exactly-once reporting  *)
(* of access lines, and the reach of a retried batch.                      *)
(*                                                                         *)
(* The byte counters are sums, which the library defines by recursion over *)
(* sets.  What such a sum computes is proved by induction over the subsets *)
(* of a finite set: a smallest counterexample exists, because inclusion is *)
(* well founded.                                                           *)
(***************************************************************************)
EXTENDS EventSpool, FiniteSetTheorems, WellFoundedInduction, TLAPS

-----------------------------------------------------------------------------
(* The library's sum over a finite set *)

\* A property of the subsets of a finite set holds of the set itself when a
\* set has it as soon as all its strict subsets do.
LEMMA SubsetInduction ==
    ASSUME NEW S, IsFiniteSet(S), NEW P,
           \A T \in SUBSET S : (\A U \in SUBSET T : U # T => U \in P) => T \in P
    PROVE  S \in P
<1> DEFINE Bad == {T \in SUBSET S : T \notin P}
<1> SUFFICES ASSUME S \notin P PROVE FALSE
  OBVIOUS
<1>1. FiniteSubsetsOf(S) = SUBSET S
  BY FS_FiniteSubsetsOfFinite
<1>2. Bad # {} /\ Bad \subseteq FiniteSubsetsOf(S)
  BY <1>1
<1>3. PICK T \in Bad : \A U \in Bad : ~(<<U, T>> \in StrictSubsetOrdering(S))
  <2> HIDE DEF Bad
  <2> QED  BY <1>2, WFMin, FS_StrictSubsetOrderingWellFounded
<1>4. ASSUME NEW U \in SUBSET T, U # T PROVE U \in P
  BY <1>3, <1>4 DEF StrictSubsetOrdering
<1> QED  BY <1>3, <1>4

\* The element the library's fold takes from a set.
Pick(s) == CHOOSE x \in s : TRUE

\* g is the recursive function the library's fold defines over S.
IsFold(q, S, g) ==
    g = [s \in SUBSET S |-> IF s = {} THEN 0 ELSE q[Pick(s)].size + g[s \ {Pick(s)}]]

Fold(q, S) == CHOOSE g : IsFold(q, S, g)

\* The sum is the value of that function, when there is one.
LEMMA BytesIsFold == \A q, S : Bytes(q, S) = Fold(q, S)[S]
  BY DEF Bytes, MapThenSumSet, MapThenFoldSet, Fold, IsFold, Pick

\* The folds over two sets agree on their common subsets.
LEMMA FoldsAgree ==
    ASSUME NEW q, NEW S, NEW T, NEW g, NEW h, IsFold(q, S, g), IsFold(q, T, h),
           NEW V, V \subseteq S, V \subseteq T, IsFiniteSet(V)
    PROVE  g[V] = h[V]
<1> DEFINE P == {U \in SUBSET V : g[U] = h[U]}
<1>1. ASSUME NEW W \in SUBSET V, \A U \in SUBSET W : U # W => U \in P PROVE W \in P
  <2>1. CASE W = {}
    BY <2>1 DEF IsFold
  <2>2. CASE W # {}
    <3>1. Pick(W) \in W
      BY <2>2 DEF Pick
    <3>2. g[W \ {Pick(W)}] = h[W \ {Pick(W)}]
      BY <1>1, <3>1
    <3>3. W \in SUBSET S /\ W \in SUBSET T
      OBVIOUS
    <3>4. g[W] = q[Pick(W)].size + g[W \ {Pick(W)}]
      BY <2>2, <3>3 DEF IsFold
    <3>5. h[W] = q[Pick(W)].size + h[W \ {Pick(W)}]
      BY <2>2, <3>3 DEF IsFold
    <3> QED  BY <3>2, <3>4, <3>5
  <2> QED  BY <2>1, <2>2
<1>2. V \in P
  <2> HIDE DEF P
  <2> QED  BY <1>1, SubsetInduction
<1> QED  BY <1>2

\* Over a finite set the recursion defines a function.
LEMMA FoldExists ==
    ASSUME NEW q, NEW S, IsFiniteSet(S)
    PROVE  IsFold(q, S, Fold(q, S))
<1> DEFINE P == {T \in SUBSET S : \E g : IsFold(q, T, g)}
<1>1. ASSUME NEW T \in SUBSET S, \A U \in SUBSET T : U # T => U \in P PROVE T \in P
  <2> DEFINE h == [s \in SUBSET T |->
                     IF s = {} THEN 0 ELSE q[Pick(s)].size + Fold(q, s \ {Pick(s)})[s \ {Pick(s)}]]
  <2>1. ASSUME NEW U \in SUBSET T, U # T PROVE IsFold(q, U, Fold(q, U)) /\ IsFiniteSet(U)
    <3>1. \E g : IsFold(q, U, g)
      BY <1>1, <2>1
    <3>2. IsFiniteSet(U)
      BY FS_Subset
    <3> QED  BY <3>1, <3>2 DEF Fold
  <2>2. ASSUME NEW U \in SUBSET T, U # T PROVE h[U] = Fold(q, U)[U]
    <3>1. CASE U = {}
      BY <2>1, <2>2, <3>1 DEF IsFold
    <3>2. CASE U # {}
      <4> DEFINE V == U \ {Pick(U)}
      <4>1. Pick(U) \in U
        BY <3>2 DEF Pick
      <4>2. V \in SUBSET T /\ V # T /\ V \subseteq U
        BY <4>1
      <4>3. h[U] = q[Pick(U)].size + Fold(q, V)[V]
        BY <3>2
      <4>4. Fold(q, U)[U] = q[Pick(U)].size + Fold(q, U)[V]
        BY <2>1, <2>2, <3>2 DEF IsFold
      <4>5. Fold(q, U)[V] = Fold(q, V)[V]
        <5> HIDE DEF V
        <5> QED  BY <2>1, <2>2, <4>2, FoldsAgree
      <4> QED  BY <4>3, <4>4, <4>5
    <3> QED  BY <3>1, <3>2
  <2>3. \A s \in SUBSET T : s # {} => h[s \ {Pick(s)}] = Fold(q, s \ {Pick(s)})[s \ {Pick(s)}]
    <3> TAKE s \in SUBSET T
    <3> HAVE s # {}
    <3>1. Pick(s) \in s
      BY DEF Pick
    <3>2. s \ {Pick(s)} \in SUBSET T /\ s \ {Pick(s)} # T
      BY <3>1
    <3> HIDE DEF h
    <3> QED  BY <2>2, <3>2
  <2>4. IsFold(q, T, h)
    <3>1. h = [s \in SUBSET T |-> IF s = {} THEN 0 ELSE q[Pick(s)].size + h[s \ {Pick(s)}]]
      BY <2>3
    <3> HIDE DEF h
    <3> QED  BY <3>1 DEF IsFold
  <2> HIDE DEF h
  <2> QED  BY <2>4
<1>2. S \in P
  <2> HIDE DEF P
  <2> QED  BY <1>1, SubsetInduction
<1>3. \E g : IsFold(q, S, g)
  BY <1>2
<1> QED  BY <1>3 DEF Fold

\* No event has no size.
LEMMA BytesEmpty == \A q : Bytes(q, {}) = 0
<1> TAKE q
<1>1. IsFold(q, {}, Fold(q, {}))
  BY FS_EmptySet, FoldExists
<1> QED  BY <1>1, BytesIsFold DEF IsFold

\* The recursion of the sum.
LEMMA BytesPick ==
    ASSUME NEW q, NEW S, IsFiniteSet(S), S # {}
    PROVE  /\ Pick(S) \in S
           /\ Bytes(q, S) = q[Pick(S)].size + Bytes(q, S \ {Pick(S)})
<1> DEFINE T == S \ {Pick(S)}
<1>1. Pick(S) \in S
  BY DEF Pick
<1>2. IsFiniteSet(T)
  BY FS_RemoveElement
<1>3. IsFold(q, S, Fold(q, S)) /\ IsFold(q, T, Fold(q, T))
  <2> HIDE DEF T
  <2> QED  BY <1>2, FoldExists
<1>4. Fold(q, S)[T] = Fold(q, T)[T]
  <2>1. T \subseteq S /\ T \subseteq T
    OBVIOUS
  <2> HIDE DEF T
  <2> QED  BY <1>2, <1>3, <2>1, FoldsAgree
<1>5. Fold(q, S)[S] = q[Pick(S)].size + Fold(q, S)[T]
  BY <1>3 DEF IsFold
<1>6. Bytes(q, S) = Fold(q, S)[S] /\ Bytes(q, T) = Fold(q, T)[T]
  BY BytesIsFold
<1> QED  BY <1>1, <1>4, <1>5, <1>6

\* Sizes of events are naturals, and so are their sums.
Sized(q, S) == \A i \in S : q[i].size \in Nat

LEMMA BytesType ==
    ASSUME NEW q, NEW S, IsFiniteSet(S), Sized(q, S)
    PROVE  Bytes(q, S) \in Nat
<1> DEFINE P == {T \in SUBSET S : Bytes(q, T) \in Nat}
<1>1. ASSUME NEW T \in SUBSET S, \A U \in SUBSET T : U # T => U \in P PROVE T \in P
  <2>1. CASE T = {}
    BY <2>1, BytesEmpty
  <2>2. CASE T # {}
    <3>1. IsFiniteSet(T)
      BY FS_Subset
    <3>2. Pick(T) \in T /\ Bytes(q, T) = q[Pick(T)].size + Bytes(q, T \ {Pick(T)})
      BY <2>2, <3>1, BytesPick
    <3>3. Bytes(q, T \ {Pick(T)}) \in Nat /\ q[Pick(T)].size \in Nat
      BY <1>1, <3>2 DEF Sized
    <3> QED  BY <3>2, <3>3
  <2> QED  BY <2>1, <2>2
<1>2. S \in P
  <2> HIDE DEF P
  <2> QED  BY <1>1, SubsetInduction
<1> QED  BY <1>2

\* The sum does not depend on the order: any element may be taken out.
LEMMA BytesRemove ==
    ASSUME NEW q, NEW S, IsFiniteSet(S), Sized(q, S), NEW e \in S
    PROVE  Bytes(q, S) = q[e].size + Bytes(q, S \ {e})
<1> DEFINE P == {T \in SUBSET S : \A x \in T : Bytes(q, T) = q[x].size + Bytes(q, T \ {x})}
<1>1. ASSUME NEW T \in SUBSET S, \A U \in SUBSET T : U # T => U \in P PROVE T \in P
  <2> SUFFICES ASSUME NEW x \in T PROVE Bytes(q, T) = q[x].size + Bytes(q, T \ {x})
    OBVIOUS
  <2> DEFINE c == Pick(T)
  <2>1. IsFiniteSet(T)
    BY FS_Subset
  <2>2. c \in T /\ Bytes(q, T) = q[c].size + Bytes(q, T \ {c})
    BY <2>1, BytesPick
  <2> HIDE DEF c
  <2>3. CASE x = c
    BY <2>2, <2>3
  <2>4. CASE x # c
    <3>1. T \ {c} \in P /\ T \ {x} \in P /\ x \in T \ {c} /\ c \in T \ {x}
      BY <1>1, <2>2, <2>4
    <3>2. Bytes(q, T \ {c}) = q[x].size + Bytes(q, (T \ {c}) \ {x})
      BY <3>1
    <3>3. Bytes(q, T \ {x}) = q[c].size + Bytes(q, (T \ {x}) \ {c})
      BY <3>1
    <3>4. (T \ {c}) \ {x} = (T \ {x}) \ {c}
      OBVIOUS
    <3>5. Bytes(q, (T \ {x}) \ {c}) \in Nat
      <4>1. IsFiniteSet((T \ {x}) \ {c}) /\ Sized(q, (T \ {x}) \ {c})
        BY <2>1, FS_RemoveElement DEF Sized
      <4> QED  BY <4>1, BytesType
    <3>6. q[x].size \in Nat /\ q[c].size \in Nat
      BY <2>2 DEF Sized
    <3> QED  BY <2>2, <3>2, <3>3, <3>4, <3>5, <3>6
  <2> QED  BY <2>3, <2>4
<1>2. S \in P
  <2> HIDE DEF P
  <2> QED  BY <1>1, SubsetInduction
<1> QED  BY <1>2

\* The sum splits at a subset.
LEMMA BytesSplit ==
    ASSUME NEW q, NEW S, IsFiniteSet(S), Sized(q, S), NEW T \in SUBSET S
    PROVE  Bytes(q, S) = Bytes(q, T) + Bytes(q, S \ T)
<1> DEFINE P == {U \in SUBSET T : Bytes(q, S) = Bytes(q, U) + Bytes(q, S \ U)}
<1>0. IsFiniteSet(T) /\ Bytes(q, S) \in Nat
  BY FS_Subset, BytesType
<1>1. ASSUME NEW V \in SUBSET T, \A U \in SUBSET V : U # V => U \in P PROVE V \in P
  <2>1. CASE V = {}
    <3>1. S \ V = S
      BY <2>1
    <3> QED  BY <1>0, <2>1, <3>1, BytesEmpty
  <2>2. CASE V # {}
    <3>1. PICK e \in V : TRUE
      BY <2>2
    <3> DEFINE U == V \ {e}
    <3>2. U \in P /\ e \in S \ U /\ (S \ U) \ {e} = S \ V
      BY <1>1, <3>1
    <3>3. IsFiniteSet(V) /\ IsFiniteSet(U) /\ IsFiniteSet(S \ U) /\ IsFiniteSet(S \ V)
      BY <1>0, FS_Subset
    <3>4. Sized(q, V) /\ Sized(q, U) /\ Sized(q, S \ U) /\ Sized(q, S \ V) /\ q[e].size \in Nat
      BY DEF Sized
    <3>5. Bytes(q, V) = q[e].size + Bytes(q, U)
      BY <3>3, <3>4, BytesRemove
    <3>6. Bytes(q, S \ U) = q[e].size + Bytes(q, S \ V)
      BY <3>2, <3>3, <3>4, BytesRemove
    <3>7. Bytes(q, S) = Bytes(q, U) + Bytes(q, S \ U)
      BY <3>2
    <3>8. Bytes(q, U) \in Nat /\ Bytes(q, S \ V) \in Nat
      BY <3>3, <3>4, BytesType
    <3> QED  BY <3>4, <3>5, <3>6, <3>7, <3>8
  <2> QED  BY <2>1, <2>2
<1>2. T \in P
  <2> HIDE DEF P
  <2> QED  BY <1>0, <1>1, SubsetInduction
<1> QED  BY <1>2

\* The sum only looks at the events it adds up.
LEMMA BytesSame ==
    ASSUME NEW q, NEW r, NEW S, IsFiniteSet(S), \A i \in S : q[i] = r[i]
    PROVE  Bytes(q, S) = Bytes(r, S)
<1> DEFINE P == {T \in SUBSET S : Bytes(q, T) = Bytes(r, T)}
<1>1. ASSUME NEW T \in SUBSET S, \A U \in SUBSET T : U # T => U \in P PROVE T \in P
  <2>1. CASE T = {}
    BY <2>1, BytesEmpty
  <2>2. CASE T # {}
    <3>1. IsFiniteSet(T)
      BY FS_Subset
    <3>2. /\ Pick(T) \in T
          /\ Bytes(q, T) = q[Pick(T)].size + Bytes(q, T \ {Pick(T)})
          /\ Bytes(r, T) = r[Pick(T)].size + Bytes(r, T \ {Pick(T)})
      BY <2>2, <3>1, BytesPick
    <3>3. Bytes(q, T \ {Pick(T)}) = Bytes(r, T \ {Pick(T)})
      BY <1>1, <3>2
    <3> QED  BY <3>2, <3>3
  <2> QED  BY <2>1, <2>2
<1>2. S \in P
  <2> HIDE DEF P
  <2> QED  BY <1>1, SubsetInduction
<1> QED  BY <1>2

\* A finite set of naturals has a least and a greatest element.
LEMMA Bounds ==
    ASSUME NEW S, IsFiniteSet(S), S \subseteq Nat, NEW e \in S
    PROVE  Min(S) <= e /\ e <= Max(S) /\ Max(S) \in S
<1> DEFINE P == {T \in SUBSET S :
                   T # {} => /\ \E x \in T : \A y \in T : x <= y
                             /\ \E x \in T : \A y \in T : x >= y}
<1>1. ASSUME NEW T \in SUBSET S, \A U \in SUBSET T : U # T => U \in P PROVE T \in P
  <2> SUFFICES ASSUME T # {}
               PROVE  /\ \E x \in T : \A y \in T : x <= y
                      /\ \E x \in T : \A y \in T : x >= y
    OBVIOUS
  <2>1. PICK c \in T : TRUE
    OBVIOUS
  <2>2. CASE T \ {c} = {}
    <3>1. \A y \in T : y = c
      BY <2>2
    <3>2. c <= c /\ c >= c
      OBVIOUS
    <3> QED  BY <3>1, <3>2
  <2>3. CASE T \ {c} # {}
    <3>1. T \ {c} \in P
      BY <1>1
    <3>2. PICK a \in T \ {c} : \A y \in T \ {c} : a <= y
      BY <2>3, <3>1
    <3>3. PICK b \in T \ {c} : \A y \in T \ {c} : b >= y
      BY <2>3, <3>1
    <3>4. a \in Nat /\ b \in Nat /\ c \in Nat /\ T \subseteq Nat
      OBVIOUS
    <3>5. \E x \in T : \A y \in T : x <= y
      <4>1. CASE a <= c
        BY <3>2, <4>1
      <4>2. CASE c <= a
        BY <3>2, <3>4, <4>2
      <4> QED  BY <3>4, <4>1, <4>2
    <3>6. \E x \in T : \A y \in T : x >= y
      <4>1. CASE b >= c
        BY <3>3, <4>1
      <4>2. CASE c >= b
        BY <3>3, <3>4, <4>2
      <4> QED  BY <3>4, <4>1, <4>2
    <3> QED  BY <3>5, <3>6
  <2> QED  BY <2>2, <2>3
<1>2. S \in P
  <2> HIDE DEF P
  <2> QED  BY <1>1, SubsetInduction
<1>3. (\E x \in S : \A y \in S : x <= y) /\ (\E x \in S : \A y \in S : x >= y)
  BY <1>2
<1>4. \A y \in S : Min(S) <= y
  BY <1>3 DEF Min
<1>5. \A y \in S : Max(S) >= y /\ Max(S) \in S
  BY <1>3 DEF Max
<1> QED  BY <1>4, <1>5

-----------------------------------------------------------------------------
(* The inductive invariant *)

\* A request holds accepted events only, unaltered.
Faithful(b) ==
    /\ DOMAIN b \subseteq 1..next - 1
    /\ \A i \in DOMAIN b : b[i] = Accepted[i]

NumbersInv ==
    /\ next \in Nat \ {0} /\ acked \in Nat /\ highest \in Nat
    /\ acked <= highest /\ highest < next

QueueInv ==
    /\ DOMAIN queue = acked + 1..next - 1
    /\ \A i \in DOMAIN queue : queue[i] \in Events

CenterInv ==
    /\ DOMAIN received = 1..highest
    /\ \A i \in DOMAIN received \cap DOMAIN queue : received[i] = queue[i]

RequestInv ==
    /\ waiting => Faithful(batch)
    /\ \A b \in late : Faithful(b)
    /\ reply # NoReply => reply \in Nat /\ reply <= highest

Inv == NumbersInv /\ QueueInv /\ CenterInv /\ RequestInv

-----------------------------------------------------------------------------
(* The effect of the transactions *)

\* enqueue adds one event at the end and leaves the earlier ones as they are.
LEMMA EnqueueEffect ==
    ASSUME Inv, NEW line \in Lines \cup {0},
           NEW size \in OtherSizes \cup {LineSize[l] : l \in Lines},
           Enqueue(line, size), UNCHANGED <<uploader, center>>
    PROVE  /\ Inv'
           /\ \A i \in 1..next - 1 : Accepted'[i] = Accepted[i]
           /\ Accepted'[next] = [line |-> line, size |-> size]
           /\ Accepted'[next] \in Events
           /\ next' = next + 1 /\ acked' = acked
<1> DEFINE e == [line |-> line, size |-> size]
<1>1. e \in Events
  BY DEF Events
<1>2. /\ next' = next + 1 /\ acked' = acked /\ highest' = highest
      /\ received' = received /\ next \in Nat \ {0}
  BY DEF Enqueue, center, Inv, NumbersInv
<1>3. /\ DOMAIN queue' = DOMAIN queue \cup {next}
      /\ queue'[next] = e
      /\ \A i \in DOMAIN queue : i # next => queue'[i] = queue[i]
  BY DEF Enqueue
<1> HIDE DEF e
<1>4. NumbersInv'
  BY <1>2 DEF Inv, NumbersInv
<1>5. QueueInv'
  BY <1>1, <1>2, <1>3 DEF Inv, NumbersInv, QueueInv
<1>6. CenterInv'
  BY <1>2, <1>3 DEF Inv, NumbersInv, QueueInv, CenterInv
<1>7. \A i \in 1..next - 1 : Accepted'[i] = Accepted[i]
  <2> TAKE i \in 1..next - 1
  <2>1. i \in 1..next' - 1 /\ i # next
    BY <1>2
  <2>2. i \notin DOMAIN received => i \in DOMAIN queue
    BY DEF Inv, NumbersInv, QueueInv, CenterInv
  <2> QED  BY <1>2, <1>3, <2>1, <2>2 DEF Accepted
<1>8. Accepted'[next] = e /\ Accepted'[next] \in Events
  <2>1. next \in 1..next' - 1 /\ next \notin DOMAIN received'
    BY <1>2 DEF Inv, NumbersInv, CenterInv
  <2> QED  BY <1>1, <1>3, <2>1 DEF Accepted
<1>9. RequestInv'
  <2>1. batch' = batch /\ waiting' = waiting /\ late' = late /\ reply' = reply
    BY DEF uploader
  <2>2. ASSUME NEW b, Faithful(b) PROVE Faithful(b)'
    BY <1>2, <1>7, <2>2 DEF Faithful
  <2> QED  BY <1>2, <2>1, <2>2 DEF Inv, RequestInv
<1> QED  BY <1>2, <1>4, <1>5, <1>6, <1>7, <1>8, <1>9 DEF Inv, e

\* The center takes up events of a faithful request: what was accepted stays
\* what it was.
LEMMA CenterEffect ==
    ASSUME Inv, NEW b, Faithful(b), NEW n \in DOMAIN b, n > highest,
           Store(b, n), UNCHANGED <<queue, next, acked>>
    PROVE  /\ NumbersInv' /\ QueueInv' /\ CenterInv'
           /\ highest' \in highest + 1..next - 1
           /\ \A i \in 1..next - 1 : Accepted'[i] = Accepted[i]
<1>1. /\ next \in Nat /\ highest \in Nat /\ n \in Nat /\ highest < n /\ n < next
      /\ highest' = n
  BY DEF Inv, NumbersInv, Faithful, Store
<1>2. NumbersInv' /\ QueueInv' /\ highest' \in highest + 1..next - 1
  BY <1>1 DEF Inv, NumbersInv, QueueInv
<1>3. /\ DOMAIN received' = 1..n
      /\ \A i \in 1..highest : received'[i] = received[i]
      /\ \A i \in highest + 1..n : received'[i] = b[i]
  BY <1>1 DEF Inv, CenterInv, Store
<1>4. \A i \in highest + 1..n : i \in DOMAIN b /\ b[i] = queue[i] /\ i \in DOMAIN queue
  <2> TAKE i \in highest + 1..n
  <2>1. i \in DOMAIN b /\ b[i] = Accepted[i] /\ i \in 1..next - 1
    BY <1>1 DEF Store, Faithful
  <2>2. i \notin DOMAIN received /\ i \in DOMAIN queue
    BY <1>1, <2>1 DEF Inv, NumbersInv, CenterInv, QueueInv
  <2> QED  BY <2>1, <2>2 DEF Accepted
<1>5. CenterInv'
  BY <1>1, <1>3, <1>4 DEF Inv, CenterInv, QueueInv, NumbersInv
<1>6. \A i \in 1..next - 1 : Accepted'[i] = Accepted[i]
  <2> TAKE i \in 1..next - 1
  <2>1. CASE i \in 1..highest
    BY <1>1, <1>3, <2>1 DEF Accepted, Inv, CenterInv
  <2>2. CASE i \in highest + 1..n
    BY <1>1, <1>3, <1>4, <2>2 DEF Accepted, Inv, CenterInv
  <2>3. CASE i > n
    BY <1>1, <1>3, <2>3 DEF Accepted, Inv, CenterInv
  <2> QED  BY <1>1, <2>1, <2>2, <2>3
<1> QED  BY <1>2, <1>5, <1>6

\* Acknowledge deletes only what the center has.
LEMMA AcknowledgeEffect ==
    ASSUME Inv, NEW seq \in Nat, seq <= highest, Acknowledge(seq), UNCHANGED center
    PROVE  /\ NumbersInv' /\ QueueInv' /\ CenterInv'
           /\ acked' = acked \/ acked' \in acked + 1..highest
           /\ next' = next
           /\ \A i \in 1..next - 1 : Accepted'[i] = Accepted[i]
<1>1. CASE seq < acked
  BY <1>1 DEF Acknowledge, center, store, Inv, NumbersInv, QueueInv, CenterInv, Accepted
<1>2. CASE ~(seq < acked)
  <2>1. /\ acked' = seq /\ next' = next /\ highest' = highest /\ received' = received
        /\ queue' = [i \in DOMAIN queue \ {i \in DOMAIN queue : i <= seq} |-> queue[i]]
    BY <1>2 DEF Acknowledge, center
  <2>2. acked' \in Nat /\ (acked' = acked \/ acked' \in acked + 1..highest)
    BY <1>2, <2>1 DEF Inv, NumbersInv
  <2>3. /\ DOMAIN queue' = acked' + 1..next' - 1
        /\ \A i \in DOMAIN queue' : i \in DOMAIN queue /\ queue'[i] = queue[i]
    BY <1>2, <2>1 DEF Inv, NumbersInv, QueueInv
  <2>4. NumbersInv' /\ QueueInv' /\ CenterInv'
    BY <2>1, <2>2, <2>3 DEF Inv, NumbersInv, QueueInv, CenterInv
  <2>5. \A i \in 1..next - 1 : Accepted'[i] = Accepted[i]
    <3> TAKE i \in 1..next - 1
    <3>1. CASE i \in DOMAIN received
      BY <2>1, <3>1 DEF Accepted
    <3>2. CASE i \notin DOMAIN received
      <4>1. i \in DOMAIN queue'
        BY <2>1, <2>3, <3>2 DEF Inv, NumbersInv, CenterInv
      <4> QED  BY <2>1, <2>3, <3>2, <4>1 DEF Accepted
    <3> QED  BY <3>1, <3>2
  <2> QED  BY <2>1, <2>2, <2>4, <2>5
<1> QED  BY <1>1, <1>2

-----------------------------------------------------------------------------
(* Every step, against the invariant and against the abstract queue *)

\* What a step may do to the numbers and to the accepted events.
QueueStep ==
    /\ \A i \in 1..next - 1 : Accepted'[i] = Accepted[i]
    /\ \/ /\ next' = next + 1 /\ Accepted'[next] \in Events
          /\ UNCHANGED <<highest, acked>>
       \/ /\ highest' \in highest + 1..next - 1
          /\ UNCHANGED <<next, acked>>
       \/ /\ acked' \in acked + 1..highest
          /\ UNCHANGED <<next, highest>>
       \/ UNCHANGED <<next, highest, acked>>

\* A step that touches neither the queue nor the center.
LEMMA Unrelated ==
    ASSUME Inv, UNCHANGED <<queue, next, acked, received, highest>>
    PROVE  /\ NumbersInv' /\ QueueInv' /\ CenterInv'
           /\ Accepted' = Accepted
           /\ QueueStep
           /\ \A b : Faithful(b) => Faithful(b)'
<1>1. Accepted' = Accepted
  BY DEF Accepted
<1>2. NumbersInv' /\ QueueInv' /\ CenterInv'
  BY DEF Inv, NumbersInv, QueueInv, CenterInv
<1>3. \A b : Faithful(b) => Faithful(b)'
  BY <1>1 DEF Faithful
<1> QED  BY <1>1, <1>2, <1>3 DEF QueueStep

\* Requests stay faithful when no accepted event changes.
LEMMA StillFaithful ==
    ASSUME NEW b, Faithful(b), next' = next,
           \A i \in 1..next - 1 : Accepted'[i] = Accepted[i]
    PROVE  Faithful(b)'
  BY DEF Faithful

\* Every step keeps the inductive invariant and is a step of the abstract
\* queue, or leaves it alone.
LEMMA Step ==
    ASSUME Inv, [Next]_vars
    PROVE  Inv' /\ QueueStep
<1>1. CASE CollectLine
  <2>1. checkpoint + 1 \in Lines /\ Enqueue(checkpoint + 1, LineSize[checkpoint + 1])
        /\ UNCHANGED <<uploader, center>>
    BY <1>1 DEF CollectLine
  <2> QED  BY <2>1, EnqueueEffect DEF QueueStep, center
<1>2. CASE SkipLine
  <2>1. UNCHANGED <<store, uploader, center>>
    BY <1>2 DEF SkipLine
  <2> QED  BY <2>1, Unrelated DEF store, uploader, center, Inv, RequestInv
<1>3. ASSUME NEW s \in OtherSizes, ProduceOther(s)
      PROVE  Inv' /\ QueueStep
  <2>1. CASE Enqueue(0, s)
    <3>1. UNCHANGED <<uploader, center>>
      BY <1>3 DEF ProduceOther
    <3> QED  BY <2>1, <3>1, EnqueueEffect DEF QueueStep, center
  <2>2. CASE UNCHANGED store
    <3>1. UNCHANGED <<uploader, center>>
      BY <1>3 DEF ProduceOther
    <3> QED  BY <2>2, <3>1, Unrelated DEF store, uploader, center, Inv, RequestInv
  <2> QED  BY <1>3, <2>1, <2>2 DEF ProduceOther
<1>4. CASE Send
  <2>1. UNCHANGED <<store, center, late>> /\ reply' = NoReply
        /\ batch' = [i \in BatchWindow |-> queue[i]]
    BY <1>4 DEF Send
  <2>2. BatchWindow \subseteq DOMAIN queue
    BY DEF BatchWindow
  <2> HIDE DEF BatchWindow
  <2>3. Faithful(batch')
    <3>1. \A i \in DOMAIN queue : i \in 1..next - 1 /\ queue[i] = Accepted[i]
      BY DEF Accepted, Inv, NumbersInv, QueueInv, CenterInv
    <3> QED  BY <2>1, <2>2, <3>1 DEF Faithful
  <2>4. NumbersInv' /\ QueueInv' /\ CenterInv' /\ QueueStep
        /\ \A b : Faithful(b) => Faithful(b)'
    BY <2>1, Unrelated DEF store, center
  <2>5. Accepted' = Accepted /\ next' = next
    BY <2>1, Unrelated DEF store, center
  <2>6. RequestInv'
    <3>1. Faithful(batch)'
      BY <2>3, <2>5 DEF Faithful
    <3>2. \A b \in late' : Faithful(b)'
      BY <2>1, <2>4 DEF Inv, RequestInv
    <3> QED  BY <2>1, <3>1, <3>2 DEF RequestInv
  <2> QED  BY <2>4, <2>6 DEF Inv
<1>5. CASE HandleReply
  <2>1. waiting' = FALSE /\ late' = late /\ reply' = NoReply /\ UNCHANGED center
    BY <1>5 DEF HandleReply
  <2>2. CASE Acknowledge(reply)
    <3>1. reply \in Nat /\ reply <= highest
      BY <1>5 DEF HandleReply, Inv, RequestInv
    <3>2. /\ NumbersInv' /\ QueueInv' /\ CenterInv'
          /\ acked' = acked \/ acked' \in acked + 1..highest
          /\ next' = next
          /\ \A i \in 1..next - 1 : Accepted'[i] = Accepted[i]
      BY <2>1, <2>2, <3>1, AcknowledgeEffect
    <3>3. RequestInv'
      BY <2>1, <3>2, StillFaithful DEF Inv, RequestInv
    <3> QED  BY <2>1, <3>2, <3>3 DEF Inv, QueueStep, center
  <2>3. CASE UNCHANGED store
    BY <2>1, <2>3, Unrelated DEF store, center, Inv, RequestInv
  <2> QED  BY <1>5, <2>2, <2>3 DEF HandleReply
<1>6. CASE UploadFails \/ Crash
  <2>1. /\ waiting /\ waiting' = FALSE /\ reply' = NoReply
        /\ late' \subseteq late \cup {batch} /\ UNCHANGED <<store, center>>
    BY <1>6 DEF UploadFails, Crash, Abandon
  <2> QED  BY <2>1, Unrelated DEF store, center, Inv, RequestInv
<1>7. CASE CenterReceive
  <2>1. /\ waiting /\ UNCHANGED <<store, batch, waiting, late>> /\ reply' = highest'
        /\ \/ \E n \in DOMAIN batch : n > highest /\ Store(batch, n)
           \/ UNCHANGED center
    BY <1>7 DEF CenterReceive
  <2>2. CASE \E n \in DOMAIN batch : n > highest /\ Store(batch, n)
    <3>1. PICK n \in DOMAIN batch : n > highest /\ Store(batch, n)
      BY <2>2
    <3>2. /\ NumbersInv' /\ QueueInv' /\ CenterInv'
          /\ highest' \in highest + 1..next - 1
          /\ \A i \in 1..next - 1 : Accepted'[i] = Accepted[i]
      BY <2>1, <3>1, CenterEffect DEF store, Inv, RequestInv
    <3>3. RequestInv'
      BY <2>1, <3>2, StillFaithful DEF Inv, RequestInv, NumbersInv, store
    <3> QED  BY <2>1, <3>2, <3>3 DEF Inv, QueueStep, store
  <2>3. CASE UNCHANGED center
    <3>1. NumbersInv' /\ QueueInv' /\ CenterInv' /\ QueueStep
          /\ \A b : Faithful(b) => Faithful(b)'
      BY <2>1, <2>3, Unrelated DEF store, center
    <3>2. RequestInv'
      BY <2>1, <3>1 DEF Inv, RequestInv, NumbersInv
    <3> QED  BY <3>1, <3>2 DEF Inv
  <2> QED  BY <2>1, <2>2, <2>3
<1>8. CASE CenterReceiveLate
  <2>1. PICK b \in late :
           /\ late' = late \ {b} /\ UNCHANGED <<store, batch, waiting, reply>>
           /\ \/ \E n \in DOMAIN b : n > highest /\ Store(b, n)
              \/ UNCHANGED center
    BY <1>8 DEF CenterReceiveLate
  <2>2. CASE \E n \in DOMAIN b : n > highest /\ Store(b, n)
    <3>1. PICK n \in DOMAIN b : n > highest /\ Store(b, n)
      BY <2>2
    <3>2. /\ NumbersInv' /\ QueueInv' /\ CenterInv'
          /\ highest' \in highest + 1..next - 1
          /\ \A i \in 1..next - 1 : Accepted'[i] = Accepted[i]
      BY <2>1, <3>1, CenterEffect DEF store, Inv, RequestInv
    <3>3. RequestInv'
      BY <2>1, <3>2, StillFaithful DEF Inv, RequestInv, NumbersInv, store
    <3> QED  BY <2>1, <3>2, <3>3 DEF Inv, QueueStep, store
  <2>3. CASE UNCHANGED center
    BY <2>1, <2>3, Unrelated DEF store, center, Inv, RequestInv
  <2> QED  BY <2>1, <2>2, <2>3
<1>9. CASE UNCHANGED vars
  BY <1>9, Unrelated DEF vars, store, uploader, center, Inv, RequestInv
<1> QED
  BY <1>1, <1>2, <1>3, <1>4, <1>5, <1>6, <1>7, <1>8, <1>9 DEF Next, Produce

-----------------------------------------------------------------------------
(* Store's accounting *)

\* Sizes of events are naturals.
LEMMA EventSizes == \A e \in Events : e.size \in Nat /\ e.line \in Nat
<1>1. \A l \in Lines : l \in Nat /\ LineSize[l] \in Nat
  BY SpoolAssumption DEF Lines
<1>2. OtherSizes \subseteq Nat
  BY SpoolAssumption
<1>3. {LineSize[l] : l \in Lines} \subseteq Nat
  BY <1>1
<1>4. Lines \cup {0} \subseteq Nat
  BY <1>1
<1> QED  BY <1>2, <1>3, <1>4 DEF Events

\* The queue is finite, and so is the size of each of its parts.
LEMMA QueueSized ==
    ASSUME Inv
    PROVE  /\ IsFiniteSet(DOMAIN queue) /\ Sized(queue, DOMAIN queue)
           /\ \A S \in SUBSET DOMAIN queue : IsFiniteSet(S) /\ Sized(queue, S)
                                             /\ Bytes(queue, S) \in Nat
<1>1. IsFiniteSet(DOMAIN queue)
  <2>1. acked + 1 \in Int /\ next - 1 \in Int
    BY DEF Inv, NumbersInv
  <2> QED  BY <2>1, FS_Interval DEF Inv, QueueInv
<1>2. Sized(queue, DOMAIN queue)
  BY EventSizes DEF Inv, QueueInv, Sized
<1>3. ASSUME NEW S \in SUBSET DOMAIN queue
      PROVE  IsFiniteSet(S) /\ Sized(queue, S) /\ Bytes(queue, S) \in Nat
  <2>1. IsFiniteSet(S)
    BY <1>1, FS_Subset
  <2>2. Sized(queue, S)
    BY <1>2 DEF Sized
  <2> QED  BY <2>1, <2>2, BytesType
<1> QED  BY <1>1, <1>2, <1>3

\* The limits are naturals.
LEMMA Limits ==
    /\ MaxBytes \in Nat /\ MaxEvents \in Nat /\ BatchBytes \in Nat
    /\ BatchEvents \in Nat /\ BatchEvents > 0
  BY SpoolAssumption

\* enqueue counts the event it adds, and adds it only when it fits.
LEMMA EnqueueAccount ==
    ASSUME Inv, AccountingIsExact, NEW line, NEW size \in Nat, Enqueue(line, size)
    PROVE  AccountingIsExact'
<1> DEFINE D == DOMAIN queue
<1>1. next \notin D
  BY DEF Inv, NumbersInv, QueueInv
<1>2. /\ DOMAIN queue' = D \cup {next}
      /\ queue'[next].size = size
      /\ \A i \in D : queue'[i] = queue[i]
  BY <1>1 DEF Enqueue
<1>3. IsFiniteSet(D) /\ Sized(queue, D) /\ Bytes(queue, D) \in Nat
  BY QueueSized
<1> HIDE DEF D
<1>4. IsFiniteSet(D \cup {next}) /\ Cardinality(D \cup {next}) = Cardinality(D) + 1
  BY <1>1, <1>3, FS_AddElement
<1>5. Bytes(queue', D \cup {next}) = size + Bytes(queue, D)
  <2>1. Sized(queue', D \cup {next})
    BY <1>2, <1>3 DEF Sized
  <2>2. Bytes(queue', D \cup {next}) = size + Bytes(queue', (D \cup {next}) \ {next})
    BY <1>2, <1>4, <2>1, BytesRemove
  <2>3. (D \cup {next}) \ {next} = D
    BY <1>1
  <2>4. Bytes(queue', D) = Bytes(queue, D)
    BY <1>2, <1>3, BytesSame
  <2> QED  BY <2>2, <2>3, <2>4
<1>6. Cardinality(D) \in Nat
  BY <1>3, FS_CardinalityType
<1>7. /\ pendingEvents = Cardinality(D) /\ pendingBytes = Bytes(queue, D)
      /\ pendingEvents' = pendingEvents + 1 /\ pendingBytes' = pendingBytes + size
      /\ ~(size + pendingBytes > MaxBytes \/ pendingEvents >= MaxEvents)
  BY DEF AccountingIsExact, Enqueue, Full, D
<1>8. /\ pendingEvents' = Cardinality(DOMAIN queue') /\ pendingEvents' <= MaxEvents
  BY <1>2, <1>4, <1>6, <1>7, Limits
<1>9. pendingBytes' = Bytes(queue', DOMAIN queue') /\ pendingBytes' <= MaxBytes
  BY <1>2, <1>3, <1>5, <1>7, Limits
<1> QED  BY <1>8, <1>9 DEF AccountingIsExact

\* Acknowledge uncounts what it deletes.
LEMMA AcknowledgeAccount ==
    ASSUME Inv, AccountingIsExact, NEW seq, Acknowledge(seq)
    PROVE  AccountingIsExact'
<1>1. CASE seq < acked
  BY <1>1 DEF Acknowledge, store, AccountingIsExact
<1>2. CASE ~(seq < acked)
  <2> DEFINE D == DOMAIN queue
             gone == {i \in D : i <= seq}
  <2>1. /\ queue' = [i \in D \ gone |-> queue[i]]
        /\ pendingBytes' = pendingBytes - Bytes(queue, gone)
        /\ pendingEvents' = pendingEvents - Cardinality(gone)
    BY <1>2 DEF Acknowledge
  <2>2. gone \in SUBSET D
    OBVIOUS
  <2> HIDE DEF gone
  <2>3. DOMAIN queue' = D \ gone /\ \A i \in D \ gone : queue'[i] = queue[i]
    BY <2>1
  <2>4. /\ IsFiniteSet(D) /\ Sized(queue, D) /\ Bytes(queue, D) \in Nat
        /\ IsFiniteSet(gone) /\ Bytes(queue, gone) \in Nat
        /\ IsFiniteSet(D \ gone) /\ Bytes(queue, D \ gone) \in Nat
    <3>1. D \ gone \in SUBSET D
      OBVIOUS
    <3> QED  BY <2>2, <3>1, QueueSized
  <2>5. pendingEvents = Cardinality(D) /\ pendingBytes = Bytes(queue, D)
        /\ pendingBytes <= MaxBytes /\ pendingEvents <= MaxEvents
    BY DEF AccountingIsExact
  <2> HIDE DEF D
  <2>6. Cardinality(D \ gone) = Cardinality(D) - Cardinality(gone)
    <3>1. D \cap gone = gone
      BY <2>2
    <3> QED  BY <2>4, <3>1, FS_Difference
  <2>7. Cardinality(D) \in Nat /\ Cardinality(gone) \in Nat
    BY <2>4, FS_CardinalityType
  <2>8. Bytes(queue, D) = Bytes(queue, gone) + Bytes(queue, D \ gone)
    BY <2>2, <2>4, BytesSplit
  <2>9. Bytes(queue', D \ gone) = Bytes(queue, D \ gone)
    BY <2>3, <2>4, BytesSame
  <2>10. pendingEvents' = Cardinality(DOMAIN queue') /\ pendingEvents' <= MaxEvents
    BY <2>1, <2>3, <2>5, <2>6, <2>7, Limits
  <2>11. pendingBytes' = Bytes(queue', DOMAIN queue') /\ pendingBytes' <= MaxBytes
    BY <2>1, <2>3, <2>4, <2>5, <2>8, <2>9, Limits
  <2> QED  BY <2>10, <2>11 DEF AccountingIsExact
<1> QED  BY <1>1, <1>2

\* Every step keeps the counters exact.
LEMMA AccountStep ==
    ASSUME Inv, AccountingIsExact, [Next]_vars
    PROVE  AccountingIsExact'
<1>0. ASSUME UNCHANGED store PROVE AccountingIsExact'
  BY <1>0 DEF store, AccountingIsExact
<1>1. CASE CollectLine
  <2>1. LineSize[checkpoint + 1] \in Nat /\ Enqueue(checkpoint + 1, LineSize[checkpoint + 1])
    BY <1>1, SpoolAssumption DEF CollectLine, Lines
  <2> QED  BY <2>1, EnqueueAccount
<1>2. CASE SkipLine
  BY <1>0, <1>2 DEF SkipLine
<1>3. ASSUME NEW s \in OtherSizes, ProduceOther(s)
      PROVE  AccountingIsExact'
  <2>1. s \in Nat
    BY SpoolAssumption
  <2> QED  BY <1>0, <1>3, <2>1, EnqueueAccount DEF ProduceOther
<1>4. CASE Send \/ UploadFails \/ Crash \/ CenterReceive \/ CenterReceiveLate
  BY <1>0, <1>4 DEF Send, UploadFails, Crash, CenterReceive, CenterReceiveLate
<1>5. CASE HandleReply
  BY <1>0, <1>5, AcknowledgeAccount DEF HandleReply
<1>6. CASE UNCHANGED vars
  BY <1>0, <1>6 DEF vars
<1> QED
  BY <1>1, <1>2, <1>3, <1>4, <1>5, <1>6 DEF Next, Produce

-----------------------------------------------------------------------------
(* Types *)

\* The sequence numbers of a queue.
LEMMA Numbers ==
    ASSUME NEW a \in Nat, NEW n \in Nat
    PROVE  /\ a + 1..n - 1 \subseteq Nat \ {0}
           /\ \A i \in a + 1..n - 1 : i \in Nat /\ a < i /\ i < n
  OBVIOUS

\* Every step keeps the state well formed; the sums are naturals because the
\* counters are exact.
LEMMA TypeStep ==
    ASSUME Inv, TypeOK, Inv', AccountingIsExact', [Next]_vars
    PROVE  TypeOK'
<1>1. IsEventMap(queue') /\ next' \in Nat \ {0} /\ acked' \in Nat /\ highest' \in Nat
  <2>1. next' \in Nat \ {0} /\ acked' \in Nat /\ highest' \in Nat
    BY DEF Inv, NumbersInv
  <2>2. DOMAIN queue' \subseteq Nat \ {0}
    <3>1. DOMAIN queue' = acked' + 1..next' - 1
      BY DEF Inv, QueueInv
    <3> QED  BY <2>1, <3>1, Numbers
  <2>3. \A i \in DOMAIN queue' : queue'[i] \in Events
    BY DEF Inv, QueueInv
  <2> QED  BY <2>1, <2>2, <2>3 DEF IsEventMap
<1>2. pendingBytes' \in Int /\ pendingEvents' \in Int
  <2>1. IsFiniteSet(DOMAIN queue')
    <3>1. acked' + 1 \in Int /\ next' - 1 \in Int
      BY <1>1
    <3> QED  BY <3>1, FS_Interval DEF Inv, QueueInv
  <2>2. Sized(queue', DOMAIN queue')
    BY <1>1, EventSizes DEF IsEventMap, Sized
  <2>3. Bytes(queue', DOMAIN queue') \in Nat /\ Cardinality(DOMAIN queue') \in Nat
    BY <2>1, <2>2, BytesType, FS_CardinalityType
  <2> QED  BY <2>3 DEF AccountingIsExact
<1>3. IsEventMap(Empty)
  <2>1. DOMAIN Empty = {}
    BY DEF Empty
  <2> QED  BY <2>1 DEF IsEventMap
<1>4. IsEventMap(batch')
  <2>1. CASE Send
    <3>1. BatchWindow \subseteq DOMAIN queue
      BY DEF BatchWindow
    <3> QED  BY <2>1, <3>1 DEF Send, IsEventMap, TypeOK
  <2>2. CASE batch' = batch \/ batch' = Empty
    BY <1>3, <2>2 DEF TypeOK
  <2> QED
    BY <2>1, <2>2 DEF Next, vars, Produce, CollectLine, SkipLine, ProduceOther,
       HandleReply, UploadFails, Crash, CenterReceive, CenterReceiveLate, uploader
<1>5. IsEventMap(received')
  <2>1. ASSUME NEW b, IsEventMap(b), NEW n, Store(b, n) PROVE IsEventMap(received')
    <3>1. DOMAIN received' = DOMAIN received \cup (highest + 1..n)
          /\ highest + 1..n \subseteq DOMAIN b
      BY <2>1 DEF Store
    <3>2. \A i \in DOMAIN received' :
             received'[i] = (IF i \in DOMAIN received THEN received[i] ELSE b[i])
      BY <2>1 DEF Store
    <3> QED  BY <2>1, <3>1, <3>2 DEF IsEventMap, TypeOK
  <2>2. CASE CenterReceive
    BY <2>1, <2>2 DEF CenterReceive, center, TypeOK
  <2>3. CASE CenterReceiveLate
    BY <2>1, <2>3 DEF CenterReceiveLate, center, TypeOK
  <2>4. CASE received' = received
    BY <2>4 DEF TypeOK
  <2> QED
    BY <2>2, <2>3, <2>4 DEF Next, vars, Produce, CollectLine, SkipLine, ProduceOther,
       Send, HandleReply, UploadFails, Crash, center
<1>6. late' \subseteq late \cup {batch}
  BY DEF Next, vars, Produce, CollectLine, SkipLine, ProduceOther, Send, Abandon,
     HandleReply, UploadFails, Crash, CenterReceive, CenterReceiveLate, uploader
<1>7. lastError' \in BOOLEAN
  BY Zenon DEF TypeOK, Next, vars, Produce, CollectLine, SkipLine, ProduceOther, Send,
     HandleReply, Acknowledge, UploadFails, Crash, CenterReceive, CenterReceiveLate
<1>8. waiting' \in BOOLEAN
  BY Zenon DEF TypeOK, Next, vars, Produce, CollectLine, SkipLine, ProduceOther, Send,
     HandleReply, UploadFails, Crash, CenterReceive, CenterReceiveLate, uploader
<1>9. reply' \in Nat \cup {NoReply}
  <2>1. reply' \in {reply, NoReply, highest'}
    BY DEF Next, vars, Produce, CollectLine, SkipLine, ProduceOther, Send,
       HandleReply, UploadFails, Crash, CenterReceive, CenterReceiveLate, uploader
  <2> QED  BY <1>1, <2>1 DEF TypeOK
<1>10. dropped' \in Nat /\ checkpoint' \in Nat /\ failures' \in Nat
  <2>1. /\ dropped' \in {dropped, dropped + 1} /\ checkpoint' \in {checkpoint, checkpoint + 1}
        /\ failures' \in {failures, failures + 1}
    BY DEF Next, vars, Produce, CollectLine, SkipLine, ProduceOther, Send,
       HandleReply, UploadFails, Crash, CenterReceive, CenterReceiveLate
  <2> QED  BY <2>1 DEF TypeOK
<1> QED
  BY <1>1, <1>2, <1>4, <1>5, <1>6, <1>7, <1>8, <1>9, <1>10 DEF TypeOK

-----------------------------------------------------------------------------
(* Access lines *)

\* What was accepted so far are the lines up to the checkpoint.
LinesInv == checkpoint \in Nat /\ LinesExactlyOnce

\* Every step queues a line and moves the checkpoint behind it, or does
\* neither.
LEMMA LinesStep ==
    ASSUME Inv, LinesInv, QueueStep, [Next]_vars
    PROVE  LinesInv'
<1> DEFINE Seqs == {i \in 1..next - 1 : Accepted[i].line > 0}
           Upto(c) == {l \in Lines : l <= c /\ LineSize[l] > 0}
<1>0. /\ next \in Nat \ {0} /\ checkpoint \in Nat
      /\ \A i \in 1..next - 1 : Accepted'[i] = Accepted[i]
      /\ \A i, j \in Seqs : i < j => Accepted[i].line < Accepted[j].line
      /\ {Accepted[i].line : i \in Seqs} = Upto(checkpoint)
      /\ \A l \in Lines : l \in Nat
  <2>1. next \in Nat \ {0} /\ checkpoint \in Nat
    BY DEF Inv, NumbersInv, LinesInv
  <2>2. \A i \in 1..next - 1 : Accepted'[i] = Accepted[i]
    BY DEF QueueStep
  <2>3. /\ \A i, j \in Seqs : i < j => Accepted[i].line < Accepted[j].line
        /\ {Accepted[i].line : i \in Seqs} = Upto(checkpoint)
    BY DEF LinesInv, LinesExactlyOnce
  <2>4. \A l \in Lines : l \in Nat
    BY SpoolAssumption DEF Lines
  <2> QED  BY <2>1, <2>2, <2>3, <2>4
<1>1. ASSUME next' = next, checkpoint' \in Nat, Upto(checkpoint') = Upto(checkpoint)
      PROVE  LinesInv'
  <2>1. {i \in 1..next' - 1 : Accepted'[i].line > 0} = Seqs
    BY <1>0, <1>1
  <2>2. {Accepted'[i].line : i \in Seqs} = {Accepted[i].line : i \in Seqs}
    BY <1>0
  <2>3. \A i, j \in Seqs : i < j => Accepted'[i].line < Accepted'[j].line
    BY <1>0
  <2> QED  BY <1>0, <1>1, <2>1, <2>2, <2>3 DEF LinesInv, LinesExactlyOnce
<1>2. CASE CollectLine
  <2> DEFINE c == checkpoint + 1
  <2>1. /\ c \in Lines /\ LineSize[c] > 0 /\ Enqueue(c, LineSize[c]) /\ checkpoint' = c
        /\ UNCHANGED <<uploader, center>>
    BY <1>2 DEF CollectLine
  <2>2. Accepted'[next] = [line |-> c, size |-> LineSize[c]] /\ next' = next + 1
    BY <2>1, EnqueueEffect
  <2>3. Accepted'[next].line = c /\ c > 0
    BY <1>0, <2>2
  <2>4. {i \in 1..next' - 1 : Accepted'[i].line > 0} = Seqs \cup {next}
    BY <1>0, <2>2, <2>3
  <2>5. \A i \in Seqs : Accepted'[i] = Accepted[i] /\ Accepted[i].line < c /\ i < next
    <3> TAKE i \in Seqs
    <3>1. Accepted[i].line \in Upto(checkpoint)
      BY <1>0
    <3> QED  BY <1>0, <3>1
  <2>6. \A i, j \in Seqs \cup {next} : i < j => Accepted'[i].line < Accepted'[j].line
    BY <1>0, <2>3, <2>5
  <2>7. Upto(c) = Upto(checkpoint) \cup {c}
    BY <1>0, <2>1
  <2>8. {Accepted'[i].line : i \in Seqs \cup {next}} = {Accepted[i].line : i \in Seqs} \cup {c}
    BY <2>3, <2>5
  <2> HIDE DEF Seqs
  <2> QED  BY <1>0, <2>1, <2>4, <2>6, <2>7, <2>8 DEF LinesInv, LinesExactlyOnce
<1>3. CASE SkipLine
  <2>1. /\ checkpoint + 1 \in Lines /\ LineSize[checkpoint + 1] = 0
        /\ checkpoint' = checkpoint + 1 /\ next' = next
    BY <1>3 DEF SkipLine, store
  <2>2. Upto(checkpoint + 1) = Upto(checkpoint)
    BY <1>0, <2>1
  <2> QED  BY <1>0, <1>1, <2>1, <2>2
<1>4. ASSUME NEW s \in OtherSizes, ProduceOther(s)
      PROVE  LinesInv'
  <2>1. checkpoint' = checkpoint /\ UNCHANGED <<uploader, center>>
    BY <1>4 DEF ProduceOther
  <2>2. CASE Enqueue(0, s)
    <3>1. Accepted'[next] = [line |-> 0, size |-> s] /\ next' = next + 1
      BY <2>1, <2>2, EnqueueEffect
    <3>2. Accepted'[next].line = 0
      BY <3>1
    <3>3. {i \in 1..next' - 1 : Accepted'[i].line > 0} = Seqs
      BY <1>0, <3>1, <3>2
    <3>4. {Accepted'[i].line : i \in Seqs} = {Accepted[i].line : i \in Seqs}
      BY <1>0
    <3>5. \A i, j \in Seqs : i < j => Accepted'[i].line < Accepted'[j].line
      BY <1>0
    <3> QED  BY <1>0, <2>1, <3>3, <3>4, <3>5 DEF LinesInv, LinesExactlyOnce
  <2>3. CASE UNCHANGED store
    BY <1>0, <1>1, <2>1, <2>3 DEF store
  <2> QED  BY <1>4, <2>2, <2>3 DEF ProduceOther
<1>5. CASE next' = next /\ checkpoint' = checkpoint
  BY <1>0, <1>1, <1>5
<1> QED
  BY <1>2, <1>3, <1>4, <1>5 DEF Next, Produce, Send, HandleReply, Acknowledge, UploadFails,
     Crash, CenterReceive, CenterReceiveLate, store, vars

-----------------------------------------------------------------------------
(* The reach of a retried batch *)

\* What was sent and is not acknowledged is sent again: an event of an
\* earlier request is still in the window of the next batch, so the center
\* never has more than the request that is under way reaches.
WindowInv ==
    /\ highest > acked => highest \in BatchWindow
    /\ \A b \in late : \A i \in DOMAIN b : i > acked => i \in BatchWindow
    /\ waiting =>
          /\ DOMAIN batch \subseteq BatchWindow
          /\ acked + 1 \in DOMAIN batch
          /\ highest > acked => highest \in DOMAIN batch
          /\ \A b \in late : \A i \in DOMAIN b : i > acked => i \in DOMAIN batch
    /\ reply # NoReply => waiting /\ reply \in DOMAIN batch

\* The window of a queue that holds the events from a + 1 up to n - 1.
InWindow(q, a, n, i) ==
    /\ i \in a + 1..n - 1
    /\ \/ i = a + 1
       \/ i - a - 1 < BatchEvents /\ Bytes(q, a + 1..i) <= BatchBytes

\* Batch, over a queue without gaps.
LEMMA WindowOfQueue ==
    ASSUME NEW q, NEW a \in Nat, NEW n \in Nat, DOMAIN q = a + 1..n - 1, NEW i \in DOMAIN q
    PROVE  /\ Min(DOMAIN q) = a + 1
           /\ Cardinality({j \in DOMAIN q : j < i}) = i - a - 1
           /\ {j \in DOMAIN q : j <= i} = a + 1..i
<1>1. i \in Nat /\ a + 1 <= i /\ a + 1 \in DOMAIN q /\ \A j \in DOMAIN q : a + 1 <= j /\ j \in Nat
  OBVIOUS
<1>2. Min(DOMAIN q) = a + 1
  <2>1. \E x \in DOMAIN q : \A y \in DOMAIN q : x <= y
    BY <1>1
  <2>2. Min(DOMAIN q) \in DOMAIN q /\ \A y \in DOMAIN q : Min(DOMAIN q) <= y
    BY <2>1 DEF Min
  <2>3. Min(DOMAIN q) <= a + 1 /\ a + 1 <= Min(DOMAIN q) /\ Min(DOMAIN q) \in Nat
    BY <1>1, <2>2
  <2> QED  BY <2>3
<1>3. {j \in DOMAIN q : j <= i} = a + 1..i
  OBVIOUS
<1>4. Cardinality({j \in DOMAIN q : j < i}) = i - a - 1
  <2>1. {j \in DOMAIN q : j < i} = a + 1..i - 1
    OBVIOUS
  <2>2. a + 1 \in Int /\ i - 1 \in Int
    BY <1>1
  <2>3. Cardinality(a + 1..i - 1) = (IF a + 1 > i - 1 THEN 0 ELSE (i - 1) - (a + 1) + 1)
    BY <2>2, FS_Interval
  <2>4. (IF a + 1 > i - 1 THEN 0 ELSE (i - 1) - (a + 1) + 1) = i - a - 1
    BY <1>1
  <2> QED  BY <2>1, <2>3, <2>4
<1> QED  BY <1>2, <1>3, <1>4

\* The window before a step.
LEMMA WindowIs ==
    ASSUME Inv
    PROVE  \A i : i \in BatchWindow <=> InWindow(queue, acked, next, i)
<1>1. acked \in Nat /\ next \in Nat /\ DOMAIN queue = acked + 1..next - 1
  BY DEF Inv, NumbersInv, QueueInv
<1> TAKE i
<1>2. CASE i \in DOMAIN queue
  <2>1. /\ First = acked + 1
        /\ Cardinality({j \in DOMAIN queue : j < i}) = i - acked - 1
        /\ {j \in DOMAIN queue : j <= i} = acked + 1..i
    BY <1>1, <1>2, WindowOfQueue, ZenonT(30) DEF First
  <2> QED  BY <1>1, <1>2, <2>1, Zenon DEF BatchWindow, InWindow
<1>3. CASE i \notin DOMAIN queue
  BY <1>1, <1>3 DEF BatchWindow, InWindow
<1> QED  BY <1>2, <1>3

\* The window after a step.
LEMMA WindowIsNext ==
    ASSUME Inv'
    PROVE  \A i : i \in BatchWindow' <=> InWindow(queue', acked', next', i)
<1>1. acked' \in Nat /\ next' \in Nat /\ DOMAIN queue' = acked' + 1..next' - 1
  BY DEF Inv, NumbersInv, QueueInv
<1> TAKE i
<1>2. CASE i \in DOMAIN queue'
  <2>1. /\ First' = acked' + 1
        /\ Cardinality({j \in DOMAIN queue' : j < i}) = i - acked' - 1
        /\ {j \in DOMAIN queue' : j <= i} = acked' + 1..i
    BY <1>1, <1>2, WindowOfQueue, ZenonT(30) DEF First
  <2> QED  BY <1>1, <1>2, <2>1, Zenon DEF BatchWindow, InWindow
<1>3. CASE i \notin DOMAIN queue'
  BY <1>1, <1>3 DEF BatchWindow, InWindow
<1> QED  BY <1>2, <1>3

\* An event of the window stays in it until it is acknowledged: events that
\* are added come later, and events that are deleted make room.
LEMMA WindowGrows ==
    ASSUME NEW q, NEW a \in Nat, NEW n \in Nat, NEW r, NEW b \in Nat, NEW m \in Nat,
           a <= b, n <= m, \A j \in a + 1..n - 1 : q[j] \in Events,
           \A j \in b + 1..n - 1 : r[j] = q[j],
           NEW i, i > b, InWindow(q, a, n, i)
    PROVE  InWindow(r, b, m, i)
<1>1. i \in Nat /\ i \in a + 1..n - 1 /\ i \in b + 1..m - 1
  BY DEF InWindow
<1>2. CASE i = b + 1
  BY <1>1, <1>2 DEF InWindow
<1>3. CASE i # b + 1
  <2>0. i # a + 1
    BY <1>1, <1>3
  <2>1. i - a - 1 < BatchEvents /\ Bytes(q, a + 1..i) <= BatchBytes
    BY <2>0 DEF InWindow
  <2>2. i - b - 1 < BatchEvents
    BY <1>1, <2>1, Limits
  <2> DEFINE A == a + 1..i
             B == b + 1..i
  <2>3. B \in SUBSET A /\ (\A j \in A : q[j] \in Events) /\ \A j \in B : r[j] = q[j]
    BY <1>1
  <2>4. IsFiniteSet(A)
    BY <1>1, FS_Interval
  <2>5. Bytes(q, A) <= BatchBytes
    BY <2>1
  <2> HIDE DEF A, B
  <2>6. IsFiniteSet(B) /\ IsFiniteSet(A \ B)
    BY <2>3, <2>4, FS_Subset, FS_Difference
  <2>7. Sized(q, A) /\ Sized(q, B) /\ Sized(q, A \ B)
    BY <2>3, EventSizes DEF Sized
  <2>8. Bytes(q, B) \in Nat /\ Bytes(q, A \ B) \in Nat
    BY <2>6, <2>7, BytesType
  <2>9. Bytes(q, A) = Bytes(q, B) + Bytes(q, A \ B)
    BY <2>3, <2>4, <2>7, BytesSplit
  <2>10. Bytes(r, B) = Bytes(q, B)
    BY <2>3, <2>6, BytesSame
  <2>11. Bytes(r, B) <= BatchBytes
    BY <2>5, <2>8, <2>9, <2>10, Limits
  <2> QED  BY <1>1, <2>2, <2>11 DEF InWindow, B
<1> QED  BY <1>2, <1>3

\* What two states of the queue have in common.
LEMMA Overlap ==
    ASSUME NEW a \in Nat, NEW b \in Nat, NEW n \in Nat, NEW m \in Nat, a <= b, n <= m
    PROVE  \A j \in b + 1..n - 1 : j \in a + 1..n - 1 /\ j \in b + 1..m - 1
  OBVIOUS

\* The same, for the spool.
LEMMA WindowStays ==
    ASSUME Inv, Inv', acked <= acked', next <= next',
           \A j \in DOMAIN queue \cap DOMAIN queue' : queue'[j] = queue[j],
           NEW i \in BatchWindow, i > acked'
    PROVE  i \in BatchWindow'
<1>1. /\ acked \in Nat /\ next \in Nat /\ acked' \in Nat /\ next' \in Nat
      /\ DOMAIN queue = acked + 1..next - 1 /\ DOMAIN queue' = acked' + 1..next' - 1
  BY DEF Inv, NumbersInv, QueueInv
<1>2. \A j \in acked' + 1..next - 1 : j \in DOMAIN queue /\ j \in DOMAIN queue'
  BY <1>1, Overlap
<1>3. \A j \in acked + 1..next - 1 : queue[j] \in Events
  BY <1>1 DEF Inv, QueueInv
<1>4. InWindow(queue, acked, next, i)
  BY WindowIs
<1>5. InWindow(queue', acked', next', i)
  BY <1>1, <1>2, <1>3, <1>4, WindowGrows
<1> QED  BY <1>5, WindowIsNext

\* Every step keeps every request within reach of the next one.
LEMMA WindowStep ==
    ASSUME Inv, Inv', WindowInv, [Next]_vars
    PROVE  WindowInv'
<1>0. acked \in Nat /\ highest \in Nat /\ next \in Nat /\ acked <= highest
  BY DEF Inv, NumbersInv
<1>1. ASSUME NEW line, NEW size, Enqueue(line, size), UNCHANGED <<uploader, center>>
      PROVE  WindowInv'
  <2>1. acked' = acked /\ next' = next + 1
    BY <1>1 DEF Enqueue
  <2>2. \A i \in DOMAIN queue \cap DOMAIN queue' : queue'[i] = queue[i]
    BY <1>1 DEF Enqueue, Inv, NumbersInv, QueueInv
  <2>3. acked <= acked' /\ next <= next'
    BY <1>0, <2>1
  <2>4. \A i \in BatchWindow : i > acked' => i \in BatchWindow'
    BY <2>2, <2>3, WindowStays
  <2>5. \A i \in BatchWindow : i > acked
    BY <1>0, WindowIs DEF InWindow
  <2>6. BatchWindow \subseteq BatchWindow'
    BY <2>1, <2>4, <2>5
  <2> QED  BY <1>1, <2>1, <2>6 DEF WindowInv, uploader, center
<1>2. ASSUME UNCHANGED queue PROVE BatchWindow' = BatchWindow
  BY <1>2 DEF BatchWindow, First
<1>3. ASSUME UNCHANGED <<store, uploader, center>> PROVE WindowInv'
  BY <1>2, <1>3 DEF WindowInv, store, uploader, center
<1>4. CASE CollectLine
  BY <1>1, <1>4 DEF CollectLine
<1>5. CASE SkipLine
  BY <1>3, <1>5 DEF SkipLine
<1>6. ASSUME NEW s \in OtherSizes, ProduceOther(s)
      PROVE  WindowInv'
  BY <1>1, <1>3, <1>6 DEF ProduceOther
<1>7. CASE Send
  <2>1. /\ queue # Empty /\ batch' = [i \in BatchWindow |-> queue[i]]
        /\ reply' = NoReply /\ UNCHANGED <<store, late, center>>
    BY <1>7 DEF Send
  <2>2. DOMAIN batch' = BatchWindow
    BY <2>1
  <2>3. BatchWindow' = BatchWindow
    BY <1>2, <2>1 DEF store
  <2>4. acked + 1 \in BatchWindow
    <3>1. DOMAIN queue # {}
      <4>1. ASSUME DOMAIN queue = {} PROVE queue = Empty
        BY <4>1 DEF Empty, Inv, QueueInv
      <4> QED  BY <2>1, <4>1
    <3>2. acked + 1 \in acked + 1..next - 1
      BY <1>0, <3>1 DEF Inv, QueueInv
    <3> QED  BY <3>2, WindowIs DEF InWindow
  <2> QED  BY <2>1, <2>2, <2>3, <2>4 DEF WindowInv, store, center
<1>8. CASE HandleReply
  <2>1. waiting' = FALSE /\ reply' = NoReply /\ late' = late /\ highest' = highest
    BY <1>8 DEF HandleReply, center
  <2>2. /\ acked <= acked' /\ next <= next'
        /\ \A i \in DOMAIN queue \cap DOMAIN queue' : queue'[i] = queue[i]
    <3>1. CASE Acknowledge(reply)
      <4>1. reply \in Nat
        BY <1>8 DEF HandleReply, Inv, RequestInv
      <4> QED  BY <1>0, <3>1, <4>1 DEF Acknowledge, store
    <3>2. CASE UNCHANGED store
      BY <1>0, <3>2 DEF store
    <3> QED  BY <1>8, <3>1, <3>2 DEF HandleReply
  <2>3. \A i \in BatchWindow : i > acked' => i \in BatchWindow'
    BY <2>2, WindowStays
  <2>4. highest' > acked' => highest' \in BatchWindow'
    <3>1. acked' \in Nat
      BY DEF Inv, NumbersInv
    <3> QED  BY <1>0, <2>1, <2>2, <2>3, <3>1 DEF WindowInv
  <2>5. \A b \in late' : \A i \in DOMAIN b : i > acked' => i \in BatchWindow'
    <3>1. acked' \in Nat /\ \A b \in late : \A i \in DOMAIN b : i \in Nat
      BY <1>0 DEF Inv, NumbersInv, RequestInv, Faithful
    <3> QED  BY <1>0, <2>1, <2>2, <2>3, <3>1 DEF WindowInv
  <2> QED  BY <2>1, <2>4, <2>5 DEF WindowInv
<1>9. CASE UploadFails \/ Crash
  <2>1. /\ waiting /\ waiting' = FALSE /\ reply' = NoReply
        /\ late' \subseteq late \cup {batch} /\ UNCHANGED <<store, center>>
    BY <1>9 DEF UploadFails, Crash, Abandon
  <2>2. BatchWindow' = BatchWindow
    BY <1>2, <2>1 DEF store
  <2> QED  BY <2>1, <2>2 DEF WindowInv, store, center
<1>10. CASE CenterReceive
  <2>1. /\ waiting /\ UNCHANGED <<store, batch, waiting, late>> /\ reply' = highest'
    BY <1>10 DEF CenterReceive
  <2>2. BatchWindow' = BatchWindow
    BY <1>2, <2>1 DEF store
  <2>3. highest' \in DOMAIN batch
    <3>1. CASE \E n \in DOMAIN batch : n > highest /\ Store(batch, n)
      BY <3>1 DEF Store
    <3>2. CASE Max(DOMAIN batch) <= highest /\ UNCHANGED center
      <4>1. acked + 1 <= Max(DOMAIN batch) /\ Max(DOMAIN batch) \in Nat
        <5>1. IsFiniteSet(DOMAIN batch) /\ DOMAIN batch \subseteq Nat
          <6>1. DOMAIN batch \in SUBSET (1..next - 1)
            BY <2>1 DEF Inv, RequestInv, Faithful
          <6>2. IsFiniteSet(1..next - 1)
            BY <1>0, FS_Interval
          <6> QED  BY <1>0, <6>1, <6>2, FS_Subset
        <5>2. acked + 1 \in DOMAIN batch
          BY <2>1 DEF WindowInv
        <5> QED  BY <5>1, <5>2, Bounds
      <4>2. highest > acked /\ highest' = highest
        BY <1>0, <3>2, <4>1 DEF center
      <4> QED  BY <2>1, <4>2 DEF WindowInv
    <3> QED  BY <1>10, <3>1, <3>2 DEF CenterReceive
  <2> QED  BY <2>1, <2>2, <2>3 DEF WindowInv, store
<1>11. CASE CenterReceiveLate
  <2>1. PICK b \in late :
           /\ late' = late \ {b} /\ UNCHANGED <<store, batch, waiting, reply>>
           /\ \/ \E n \in DOMAIN b : n > highest /\ Store(b, n)
              \/ UNCHANGED center
    BY <1>11 DEF CenterReceiveLate
  <2>2. BatchWindow' = BatchWindow
    BY <1>2, <2>1 DEF store
  <2>3. highest' = highest \/ (highest' \in DOMAIN b /\ highest' > acked)
    <3>1. \A n \in DOMAIN b : n \in Nat
      BY <1>0 DEF Inv, RequestInv, Faithful
    <3>2. CASE UNCHANGED center
      BY <3>2 DEF center
    <3>3. ASSUME NEW n \in DOMAIN b, n > highest, Store(b, n)
          PROVE  highest' \in DOMAIN b /\ highest' > acked
      BY <1>0, <3>1, <3>3 DEF Store
    <3> QED  BY <2>1, <3>2, <3>3
  <2> QED  BY <2>1, <2>2, <2>3 DEF WindowInv, store
<1>12. CASE UNCHANGED vars
  BY <1>3, <1>12 DEF vars
<1> QED
  BY <1>4, <1>5, <1>6, <1>7, <1>8, <1>9, <1>10, <1>11, <1>12 DEF Next, Produce

-----------------------------------------------------------------------------
(* Theorems *)

\* Inv and what stands on it.
SpoolInv == Inv /\ TypeOK /\ AccountingIsExact /\ LinesInv /\ WindowInv

\* An empty spool satisfies the inductive invariant.
LEMMA Start == Init => SpoolInv
<1> SUFFICES ASSUME Init PROVE SpoolInv
  OBVIOUS
<1>0. DOMAIN Empty = {} /\ next = 1 /\ acked = 0 /\ highest = 0
  BY DEF Empty, Init
<1>1. Inv
  BY DEF Init, Inv, NumbersInv, QueueInv, CenterInv, RequestInv, Empty
<1>2. TypeOK
  <2>1. lastError \in BOOLEAN /\ waiting \in BOOLEAN
    BY Zenon DEF Init
  <2>2. IsEventMap(Empty)
    BY <1>0 DEF IsEventMap
  <2> QED  BY <2>1, <2>2 DEF Init, TypeOK, NoReply
<1>3. AccountingIsExact
  <2>1. DOMAIN queue = {}
    BY <1>0 DEF Init
  <2> QED  BY <2>1, BytesEmpty, FS_EmptySet, Limits DEF Init, AccountingIsExact
<1>4. LinesInv
  <2>1. {i \in 1..next - 1 : Accepted[i].line > 0} = {}
    BY <1>0
  <2>2. {l \in Lines : l <= checkpoint /\ LineSize[l] > 0} = {}
    BY SpoolAssumption DEF Lines, Init
  <2> QED  BY <2>1, <2>2 DEF LinesInv, LinesExactlyOnce, Init
<1>5. WindowInv
  BY DEF Init, WindowInv, NoReply
<1> QED  BY <1>1, <1>2, <1>3, <1>4, <1>5 DEF SpoolInv

\* Every copy of an event, queued, in flight or received, is the accepted
\* one; the counters, the checkpoint and the requests agree with the queue.
THEOREM Invariance == Spec => []SpoolInv
<1>1. SpoolInv /\ [Next]_vars => SpoolInv'
  BY Step, TypeStep, AccountStep, LinesStep, WindowStep DEF SpoolInv
<1> QED  BY <1>1, Start, PTL DEF Spec

\* The state stays well formed.
THEOREM TypeCorrect == Spec => []TypeOK
<1>1. SpoolInv => TypeOK
  BY DEF SpoolInv
<1> QED  BY <1>1, Invariance, PTL

\* The counters that enqueue checks against its limits, and that Acknowledge
\* decreases, are exactly the number and the size of the queued events, so
\* the spool never exceeds its limits and never refuses an acknowledgement
\* because its accounting is inconsistent.
THEOREM Accounting == Spec => []AccountingIsExact
<1>1. SpoolInv => AccountingIsExact
  BY DEF SpoolInv
<1> QED  BY <1>1, Invariance, PTL

\* Access lines are accepted exactly once and in order, whatever is lost,
\* retried or late, and wherever the agent crashes: the checkpoint moves in
\* the transaction that queues the line.
THEOREM ExactlyOnce == Spec => []LinesExactlyOnce
<1>1. SpoolInv => LinesExactlyOnce
  BY DEF SpoolInv, LinesInv
<1> QED  BY <1>1, Invariance, PTL

\* uploadOnce and Acknowledge accept every answer of a correct center, also
\* when a request that was given up arrives late: the retried batch reaches
\* at least as far.
THEOREM HonestReplies == Spec => []HonestReplyIsAccepted
<1>1. SpoolInv => HonestReplyIsAccepted
  <2> SUFFICES ASSUME SpoolInv, reply # NoReply PROVE Acceptable(reply)
    BY DEF HonestReplyIsAccepted
  <2>1. /\ reply \in DOMAIN batch /\ DOMAIN batch \in SUBSET (1..next - 1)
        /\ next \in Nat /\ reply < next
    BY DEF SpoolInv, WindowInv, Inv, RequestInv, NumbersInv, Faithful
  <2>2. IsFiniteSet(1..next - 1) /\ 1..next - 1 \subseteq Nat
    BY <2>1, FS_Interval
  <2>3. IsFiniteSet(DOMAIN batch) /\ DOMAIN batch \subseteq Nat
    BY <2>1, <2>2, FS_Subset
  <2> QED  BY <2>1, <2>3, Bounds DEF Acceptable
<1> QED  BY <1>1, Invariance, PTL

\* The spool holds exactly the events after the last acknowledgement: enqueue
\* and Acknowledge leave no gap and no leftover, whatever the uploader, late
\* requests and crashes do in between.
THEOREM Contiguity == Spec => []QueueIsContiguous
<1>1. SpoolInv => QueueIsContiguous
  BY DEF SpoolInv, Inv, QueueInv, QueueIsContiguous
<1> QED  BY <1>1, Invariance, PTL

\* The spool, the uploader and a center that only keeps contiguous events
\* implement the reliable queue: no event is lost, altered or reordered.
THEOREM Refinement == Spec => ImplementsQueue
<1>1. Init => Abstract!Init
  <2> SUFFICES ASSUME Init PROVE Abstract!Init
    OBVIOUS
  <2>1. next - 1 = 0 /\ highest = 0 /\ acked = 0
    BY DEF Init
  <2>2. Accepted = [i \in 1..0 |-> 0]
    BY <2>1 DEF Accepted
  <2> QED  BY <2>1, <2>2 DEF Abstract!Init
<1>2. Inv /\ QueueStep /\ Inv' => [Abstract!Next]_(Abstract!qvars)
  <2> SUFFICES ASSUME Inv, QueueStep, Inv' PROVE [Abstract!Next]_(Abstract!qvars)
    OBVIOUS
  <2>0. next \in Nat \ {0}
    BY DEF Inv, NumbersInv
  <2>1. ASSUME next' = next PROVE Accepted' = Accepted
    BY <2>1 DEF QueueStep, Accepted
  <2>2. CASE next' = next + 1 /\ Accepted'[next] \in Events /\ UNCHANGED <<highest, acked>>
    <3>1. next' - 1 = (next - 1) + 1 /\ next = (next - 1) + 1
      BY <2>0, <2>2
    <3>2. Accepted' = [i \in 1..(next - 1) + 1 |->
                         IF i = (next - 1) + 1 THEN Accepted'[next] ELSE Accepted[i]]
      <4>1. Accepted' = [i \in 1..next' - 1 |-> Accepted'[i]]
        BY DEF Accepted
      <4>2. \A i \in 1..(next - 1) + 1 : i = (next - 1) + 1 \/ i \in 1..next - 1
        BY <2>0
      <4> QED  BY <3>1, <4>1, <4>2 DEF QueueStep
    <3> QED  BY <2>2, <3>1, <3>2 DEF Abstract!Next, Abstract!Accept
  <2>3. CASE highest' \in highest + 1..next - 1 /\ UNCHANGED <<next, acked>>
    BY <2>1, <2>3 DEF Abstract!Next, Abstract!Deliver
  <2>4. CASE acked' \in acked + 1..highest /\ UNCHANGED <<next, highest>>
    BY <2>1, <2>4 DEF Abstract!Next, Abstract!Forget
  <2>5. CASE UNCHANGED <<next, highest, acked>>
    BY <2>1, <2>5 DEF Abstract!qvars
  <2> QED  BY <2>2, <2>3, <2>4, <2>5 DEF QueueStep
<1>3. Inv /\ [Next]_vars => [Abstract!Next]_(Abstract!qvars)
  BY <1>2, Step
<1>4. SpoolInv => Inv
  BY DEF SpoolInv
<1> QED  BY <1>1, <1>3, <1>4, Invariance, PTL DEF Spec, ImplementsQueue, Abstract!Spec
=============================================================================
