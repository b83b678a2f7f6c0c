----------------------------- MODULE EventSpool -----------------------------
(***************************************************************************)
(* The event pipeline: the durable spool (internal/eventspool, Store), its *)
(* producers, the uploader (internal/telemetry, Uploader) and the center's *)
(* endpoint, which is external and known only by how the uploader uses it. *)
(*                                                                         *)
(* Every transaction of the bolt database is one action.  The uploader     *)
(* reads a batch, sends it, and acknowledges in a later transaction;       *)
(* producers run in between.  A request may reach the center late, after   *)
(* the uploader gave up on it, a reply may be lost, and the agent may      *)
(* crash anywhere.  The access log is a fixed list of lines; its           *)
(* checkpoint moves in the transaction that queues the line.               *)
(***************************************************************************)
EXTENDS Integers, Sequences, FiniteSets, FiniteSetsExt

CONSTANTS
    LineSize,       \* encoded size of every access line, 0 for a line to skip
    OtherSizes,     \* sizes of route, traffic, online and heartbeat events
    MaxBytes,       \* Store.maxBytes
    MaxEvents,      \* Store.maxEvents
    BatchBytes,     \* byte limit of a batch
    BatchEvents,    \* event limit of a batch
    MaxSequence,    \* bound: sequence numbers handed out
    MaxFailures,    \* bound: failed uploads and crashes
    MaxDrops        \* bound: recorded drops

ASSUME SpoolAssumption ==
    /\ LineSize \in Seq(Nat)
    /\ OtherSizes \subseteq Nat \ {0}
    /\ {MaxBytes, MaxEvents, BatchBytes, BatchEvents} \subseteq Nat \ {0}
    /\ {MaxSequence, MaxFailures, MaxDrops} \subseteq Nat

VARIABLES
    queue,          \* bucketEvents: queued events by sequence number
    next,           \* keyNextSequence
    acked,          \* keyAckedSequence
    pendingBytes, pendingEvents,
    dropped,        \* keyDroppedRoute and keyDroppedOther together
    lastError,      \* keyLastErrorCode is set
    checkpoint,     \* access lines consumed
    batch,          \* the uploader's request: events by sequence number
    waiting,        \* the uploader waits for the reply to batch
    reply,          \* the center's answer to batch, once it is under way
    late,           \* abandoned requests that may still reach the center
    received,       \* center: the contiguous events it holds
    highest,        \* center: HighestContiguousSequence
    failures

store    == <<queue, next, acked, pendingBytes, pendingEvents>>
uploader == <<batch, waiting, reply, late>>
center   == <<received, highest>>
vars     == <<store, dropped, lastError, checkpoint, uploader, center, failures>>

Lines    == DOMAIN LineSize
\* An event is its access line, 0 for any other kind, and its encoded size.
Events   == [line : Lines \cup {0}, size : OtherSizes \cup {LineSize[l] : l \in Lines}]
NoReply  == -1
Empty    == [i \in {} |-> 0]

\* A map from some sequence numbers to events.
IsEventMap(f) == DOMAIN f \subseteq Nat \ {0} /\ \A i \in DOMAIN f : f[i] \in Events

TypeOK ==
    /\ IsEventMap(queue) /\ IsEventMap(batch) /\ IsEventMap(received)
    /\ \A b \in late : IsEventMap(b)
    /\ next \in Nat \ {0} /\ acked \in Nat
    /\ pendingBytes \in Int /\ pendingEvents \in Int
    /\ dropped \in Nat /\ lastError \in BOOLEAN
    /\ checkpoint \in Nat
    /\ waiting \in BOOLEAN
    /\ reply \in Nat \cup {NoReply}
    /\ highest \in Nat
    /\ failures \in Nat

\* Mutant: the first sequence number is 0.
InitFromZero ==
    /\ queue = Empty /\ next = 0 /\ acked = 0
    /\ pendingBytes = 0 /\ pendingEvents = 0
    /\ dropped = 0 /\ lastError = FALSE /\ checkpoint = 0
    /\ batch = Empty /\ waiting = FALSE /\ reply = NoReply /\ late = {}
    /\ received = Empty /\ highest = 0
    /\ failures = 0

Init ==
    /\ queue = Empty /\ next = 1 /\ acked = 0
    /\ pendingBytes = 0 /\ pendingEvents = 0
    /\ dropped = 0 /\ lastError = FALSE /\ checkpoint = 0
    /\ batch = Empty /\ waiting = FALSE /\ reply = NoReply /\ late = {}
    /\ received = Empty /\ highest = 0
    /\ failures = 0

-----------------------------------------------------------------------------
(* Store: enqueue *)

\* Mutant: one event too many.
FullOffByOne(size) == size + pendingBytes > MaxBytes \/ pendingEvents > MaxEvents

\* ErrFull.
Full(size) == size + pendingBytes > MaxBytes \/ pendingEvents >= MaxEvents

\* The transaction of enqueue; its side effect is the caller's.
Enqueue(line, size) ==
    /\ next <= MaxSequence
    /\ ~Full(size)
    /\ queue' = [i \in DOMAIN queue \cup {next} |->
                    IF i = next THEN [line |-> line, size |-> size] ELSE queue[i]]
    /\ next' = next + 1
    /\ pendingBytes' = pendingBytes + size
    /\ pendingEvents' = pendingEvents + 1
    /\ UNCHANGED acked

\* Mutant: the checkpoint does not move with the line.
CollectLineNoCheckpoint ==
    /\ checkpoint + 1 \in Lines
    /\ LineSize[checkpoint + 1] > 0
    /\ Enqueue(checkpoint + 1, LineSize[checkpoint + 1])
    /\ UNCHANGED <<checkpoint, dropped, lastError, uploader, center, failures>>

\* drain: a line to report is queued with the checkpoint behind it; when the
\* spool is full nothing changes and the line is read again.
CollectLine ==
    /\ checkpoint + 1 \in Lines
    /\ LineSize[checkpoint + 1] > 0
    /\ Enqueue(checkpoint + 1, LineSize[checkpoint + 1])
    /\ checkpoint' = checkpoint + 1
    /\ UNCHANGED <<dropped, lastError, uploader, center, failures>>

\* drain: a line that is too long, not understood, or Xray's own API traffic.
SkipLine ==
    /\ checkpoint + 1 \in Lines
    /\ LineSize[checkpoint + 1] = 0
    /\ checkpoint' = checkpoint + 1
    /\ lastError' \in {lastError, TRUE}
    /\ UNCHANGED <<store, dropped, uploader, center, failures>>

\* Route, traffic, online and heartbeat events: queued, or dropped and
\* counted in a transaction of its own.
ProduceOther(size) ==
    /\ \/ Enqueue(0, size) /\ UNCHANGED dropped
       \/ /\ Full(size) /\ dropped < MaxDrops
          /\ dropped' = dropped + 1
          /\ UNCHANGED store
    /\ UNCHANGED <<lastError, checkpoint, uploader, center, failures>>

-----------------------------------------------------------------------------
(* Uploader.uploadOnce, Store.Batch and Store.Acknowledge *)

First == Min(DOMAIN queue)

\* The encoded size of the events of q numbered in S.
Bytes(q, S) == MapThenSumSet(LAMBDA i : q[i].size, S)

\* Mutant: after an error the batch is cut down to one event.
BatchWindowCautious == IF lastError THEN {First} ELSE DOMAIN queue

\* The first event always, and as many more as the limits allow.
BatchWindow ==
    {i \in DOMAIN queue :
        \/ i = First
        \/ /\ Cardinality({j \in DOMAIN queue : j < i}) < BatchEvents
           /\ Bytes(queue, {j \in DOMAIN queue : j <= i}) <= BatchBytes}

\* Mutant: every entry of the batch is the first event.
SendFirstOnly ==
    /\ ~waiting /\ queue # Empty
    /\ batch' = [i \in BatchWindow |-> queue[First]]
    /\ waiting' = TRUE /\ reply' = NoReply
    /\ UNCHANGED <<store, dropped, lastError, checkpoint, late, center, failures>>

Send ==
    /\ ~waiting /\ queue # Empty
    /\ batch' = [i \in BatchWindow |-> queue[i]]
    /\ waiting' = TRUE /\ reply' = NoReply
    /\ UNCHANGED <<store, dropped, lastError, checkpoint, late, center, failures>>

\* Mutant: the acknowledged event itself stays in the queue.
AcknowledgeOffByOne(seq) ==
    LET gone == {i \in DOMAIN queue : i < seq}
    IN  /\ queue' = [i \in DOMAIN queue \ gone |-> queue[i]]
        /\ acked' = seq
        /\ pendingBytes' = pendingBytes - Bytes(queue, gone)
        /\ pendingEvents' = pendingEvents - Cardinality(gone)
        /\ lastError' = FALSE
        /\ UNCHANGED next

\* Store.Acknowledge: drops what the center has.
Acknowledge(seq) ==
    IF seq < acked THEN UNCHANGED <<store, lastError>>
    ELSE LET gone == {i \in DOMAIN queue : i <= seq}
         IN  /\ queue' = [i \in DOMAIN queue \ gone |-> queue[i]]
             /\ acked' = seq
             /\ pendingBytes' = pendingBytes - Bytes(queue, gone)
             /\ pendingEvents' = pendingEvents - Cardinality(gone)
             /\ lastError' = FALSE
             /\ UNCHANGED next

\* Mutant: the end of the batch is refused.
AcceptableOffByOne(seq) ==
    Min(DOMAIN batch) <= seq /\ seq < Max(DOMAIN batch) /\ seq < next

\* The checks of uploadOnce and of Acknowledge on a reply.
Acceptable(seq) ==
    /\ Min(DOMAIN batch) <= seq /\ seq <= Max(DOMAIN batch)
    /\ seq < next

HandleReply ==
    /\ waiting /\ reply # NoReply
    /\ IF Acceptable(reply) THEN Acknowledge(reply)
       ELSE lastError' = TRUE /\ UNCHANGED store
    /\ waiting' = FALSE /\ reply' = NoReply /\ batch' = Empty
    /\ UNCHANGED <<dropped, checkpoint, late, center, failures>>

\* A request that was given up may have been lost, or may still arrive.
Abandon == late' \in {late, late \cup (IF reply = NoReply THEN {batch} ELSE {})}

\* The transport fails, the center answers with an error, or the reply is lost.
UploadFails ==
    /\ waiting /\ failures < MaxFailures
    /\ failures' = failures + 1
    /\ Abandon
    /\ waiting' = FALSE /\ reply' = NoReply /\ batch' = Empty
    /\ lastError' = TRUE
    /\ UNCHANGED <<store, dropped, checkpoint, center>>

\* The agent dies; the spool is on disk, the request is not.
Crash ==
    /\ failures < MaxFailures
    /\ failures' = failures + 1
    /\ waiting /\ Abandon
    /\ waiting' = FALSE /\ reply' = NoReply /\ batch' = Empty
    /\ UNCHANGED <<store, dropped, lastError, checkpoint, center>>

-----------------------------------------------------------------------------
(* The center, external *)

\* It keeps the events that continue what it has, all of them or a prefix.
Store(b, upto) ==
    /\ highest + 1..upto \subseteq DOMAIN b
    /\ highest' = upto
    /\ received' = [i \in DOMAIN received \cup (highest + 1..upto) |->
                      IF i \in DOMAIN received THEN received[i] ELSE b[i]]

CenterReceive ==
    /\ waiting /\ reply = NoReply
    /\ \/ \E n \in DOMAIN batch : n > highest /\ Store(batch, n)
       \/ Max(DOMAIN batch) <= highest /\ UNCHANGED center
    /\ reply' = highest'
    /\ UNCHANGED <<store, dropped, lastError, checkpoint, batch, waiting, late, failures>>

CenterReceiveLate ==
    \E b \in late :
        /\ late' = late \ {b}
        /\ \/ \E n \in DOMAIN b : n > highest /\ Store(b, n)
           \/ UNCHANGED center
        /\ UNCHANGED <<store, dropped, lastError, checkpoint, batch, waiting,
                       reply, failures>>

-----------------------------------------------------------------------------
Produce == CollectLine \/ SkipLine \/ \E s \in OtherSizes : ProduceOther(s)

Next ==
    \/ Produce \/ Send \/ HandleReply \/ UploadFails \/ Crash
    \/ CenterReceive \/ CenterReceiveLate

Spec == Init /\ [][Next]_vars

\* The uploader's loop keeps running, and the center answers what it receives.
FairSpec ==
    Spec /\ WF_vars(Send) /\ WF_vars(HandleReply) /\ WF_vars(CenterReceive)

-----------------------------------------------------------------------------
(* Properties *)

\* What was ever accepted, as the node and the center together still know it.
Accepted == [i \in 1..next - 1 |-> IF i \in DOMAIN received THEN received[i] ELSE queue[i]]

\* The spool and the uploader implement the reliable queue: nothing is lost,
\* reordered or altered, and nothing is deleted before the center has it.
Abstract == INSTANCE EventQueue WITH
    Event <- Events, accepted <- next - 1, content <- Accepted,
    delivered <- highest, forgotten <- acked

ImplementsQueue == Abstract!Spec

\* Access lines are reported exactly once and in order, over retries, full
\* spools, late requests and crashes: the accepted ones are the lines up to
\* the checkpoint.
LinesExactlyOnce ==
    LET seqs == {i \in 1..next - 1 : Accepted[i].line > 0}
    IN  /\ \A i, j \in seqs : i < j => Accepted[i].line < Accepted[j].line
        /\ {Accepted[i].line : i \in seqs} =
               {l \in Lines : l <= checkpoint /\ LineSize[l] > 0}

\* The counters the capacity check relies on agree with the queue, which
\* never exceeds its limits; Acknowledge cannot meet its "accounting is
\* inconsistent" error.
AccountingIsExact ==
    /\ pendingEvents = Cardinality(DOMAIN queue)
    /\ pendingBytes = Bytes(queue, DOMAIN queue)
    /\ pendingBytes <= MaxBytes /\ pendingEvents <= MaxEvents

\* The queue is what follows the last acknowledgement, without a gap.
QueueIsContiguous == DOMAIN queue = acked + 1..next - 1

\* The uploader never refuses the answer of a correct center: a retried
\* batch reaches at least as far as any batch sent before.
HonestReplyIsAccepted ==
    reply # NoReply => Acceptable(reply)

\* Every queued event leaves the spool, delivered.
EverythingIsDelivered ==
    \A i \in 1..MaxSequence :
        (i \in DOMAIN queue) ~> (i \in DOMAIN received /\ i \notin DOMAIN queue)
=============================================================================
