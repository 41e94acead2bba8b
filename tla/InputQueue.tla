----------------------------- MODULE InputQueue -----------------------------
(***************************************************************************)
(* A pane's input: the bounded queue between the hub's worker, which may   *)
(* not block, and the thread that writes to the PTY, which may block for   *)
(* as long as the program does not read (backend/pty_io.rs). A message is  *)
(* its size in bytes. The counters include the message being written, so   *)
(* they are not the queue's own length, and three paths take from them:    *)
(* the writer, a close and a failed write. They are unsigned: one byte     *)
(* taken twice wraps and the queue refuses everything from then on.        *)
(***************************************************************************)
EXTENDS Integers, Sequences

CONSTANTS
    ByteLimit,        \* INPUT_BYTE_LIMIT
    MessageLimit,     \* INPUT_MESSAGE_LIMIT
    MaxSent           \* bound: messages accepted over the queue's life

ASSUME InputAssumption ==
    ByteLimit \in Nat \ {0} /\ MessageLimit \in Nat \ {0} /\ MaxSent \in Nat

VARIABLES
    queue,            \* InputState.queue, as sizes
    pendingBytes,     \* InputState.pending_bytes
    pendingMessages,  \* InputState.pending_messages
    closed,           \* InputState.closed
    failure,          \* InputState.failure is some error
    writer,           \* the writer thread
    inflight,         \* the message it has taken, or none
    accepted,         \* every message enqueue took (history)
    delivered         \* every message written whole (history)

counters == <<pendingBytes, pendingMessages>>
flags == <<closed, failure>>
history == <<accepted, delivered>>
iqvars == <<queue, counters, flags, writer, inflight, history>>

Size == 1 .. ByteLimit
Bytes(s) ==
    LET total[n \in 0 .. Len(s)] == IF n = 0 THEN 0 ELSE total[n - 1] + s[n]
    IN  total[Len(s)]

\* The types of the variables; the counters never go below zero.
IQTypeOK ==
    /\ queue \in Seq(Size)
    /\ pendingBytes \in Nat /\ pendingMessages \in Nat
    /\ closed \in BOOLEAN /\ failure \in BOOLEAN
    /\ writer \in {"check", "waiting", "writing", "done"}
    /\ inflight \in Seq(Size)
    /\ accepted \in Seq(Size) /\ delivered \in Seq(Size)

----------------------------------------------------------------------------
\* What still fits: a message being written counts against both limits.
Fits(n) ==
    /\ n <= ByteLimit
    /\ pendingMessages < MessageLimit
    /\ pendingBytes + n <= ByteLimit

\* Whoever waits on the condition looks again.
Notified == IF writer = "waiting" THEN "check" ELSE writer

\* enqueue: everything else it answers (a failed or closed queue, an empty
\* message, a full queue) changes nothing.
Enqueue(n) ==
    /\ ~failure /\ ~closed
    /\ Fits(n)
    /\ Len(accepted) < MaxSent
    /\ queue' = Append(queue, n)
    /\ pendingBytes' = pendingBytes + n
    /\ pendingMessages' = pendingMessages + 1
    /\ writer' = Notified
    /\ accepted' = Append(accepted, n)
    /\ UNCHANGED <<flags, inflight, delivered>>

\* What is queued is dropped, and given back to the counters.
\* Mutant: the message being written is given back too.
DropEverything ==
    /\ pendingBytes' = 0
    /\ pendingMessages' = 0
    /\ queue' = <<>>
DropQueued ==
    /\ pendingBytes' = pendingBytes - Bytes(queue)
    /\ pendingMessages' = pendingMessages - Len(queue)
    /\ queue' = <<>>

\* close, when the pane that holds the queue is dropped
Close ==
    /\ ~closed
    /\ closed' = TRUE
    /\ DropQueued
    /\ writer' = Notified
    /\ UNCHANGED <<failure, inflight, history>>

\* The writer, under the lock: it ends, waits or takes the next message.
Stop ==
    /\ writer = "check" /\ (closed \/ failure)
    /\ writer' = "done"
    /\ UNCHANGED <<queue, counters, flags, inflight, history>>

Wait ==
    /\ writer = "check" /\ queue = <<>> /\ ~closed /\ ~failure
    /\ writer' = "waiting"
    /\ UNCHANGED <<queue, counters, flags, inflight, history>>

\* Mutant: the writer takes the newest message.
TakeLast ==
    /\ writer = "check" /\ queue # <<>> /\ ~closed /\ ~failure
    /\ writer' = "writing"
    /\ inflight' = <<queue[Len(queue)]>>
    /\ queue' = SubSeq(queue, 1, Len(queue) - 1)
    /\ UNCHANGED <<counters, flags, history>>
Take ==
    /\ writer = "check" /\ queue # <<>> /\ ~closed /\ ~failure
    /\ writer' = "writing"
    /\ inflight' = <<Head(queue)>>
    /\ queue' = Tail(queue)
    /\ UNCHANGED <<counters, flags, history>>

\* The write returned. Only the writer knows what it holds, so it takes its
\* own message from the counters even when a close emptied the queue.
WriteDone ==
    /\ writer = "writing"
    /\ writer' = "check"
    /\ pendingBytes' = pendingBytes - Head(inflight)
    /\ pendingMessages' = pendingMessages - 1
    /\ delivered' = delivered \o inflight
    /\ inflight' = <<>>
    /\ UNCHANGED <<queue, flags, accepted>>

\* Mutant: a failed write drops the queue and forgets its bytes.
FailsForgetting ==
    /\ writer = "writing"
    /\ writer' = "done"
    /\ pendingBytes' = pendingBytes - Head(inflight)
    /\ pendingMessages' = pendingMessages - 1 - Len(queue)
    /\ queue' = <<>>
    /\ failure' = TRUE
    /\ inflight' = <<>>
    /\ UNCHANGED <<closed, history>>
\* The write failed: what is queued goes with it.
WriteFails ==
    /\ writer = "writing"
    /\ writer' = "done"
    /\ pendingBytes' = pendingBytes - Head(inflight) - Bytes(queue)
    /\ pendingMessages' = pendingMessages - 1 - Len(queue)
    /\ queue' = <<>>
    /\ failure' = TRUE
    /\ inflight' = <<>>
    /\ UNCHANGED <<closed, history>>

----------------------------------------------------------------------------
IQInit ==
    /\ queue = <<>> /\ pendingBytes = 0 /\ pendingMessages = 0
    /\ closed = FALSE /\ failure = FALSE
    /\ writer = "check" /\ inflight = <<>>
    /\ accepted = <<>> /\ delivered = <<>>

IQNext ==
    \/ \E n \in Size : Enqueue(n)
    \/ Close
    \/ Stop \/ Wait \/ Take \/ WriteDone \/ WriteFails

IQSpec == IQInit /\ [][IQNext]_iqvars

----------------------------------------------------------------------------
(* Properties *)

\* The message counter is what is queued and what is being written, on every
\* path out of the queue: an unsigned counter that a close and a finished
\* write both took from would wrap.
MessagesExact == pendingMessages = Len(queue) + Len(inflight)

\* So is the byte counter, which decides what is refused; and since a message
\* being written still counts, never more than the limits is held for a
\* program that does not read.
BytesExact ==
    /\ pendingBytes = Bytes(queue) + Bytes(inflight)
    /\ pendingBytes <= ByteLimit /\ pendingMessages <= MessageLimit

\* Both counters (backend/pty_io.rs): what is subtracted on a finished write, a
\* failed one and a close adds up to what was added.
CountersExact == MessagesExact /\ BytesExact

\* Input reaches the program in the order it was accepted and without a gap:
\* what was written, is being written and is queued, in this order, starts
\* the accepted input, and is all of it while the queue is open.
InOrder ==
    LET held == delivered \o inflight \o queue IN
    /\ Len(held) <= Len(accepted)
    /\ held = SubSeq(accepted, 1, Len(held))
    /\ ~closed /\ ~failure => held = accepted

\* A writer that sleeps has nothing to do: the thread of a dropped pane ends
\* and an accepted message is not left behind.
SleepsIdle == writer = "waiting" => queue = <<>> /\ ~closed /\ ~failure

=============================================================================
