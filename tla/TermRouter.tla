----------------------------- MODULE TermRouter -----------------------------
(***************************************************************************)
(* The terminal router of an attach connection                             *)
(* (src/daemon/terminal_link.rs, terminal_link/coalescing.rs): the reader  *)
(* thread files what the daemon says under the repository it names, each   *)
(* repository's backend drains a bounded prefix of its own inbox on its    *)
(* render tick, and adopting a set of repositories forgets the inboxes of  *)
(* the others.  Output bytes are numbered, an event carries none.          *)
(***************************************************************************)
EXTENDS Integers, Sequences, SequencesExt

CONSTANTS NumInboxes,     \* how many repositories the daemon may name
          RouterPanes,    \* pane ids, positive
          ByteLimit,      \* TERMINAL_INBOX_BYTES
          MessageLimit,   \* TERMINAL_INBOX_MESSAGES
          DrainMessages,  \* TERMINAL_DRAIN_MESSAGES
          DrainBytes,     \* TERMINAL_DRAIN_BYTES
          LargestFrame,   \* bytes of the longest frame, for the run
          MaxFrames       \* frames delivered in a behaviour, for the run

ASSUME RouterAssumption ==
    /\ {NumInboxes, ByteLimit, MessageLimit, LargestFrame, MaxFrames} \subseteq Nat
    /\ RouterPanes \subseteq Nat \ {0}
    /\ {DrainMessages, DrainBytes} \subseteq Nat \ {0}

VARIABLES inboxes,   \* repository -> queue of [pane, data]; an event is pane 0
          queuedBytes, queuedMessages, overflowed,   \* RouterState
          filed,     \* ghost: repository -> what the reader filed, in order
          taken,     \* ghost: repository -> what its backend took
          frames     \* frames delivered so far

rtvars == <<inboxes, queuedBytes, queuedMessages, overflowed, filed, taken, frames>>

\* A repository is its number; the order of the inboxes never shows.
Inboxes == 1 .. NumInboxes

\* what a message says, output byte by byte: coalescing must not show
Said(m) == IF m.pane = 0 THEN <<<<0, 0>>>> ELSE [j \in DOMAIN m.data |-> <<m.pane, m.data[j]>>]
Spoken(queue) == FlattenSeq([i \in DOMAIN queue |-> Said(queue[i])])

\* output_bytes, summed over a queue
QueueBytes(queue) == Len(FlattenSeq([i \in DOMAIN queue |-> queue[i].data]))

\* coalescing::fits
Coalesces(queue, m) ==
    /\ queue # <<>> /\ m.pane # 0 /\ Last(queue).pane = m.pane
    /\ Len(Last(queue).data) + Len(m.data) =< DrainBytes

\* append_to_fitting_tail: the bytes join the last message.
Coalesced(queue, m) == [queue EXCEPT ![Len(queue)].data = @ \o m.data]

\* deliver: all of it, or the router is poisoned and the connection ends
FileFrame(r, m) ==
    LET joins == Coalesces(inboxes[r], m)
        fits == /\ queuedBytes + Len(m.data) =< ByteLimit
                /\ joins \/ queuedMessages < MessageLimit
    IN  IF ~fits THEN /\ overflowed' = TRUE
                      /\ UNCHANGED <<inboxes, queuedBytes, queuedMessages, filed>>
        ELSE /\ queuedBytes' = queuedBytes + Len(m.data)
             /\ queuedMessages' = queuedMessages + (IF joins THEN 0 ELSE 1)
             /\ inboxes' = [inboxes EXCEPT ![r] =
                              IF joins THEN Coalesced(@, m) ELSE Append(@, m)]
             /\ filed' = [filed EXCEPT ![r] = @ \o Spoken(<<m>>)]
             /\ UNCHANGED overflowed

\* pump: the reader ends at the first message the router refuses
ReaderFiles ==
    /\ ~overflowed /\ frames < MaxFrames
    /\ \E r \in Inboxes, p \in RouterPanes \cup {0}, n \in 0 .. LargestFrame :
         /\ (p = 0) = (n = 0)
         /\ FileFrame(r, [pane |-> p, data |-> [i \in 1 .. n |-> 10 * frames + i]])
    /\ frames' = frames + 1
    /\ UNCHANGED taken

\* the longest prefix within both allowances; the first message is always taken
DrainLength(queue) ==
    LET within(n) == n =< DrainMessages /\ (n =< 1 \/ QueueBytes(SubSeq(queue, 1, n)) =< DrainBytes)
    IN  CHOOSE n \in 0 .. Len(queue) :
            within(n) /\ \A m \in 0 .. Len(queue) : within(m) => m =< n

Drain(r) ==
    /\ inboxes[r] # <<>>
    /\ LET n == DrainLength(inboxes[r])
           head == SubSeq(inboxes[r], 1, n)
       IN  /\ inboxes' = [inboxes EXCEPT ![r] = SubSeq(@, n + 1, Len(@))]
           /\ queuedBytes' = queuedBytes - QueueBytes(head)
           /\ queuedMessages' = queuedMessages - n
           /\ taken' = [taken EXCEPT ![r] = @ \o Spoken(head)]
    /\ UNCHANGED <<overflowed, filed, frames>>

\* Everything in the inboxes of the repositories that are not open.
Forgotten(open) == FlattenSeq([r \in Inboxes |-> IF r \in open THEN <<>> ELSE inboxes[r]])

\* Mutant: the oldest forgotten message stays counted.
RetainsCount(open) ==
    queuedBytes - QueueBytes(SubSeq(Forgotten(open), 2, Len(Forgotten(open))))
RetainedBytes(open) == queuedBytes - QueueBytes(Forgotten(open))

\* retain: the inboxes of repositories that are not open any more
Retain(open) ==
    /\ inboxes' = [r \in Inboxes |-> IF r \in open THEN inboxes[r] ELSE <<>>]
    /\ queuedBytes' = RetainedBytes(open)
    /\ queuedMessages' = queuedMessages - Len(Forgotten(open))
    /\ filed' = [r \in Inboxes |-> IF r \in open THEN filed[r] ELSE <<>>]
    /\ taken' = [r \in Inboxes |-> IF r \in open THEN taken[r] ELSE <<>>]
    /\ UNCHANGED <<overflowed, frames>>

RTInit ==
    /\ inboxes = [r \in Inboxes |-> <<>>]
    /\ queuedBytes = 0 /\ queuedMessages = 0 /\ overflowed = FALSE
    /\ filed = [r \in Inboxes |-> <<>>] /\ taken = [r \in Inboxes |-> <<>>]
    /\ frames = 0

RTNext == ReaderFiles \/ (\E r \in Inboxes : Drain(r)) \/ (\E open \in SUBSET Inboxes : Retain(open))

RTSpec == RTInit /\ [][RTNext]_rtvars

---------------------------------------------------------------------------
(* Property. *)

\* The counters the ceilings are checked against are what is queued, through
\* coalescing, partial drains and forgotten inboxes, and every repository's
\* backend gets what was filed for it, whole and in order: "Bytes are never
\* discarded from a live stream" (terminal_link.rs deliver).
RouterExact ==
    /\ queuedBytes = QueueBytes(FlattenSeq(inboxes))
    /\ queuedMessages = Len(FlattenSeq(inboxes))
    /\ \A r \in Inboxes : taken[r] \o Spoken(inboxes[r]) = filed[r]
=============================================================================
