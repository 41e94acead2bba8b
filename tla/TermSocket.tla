----------------------------- MODULE TermSocket -----------------------------
(***************************************************************************)
(* One terminal socket of the web viewer                                   *)
(* (web/viewer/server/handlers/terminal*.rs): a thread that reads what the *)
(* page sends, one that takes the frames the hub queued for this client,   *)
(* and the writer both feed through one bounded channel, which parses,     *)
(* dispatches, writes, pings and decides when the page is gone.  The page  *)
(* may stop reading, come back, close or vanish without a word; the hub    *)
(* lets go of a client whose queue is full; the writer may panic; the      *)
(* frame thread may fail to start.                                         *)
(*                                                                         *)
(* Frames and the page's messages are numbered; a ping on its way is 0, as *)
(* is a pong.  The write buffer belongs to the WebSocket library, the wire *)
(* to the system.                                                          *)
(***************************************************************************)
EXTENDS Integers, Sequences, SequencesExt

CONSTANTS
    ChannelDepth,   \* QUEUE_DEPTH
    HubDepth,       \* CLIENT_QUEUE_DEPTH
    FlushFrames,    \* FLUSH_FRAMES
    WireSize,       \* frames the system takes before a write stalls
    PingAfter,      \* PING_AFTER, in ticks
    SilenceLimit,   \* SILENCE_LIMIT, in ticks
    Traffic         \* bounds: the pairs of how many frames the hub has for the
                    \* client and how many messages the page sends

\* The page must be asked before it is given up, and a batch holds more than
\* the frame that woke the writer.
ASSUME SocketAssumption ==
    /\ {ChannelDepth, HubDepth, WireSize, PingAfter, SilenceLimit} \subseteq Nat
    /\ PingAfter < SilenceLimit
    /\ FlushFrames \in Nat \ {0, 1}
    /\ Traffic \subseteq Nat \X Nat

VARIABLES
    hubQ,      \* the hub's client record: its queue, whether it is listed, frames so far
    reader,    \* nightcrow-term-read: its place and the chunk in its hands
    framer,    \* nightcrow-term-frames: its place and the frame in its hands
    chan,      \* the channel of events, and whether its receiver was dropped
    writer,    \* its place; frames buffered, whether a flush stalled, frames since the last
    sock,      \* the socket: open, frames on their way out, what came in
    quiet,     \* ticks since the page was heard, and since it was last asked
    page,      \* what the page does, has been shown and has sent
    heard,     \* messages dispatched to the hub
    linkStop       \* Link::stop

tsvars == <<hubQ, reader, framer, chan, writer, sock, quiet, page, heard, linkStop>>

Close == -1     \* a close frame among the page's messages

Ev(k, n) == [k |-> k, n |-> n]
Serving == {"drain", "flush", "live", "wait"}

TSInit ==
    /\ reader = [pc |-> "none", n |-> 0]
    /\ framer = [pc |-> "none", n |-> 0]
    /\ chan = [events |-> <<>>, dropped |-> FALSE]
    /\ writer = [pc |-> "open", buffer |-> <<>>, unflushed |-> FALSE, batch |-> 0, why |-> "none"]
    /\ sock = [up |-> TRUE, out |-> <<>>, in |-> <<>>]
    /\ quiet = [heard |-> 0, asked |-> 0]
    /\ \E load \in Traffic :
         /\ hubQ = [queue |-> <<>>, listed |-> TRUE, sent |-> 0, max |-> load[1]]
         /\ page = [mode |-> "reads", slept |-> FALSE, shown |-> <<>>, sent |-> 0, max |-> load[2]]
    /\ heard = <<>>
    /\ linkStop = FALSE

----------------------------------------------------------------------------
(* The hub and the page. *)

\* queue_locked: a full queue cuts the client off.
HubSends ==
    /\ hubQ.listed /\ hubQ.sent < hubQ.max
    /\ IF Len(hubQ.queue) < HubDepth
       THEN /\ hubQ' = [hubQ EXCEPT !.sent = @ + 1, !.queue = Append(@, hubQ.sent + 1)]
            /\ UNCHANGED sock
       ELSE /\ hubQ' = [hubQ EXCEPT !.listed = FALSE]
            /\ sock' = [sock EXCEPT !.up = FALSE]
    /\ UNCHANGED <<reader, framer, chan, writer, quiet, page, heard, linkStop>>

\* The page reads, and answers a ping.
PageReads ==
    /\ page.mode = "reads" /\ sock.out # <<>>
    /\ IF Head(sock.out) = 0
       THEN /\ sock' = [sock EXCEPT !.out = Tail(@),
                                    !.in = IF sock.up THEN Append(@, 0) ELSE @]
            /\ UNCHANGED page
       ELSE /\ page' = [page EXCEPT !.shown = Append(@, Head(sock.out))]
            /\ sock' = [sock EXCEPT !.out = Tail(@)]
    /\ UNCHANGED <<hubQ, reader, framer, chan, writer, quiet, heard, linkStop>>

PageSends ==
    /\ page.mode = "reads" /\ sock.up /\ page.sent < page.max
    /\ page' = [page EXCEPT !.sent = @ + 1]
    /\ sock' = [sock EXCEPT !.in = Append(@, page.sent + 1)]
    /\ UNCHANGED <<hubQ, reader, framer, chan, writer, quiet, heard, linkStop>>

\* It is put to sleep, wakes, leaves with a close frame, or is simply gone.
PageTurns ==
    /\ \/ page.mode = "reads" /\ page' = [page EXCEPT !.mode = "sleeps", !.slept = TRUE] /\ UNCHANGED sock
       \/ page.mode = "sleeps" /\ page' = [page EXCEPT !.mode = "reads"] /\ UNCHANGED sock
       \/ /\ page.mode = "reads" /\ sock.up
          /\ page' = [page EXCEPT !.mode = "left"]
          /\ sock' = [sock EXCEPT !.in = Append(@, Close)]
       \/ page.mode # "left" /\ page' = [page EXCEPT !.mode = "gone"] /\ UNCHANGED sock
    /\ UNCHANGED <<hubQ, reader, framer, chan, writer, quiet, heard, linkStop>>

\* The system gives up on what a page that went never acknowledges.
SystemGivesUp ==
    /\ page.mode \in {"left", "gone"} /\ sock.up /\ sock.out # <<>>
    /\ sock' = [sock EXCEPT !.up = FALSE]
    /\ UNCHANGED <<hubQ, reader, framer, chan, writer, quiet, page, heard, linkStop>>

----------------------------------------------------------------------------
(* Link: the two helper threads. *)

\* Link::open; a frame thread that cannot be started takes the reader with it.
OpenLink ==
    /\ writer.pc = "open"
    /\ reader' = [reader EXCEPT !.pc = "top"]
    /\ \/ /\ framer' = [framer EXCEPT !.pc = "take"]
          /\ writer' = [writer EXCEPT !.pc = "drain"]
          /\ UNCHANGED linkStop
       \/ /\ framer' = [framer EXCEPT !.pc = "done"]
          /\ writer' = [writer EXCEPT !.pc = "shut"]
          /\ linkStop' = TRUE
    /\ UNCHANGED <<hubQ, chan, sock, quiet, page, heard>>

\* A blocking send: it waits for room, or for the receiver to be dropped.
Sends(ev) ==
    /\ ~chan.dropped
    /\ Len(chan.events) < ChannelDepth
    /\ chan' = [chan EXCEPT !.events = Append(@, ev)]

\* spawn_reader. The guard interval brings it back to the stop flag.
ReaderLooks ==
    /\ reader.pc = "top"
    /\ reader' = [reader EXCEPT !.pc = IF linkStop THEN "gone" ELSE "read"]
    /\ UNCHANGED <<hubQ, framer, chan, writer, sock, quiet, page, heard, linkStop>>

ReaderReads ==
    /\ reader.pc = "read"
    /\ IF sock.in # <<>>
       THEN /\ reader' = [pc |-> "send", n |-> Head(sock.in)]
            /\ sock' = [sock EXCEPT !.in = Tail(@)]
       ELSE /\ reader' = [reader EXCEPT !.pc = IF sock.up /\ page.mode # "left" THEN "top" ELSE "gone"]
            /\ UNCHANGED sock
    /\ UNCHANGED <<hubQ, framer, chan, writer, quiet, page, heard, linkStop>>

ReaderSends ==
    /\ \/ /\ reader.pc = "send"
          /\ \/ Sends(Ev("bytes", reader.n)) /\ reader' = [pc |-> "top", n |-> 0]
             \/ chan.dropped /\ reader' = [pc |-> "done", n |-> 0] /\ UNCHANGED chan
       \/ /\ reader.pc = "gone"
          /\ Sends(Ev("gone", 0)) \/ (chan.dropped /\ UNCHANGED chan)
          /\ reader' = [pc |-> "done", n |-> 0]
    /\ UNCHANGED <<hubQ, framer, writer, sock, quiet, page, heard, linkStop>>

ReaderStep == ReaderLooks \/ ReaderReads \/ ReaderSends

\* spawn_frames. wait_frame ends when the hub's record is gone and its queue empty.
FramerTakes ==
    /\ framer.pc = "take"
    /\ IF hubQ.queue # <<>>
       THEN /\ framer' = [pc |-> "send", n |-> Head(hubQ.queue)]
            /\ hubQ' = [hubQ EXCEPT !.queue = Tail(@)]
       ELSE /\ ~hubQ.listed
            /\ framer' = [framer EXCEPT !.pc = "done"]
            /\ UNCHANGED hubQ
    /\ UNCHANGED <<reader, chan, writer, sock, quiet, page, heard, linkStop>>

FramerSends ==
    /\ framer.pc = "send"
    /\ \/ Sends(Ev("frame", framer.n)) /\ framer' = [pc |-> "take", n |-> 0]
       \/ chan.dropped /\ framer' = [pc |-> "done", n |-> 0] /\ UNCHANGED chan
    /\ UNCHANGED <<hubQ, reader, writer, sock, quiet, page, heard, linkStop>>

FramerStep == FramerTakes \/ FramerSends

----------------------------------------------------------------------------
(* Connection: the writer. *)

\* No producer is left.
ChannelClosed == reader.pc = "done" /\ framer.pc = "done"

EndsBecause(why) == writer' = [writer EXCEPT !.pc = "cut", !.why = why]

\* queue: the library buffers the frame, and may try to write it out.
QueueFrame(n, next) ==
    /\ writer' = [writer EXCEPT !.pc = next, !.buffer = Append(@, n), !.batch = @ + 1,
                                !.unflushed = @ \/ Len(sock.out) >= WireSize]
    /\ UNCHANGED <<quiet, heard>>

\* apply, read_messages. Only a drained frame is asked whether the batch is
\* due: enough frames, enough bytes, or the oldest has waited.
ApplyEvent(e) ==
    CASE e.k = "frame" ->
           \/ writer.pc = "drain" /\ QueueFrame(e.n, "flush")
           \/ /\ writer.pc = "wait" \/ writer.batch + 1 < FlushFrames
              /\ QueueFrame(e.n, "drain")
      [] e.k = "bytes" /\ e.n # Close ->
           /\ heard' = IF e.n = 0 THEN heard ELSE Append(heard, e.n)
           /\ quiet' = [quiet EXCEPT !.heard = 0, !.asked = 0]
           /\ writer' = [writer EXCEPT !.pc = "drain"]
      [] OTHER -> EndsBecause("page") /\ UNCHANGED <<quiet, heard>>

TakesEvent ==
    /\ chan.events # <<>>
    /\ chan' = [chan EXCEPT !.events = Tail(@)]
    /\ ApplyEvent(Head(chan.events))

\* The head of serve: everything waiting, unless a write has stalled.
Drains ==
    /\ writer.pc = "drain"
    /\ \/ ~writer.unflushed /\ TakesEvent
       \/ /\ writer.unflushed \/ chan.events = <<>>
          /\ UNCHANGED <<chan, quiet, heard>>
          /\ IF ~writer.unflushed /\ ChannelClosed
             THEN EndsBecause("hub") ELSE writer' = [writer EXCEPT !.pc = "flush"]
    /\ UNCHANGED <<hubQ, reader, framer, sock, page, linkStop>>

\* What the wire has room for leaves the buffer.
Room == WireSize - Len(sock.out)
Leaving(buffer) == IF Len(buffer) < Room THEN Len(buffer) ELSE Room

\* Mutant: a write that stalls half-way leaves nothing to retry.
LosesRest(buffer, next) ==
    /\ sock' = [sock EXCEPT !.out = @ \o SubSeq(buffer, 1, Leaving(buffer))]
    /\ writer' = [writer EXCEPT !.pc = next, !.buffer = <<>>, !.unflushed = FALSE, !.batch = 0]
FlushInto(buffer, next) ==
    LET n == Leaving(buffer)
    IN /\ sock' = [sock EXCEPT !.out = @ \o SubSeq(buffer, 1, n)]
       /\ writer' = [writer EXCEPT !.pc = next, !.buffer = SubSeq(buffer, n + 1, Len(buffer)),
                                   !.unflushed = n < Len(buffer), !.batch = 0]

\* flush; a batch that was due goes back to draining.
Flushes ==
    /\ writer.pc = "flush"
    /\ IF writer.batch = 0 /\ ~writer.unflushed
       THEN writer' = [writer EXCEPT !.pc = "live"] /\ UNCHANGED sock
       ELSE \/ sock.up /\ \E next \in {"drain", "live"} : FlushInto(writer.buffer, next)
            \/ ~sock.up /\ EndsBecause("failed") /\ UNCHANGED sock
    /\ UNCHANGED <<hubQ, reader, framer, chan, quiet, page, heard, linkStop>>

\* Liveness::step.
LooksAtClock ==
    /\ writer.pc = "live"
    /\ IF quiet.heard >= SilenceLimit /\ ~writer.unflushed
       THEN EndsBecause("silent") /\ UNCHANGED <<sock, quiet>>
       ELSE IF quiet.heard < SilenceLimit /\ quiet.asked >= PingAfter
       THEN \/ /\ sock.up
               /\ FlushInto(Append(writer.buffer, 0), "wait")
               /\ quiet' = [quiet EXCEPT !.asked = 0]
            \/ ~sock.up /\ EndsBecause("failed") /\ UNCHANGED <<sock, quiet>>
       ELSE writer' = [writer EXCEPT !.pc = "wait"] /\ UNCHANGED <<sock, quiet>>
    /\ UNCHANGED <<hubQ, reader, framer, chan, page, heard, linkStop>>

\* Link::next up to the next deadline; a stalled write is retried on its beat.
DeadlineReached == quiet.heard >= SilenceLimit \/ quiet.asked >= PingAfter

Waits ==
    /\ writer.pc = "wait"
    /\ \/ ~writer.unflushed /\ TakesEvent
       \/ /\ writer.unflushed \/ DeadlineReached \/ (chan.events = <<>> /\ ChannelClosed)
          /\ IF ~writer.unflushed /\ chan.events = <<>> /\ ChannelClosed
             THEN EndsBecause("hub") ELSE writer' = [writer EXCEPT !.pc = "drain"]
          /\ UNCHANGED <<chan, quiet, heard>>
    /\ UNCHANGED <<hubQ, reader, framer, sock, page, linkStop>>

\* The writer unwinds: nothing is said, only Link is dropped.
WriterPanics ==
    /\ writer.pc \in Serving
    /\ writer' = [writer EXCEPT !.pc = "drop", !.why = "panic"]
    /\ UNCHANGED <<hubQ, reader, framer, chan, sock, quiet, page, heard, linkStop>>

\* finish, then Link::drop, one statement after the other.
CutsOff ==
    /\ writer.pc = "cut"
    /\ sock' = [sock EXCEPT !.up = FALSE]
    /\ writer' = [writer EXCEPT !.pc = "drop"]
    /\ UNCHANGED <<hubQ, reader, framer, chan, quiet, page, heard, linkStop>>

SetsStop ==
    /\ writer.pc = "drop"
    /\ linkStop' = TRUE
    /\ writer' = [writer EXCEPT !.pc = "release"]
    /\ UNCHANGED <<hubQ, reader, framer, chan, sock, quiet, page, heard>>

\* TerminalSession::close: the hub's record goes, and the queue's sender with it.
ReleasesClient ==
    /\ writer.pc = "release"
    /\ hubQ' = [hubQ EXCEPT !.listed = FALSE]
    /\ writer' = [writer EXCEPT !.pc = "shut"]
    /\ UNCHANGED <<reader, framer, chan, sock, quiet, page, heard, linkStop>>

ShutsDown ==
    /\ writer.pc = "shut"
    /\ sock' = [sock EXCEPT !.up = FALSE]
    /\ writer' = [writer EXCEPT !.pc = "forget"]
    /\ UNCHANGED <<hubQ, reader, framer, chan, quiet, page, heard, linkStop>>

\* Mutant: the threads are joined before the receiver is dropped.
KeepsReceiver ==
    /\ writer.pc = "forget"
    /\ writer' = [writer EXCEPT !.pc = "join"]
    /\ UNCHANGED <<hubQ, reader, framer, chan, sock, quiet, page, heard, linkStop>>
DropsReceiver ==
    /\ writer.pc = "forget"
    /\ chan' = [events |-> <<>>, dropped |-> TRUE]
    /\ writer' = [writer EXCEPT !.pc = "join"]
    /\ UNCHANGED <<hubQ, reader, framer, sock, quiet, page, heard, linkStop>>

\* Both joined; the last handle on the session goes with them.
Joins ==
    /\ writer.pc = "join"
    /\ reader.pc = "done" /\ framer.pc = "done"
    /\ writer' = [writer EXCEPT !.pc = "done", !.buffer = <<>>]
    /\ hubQ' = [hubQ EXCEPT !.listed = FALSE, !.queue = <<>>]
    /\ UNCHANGED <<reader, framer, chan, sock, quiet, page, heard, linkStop>>

WriterStep ==
    \/ OpenLink \/ Drains \/ Flushes \/ LooksAtClock \/ Waits
    \/ CutsOff \/ SetsStop \/ ReleasesClient \/ ShutsDown \/ DropsReceiver \/ Joins

\* A tick is long next to what the threads and a page that reads do in it.
Ticks ==
    /\ writer.pc = "wait"
    /\ quiet.heard < SilenceLimit
    /\ writer.unflushed \/ (chan.events = <<>> /\ ~DeadlineReached)
    /\ writer.unflushed \/ (sock.in = <<>> /\ reader.pc # "send")
    /\ page.mode = "reads" => sock.out = <<>> /\ ~writer.unflushed
    /\ quiet' = [heard |-> quiet.heard + 1,
                 asked |-> IF quiet.asked < PingAfter THEN quiet.asked + 1 ELSE quiet.asked]
    /\ UNCHANGED <<hubQ, reader, framer, chan, writer, sock, page, heard, linkStop>>

TSNext ==
    \/ HubSends \/ PageReads \/ PageSends \/ PageTurns \/ SystemGivesUp
    \/ ReaderStep \/ FramerStep \/ WriterStep \/ WriterPanics \/ Ticks

TSSpec == TSInit /\ [][TSNext]_tsvars

----------------------------------------------------------------------------
(* Properties *)

OnlyFrames(s) == FlattenSeq([i \in DOMAIN s |-> IF s[i] = 0 THEN <<>> ELSE <<s[i]>>])
InChannel(k) == LET es == chan.events
                IN  FlattenSeq([i \in DOMAIN es |-> IF es[i].k = k THEN <<es[i].n>> ELSE <<>>])
InHand(t) == IF t.pc = "send" THEN <<t.n>> ELSE <<>>

\* Until the connection ends, what the page was shown and what is on its way
\* is everything the hub had for it, in order and nothing twice, through every
\* stall, partial flush and batch; what the hub heard is a beginning of what
\* the page sent. A page that stopped reading is not bought memory for: at
\* most one batch waits outside the bounded queues, pings aside. A page that
\* never stopped reading and was not let go is not taken for silent
\* (terminal_connection.rs serve, terminal_pipe.rs).
SocketExact ==
    /\ writer.pc \in Serving =>
         OnlyFrames(page.shown \o sock.out \o writer.buffer) \o InChannel("frame")
            \o InHand(framer) \o hubQ.queue = [i \in 1 .. hubQ.sent |-> i]
    /\ IsPrefix(heard, [i \in 1 .. page.sent |-> i])
    /\ Len(OnlyFrames(writer.buffer)) <= FlushFrames
    /\ writer.why = "silent" => page.slept \/ page.mode \in {"left", "gone"} \/ ~hubQ.listed
    /\ writer.pc = "done" => ~hubQ.listed

\* A page that closed or vanished does not keep its connection, its two
\* threads and its place at the hub, whichever thread was waiting for which
\* when it went (Link::drop); nor does a writer that panicked.
SocketEnds ==
    (page.mode \in {"left", "gone"} \/ writer.pc \notin Serving \cup {"open"}) ~> (writer.pc = "done")
=============================================================================
