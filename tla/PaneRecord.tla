----------------------------- MODULE PaneRecord -----------------------------
(***************************************************************************)
(* What the hub keeps of one pane's output so that a client attaching      *)
(* later can be put in front of its screen (hub_panes.rs, hub_output.rs,   *)
(* hub_modes.rs), and how a replay rebuilds that screen (hub_replay.rs).   *)
(* On the normal screen: a byte ring and a snapshot of the screen as of    *)
(* `covered` bytes into it. On the alternate screen: a snapshot and the    *)
(* bytes since. The worker takes snapshots from its own emulator, between  *)
(* the chunks of a pass or paced at its end, and only where the stream     *)
(* ends with every sequence closed.                                        *)
(*                                                                         *)
(* A chunk is one read of the PTY; it may switch screens, end inside an    *)
(* escape sequence, and open or close a synchronized update, whose bytes   *)
(* an emulator holds off its grid. A screen is the chunks that painted it. *)
(***************************************************************************)
EXTENDS Integers, Sequences, SequencesExt

CONSTANTS
    MaxChunks,      \* bound: chunks the program ever writes
    Cap,            \* MAX_TERMINAL_SCROLLBACK_BYTES, in chunks
    OwedLimit,      \* SNAPSHOT_OWED_BYTES, in chunks
    LeavesOpen      \* whether a program may leave the alternate screen with a
                    \* sequence torn before it or inside a synchronized update

ASSUME CapAssumption ==
    Cap \in Nat /\ OwedLimit \in Nat /\ MaxChunks \in Nat /\ LeavesOpen \in BOOLEAN

Garbage == 0        \* a sequence's tail read as ordinary text
NoChunk == 0
NoScreen == [cells |-> <<>>, seam |-> FALSE]

Chunk == [id : 1 .. MaxChunks, to : {"same", "alt", "normal"}, torn : BOOLEAN,
          continues : BOOLEAN, sync : {"none", "open", "close"}]

VARIABLES
    written,        \* chunks written so far
    emu,            \* the worker's emulator for the pane
    observed_alt,   \* PaneModeTracker.alt_screen, and PaneState.modes
    scrollback, covered, normal_screen,      \* PaneState: the normal record
    screen, since,                           \* PaneState: the alternate record
    pace,           \* PaneModeTracker.pace: whether there is one, its age, owed
    restless,       \* the pass owes the pane an end-of-tick snapshot
    pass            \* "idle" between passes, "drain" inside one

record == <<scrollback, covered, normal_screen, screen, since>>
prvars == <<written, emu, observed_alt, record, pace, restless, pass>>

----------------------------------------------------------------------------
(* A terminal emulator, the worker's or a client's *)

NewEmulator == [alt |-> FALSE, normal |-> <<>>, other |-> <<>>,
                torn |-> NoChunk, syncing |-> FALSE, held |-> <<>>]

\* The bytes a terminal is given: a chunk, or what the hub puts between them.
Bytes(c) == [op |-> "chunk", chunk |-> c]
Prelude(alt) == [op |-> "prelude", alt |-> alt]
LeaveAlt == [op |-> "leave"]
Repaint(s) == [op |-> "repaint", cells |-> s.cells]

Switch(e, alt) ==
    [e EXCEPT !.alt = alt, !.other = IF alt /\ ~e.alt THEN <<>> ELSE @]

\* A chunk whose head was never read shows its tail as text.
PaintChunk(e, c) ==
    LET on == IF c.to = "same" THEN e ELSE Switch(e, c.to = "alt")
        painted == IF c.continues /\ e.torn # c.id - 1 THEN <<Garbage, c.id>> ELSE <<c.id>>
        torn == IF c.torn THEN c.id ELSE NoChunk
    IN  IF on.alt THEN [on EXCEPT !.other = @ \o painted, !.torn = torn]
        ELSE [on EXCEPT !.normal = @ \o painted, !.torn = torn]

\* Everything the hub inserts starts with an escape, which ends a torn sequence.
Paint(e, b) ==
    CASE b.op = "chunk" -> PaintChunk(e, b.chunk)
      [] b.op = "prelude" -> [Switch(e, b.alt) EXCEPT !.torn = NoChunk]
      [] b.op = "leave" -> [Switch(e, FALSE) EXCEPT !.torn = NoChunk]
      [] b.op = "repaint" -> IF e.alt THEN [e EXCEPT !.other = b.cells, !.torn = NoChunk]
                             ELSE [e EXCEPT !.normal = b.cells, !.torn = NoChunk]

\* stop_sync: the update ends and its bytes reach the grid.
StopSync(e) == FoldLeft(Paint, [e EXCEPT !.syncing = FALSE, !.held = <<>>], e.held)

\* advance: bytes inside a synchronized update are held until it closes.
Advance(e, b) ==
    LET opens == b.op = "chunk" /\ b.chunk.sync = "open"
        closes == b.op = "chunk" /\ b.chunk.sync = "close"
    IN  CASE e.syncing \/ opens ->
                 LET f == [e EXCEPT !.syncing = TRUE, !.held = Append(@, b)]
                 IN  IF closes THEN StopSync(f) ELSE f
          [] OTHER -> Paint(e, b)

\* screen_current, at_boundary
ScreenCurrent(e) == e.held = <<>>
AtBoundary(e) ==
    ScreenCurrent(e) /\ e.torn = NoChunk

\* screen_snapshot, and whether it is spliced into an open sequence
Snapshot(e) == [cells |-> IF e.alt THEN e.other ELSE e.normal, seam |-> e.torn # NoChunk]

----------------------------------------------------------------------------
(* The pace of snapshots *)

NoPace == [kept |-> FALSE, stored |-> FALSE, owed |-> 0]
Stored == [kept |-> TRUE, stored |-> TRUE, owed |-> 0]

\* snapshot_due; `elapsed` says whether SNAPSHOT_INTERVAL has passed.
SnapshotDue(pc, elapsed) ==
    ~pc.kept \/ pc.owed > OwedLimit \/ ~pc.stored \/ elapsed

----------------------------------------------------------------------------
(* One chunk: record_pane_output *)

\* push_scrollback's eviction: history only, never past the covered mark.
Evicted(ring) ==
    IF Len(ring) > Cap /\ covered > 0
    THEN IF Len(ring) - Cap < covered THEN Len(ring) - Cap ELSE covered
    ELSE 0

\* `covered` moves back with the bytes it counts.
MarkAfter(ring) == covered - Evicted(ring)

\* store_screen: a fresh screen supersedes what was owed on top of the old one.
StoreScreen(e) == screen' = Snapshot(e) /\ since' = <<>>

\* Back on the normal screen what was kept for the other one is spent.
SpendAlternate(changed) ==
    /\ screen' = IF changed THEN NoScreen ELSE screen
    /\ since' = IF changed THEN <<>> ELSE since

\* The chunk is filed under the screen the pane is on after it; `shot` is the
\* screen it brings with it, if it does.
RecordAndBroadcast(c, alt, changed, shot) ==
    IF alt
    THEN /\ IF shot THEN StoreScreen(emu')
            ELSE since' = Append(since, c) /\ UNCHANGED screen
         /\ UNCHANGED <<scrollback, covered, normal_screen>>
    ELSE /\ SpendAlternate(changed)
         /\ LET ring == Append(scrollback, c) IN
            /\ scrollback' = SubSeq(ring, Evicted(ring) + 1, Len(ring))
            /\ covered' = MarkAfter(ring)
         /\ UNCHANGED normal_screen

\* Mutant: a torn stream never gets its snapshot, however long it grows.
ReadyNever(e, owed) == AtBoundary(e)
\* A record past the cap is ready for a snapshot where the stream ends clean,
\* or over the seam once it has outgrown a second ring.
Ready(e, owed) ==
    AtBoundary(e) \/ (owed > 2 * Cap /\ ScreenCurrent(e))

\* store_normal_screen on top of the chunk just recorded: what was recorded so
\* far is covered.
RecordOnNormal(c, changed) ==
    LET ring == Append(scrollback, c)
        kept == SubSeq(ring, Evicted(ring) + 1, Len(ring))
        owed == Len(kept) - MarkAfter(ring)
    IN  IF owed > Cap /\ Ready(emu', owed)
        THEN /\ SpendAlternate(changed)
             /\ scrollback' = kept /\ covered' = Len(kept)
             /\ normal_screen' = Snapshot(emu')
             /\ pace' = Stored
        ELSE /\ RecordAndBroadcast(c, FALSE, changed, FALSE)
             /\ pace' = IF changed THEN NoPace ELSE pace

\* The entry takes its own screen; a crowded record is refreshed at once;
\* anything else leaves the pane restless.
RecordOnAlt(c, changed) ==
    LET owed == Len(since) + 1 IN
    IF changed /\ AtBoundary(emu')
    THEN /\ RecordAndBroadcast(c, TRUE, changed, TRUE)
         /\ pace' = Stored
         /\ UNCHANGED restless
    ELSE IF owed > Cap /\ Ready(emu', owed)
    THEN /\ StoreScreen(emu')
         /\ pace' = Stored
         /\ UNCHANGED <<scrollback, covered, normal_screen, restless>>
    ELSE /\ RecordAndBroadcast(c, TRUE, changed, FALSE)
         /\ pace' = [(IF changed THEN NoPace ELSE pace) EXCEPT !.kept = TRUE, !.owed = owed]
         /\ restless' = TRUE

RecordPaneOutput(c) ==
    /\ emu' = Advance(emu, Bytes(c))
    /\ observed_alt' = emu'.alt
    /\ IF emu'.alt
       THEN RecordOnAlt(c, emu'.alt # observed_alt)
       ELSE RecordOnNormal(c, emu'.alt # observed_alt) /\ UNCHANGED restless

\* The program leaves the alternate screen only between sequences and updates,
\* unless LeavesOpen says otherwise.
CanWrite(c) ==
    /\ c.id = written + 1
    /\ c.continues = (emu.torn # NoChunk \/ (emu.held # <<>> /\ Last(emu.held).chunk.torn))
    /\ c.sync = "open" => ~emu.syncing
    /\ c.sync = "close" => emu.syncing
    /\ c.to = "normal" /\ ~LeavesOpen => ~c.continues /\ ~emu.syncing /\ c.sync = "none"

Output(c) ==
    /\ CanWrite(c)
    /\ written' = c.id
    /\ RecordPaneOutput(c)
    /\ pass' = "drain"

----------------------------------------------------------------------------
(* The end of a pass, and a resize before the next *)

\* settle_sync and store_settled: an update the program never closed ends on
\* the clock.
SettleSync ==
    /\ pass = "drain" /\ emu.syncing
    /\ emu' = StopSync(emu)
    /\ observed_alt' = emu'.alt
    /\ LET changed == emu'.alt # observed_alt IN
        /\ SpendAlternate(changed /\ ~emu'.alt)
        /\ pace' = IF changed THEN NoPace ELSE pace
    /\ restless' = (restless \/ emu'.alt)
    /\ UNCHANGED <<written, scrollback, covered, normal_screen, pass>>

\* Mutant: only the panes that wrote in this pass are looked at.
OnlyRestless == restless
Candidate == restless \/ pace.owed > 0

\* settle_restless, then store_screen.
SettleRestless(elapsed) ==
    /\ pass = "drain"
    /\ IF Candidate /\ SnapshotDue(pace, elapsed) /\ AtBoundary(emu)
       THEN StoreScreen(emu) /\ pace' = Stored
       ELSE UNCHANGED <<screen, since, pace>>
    /\ restless' = FALSE
    /\ pass' = "idle"
    /\ UNCHANGED <<written, emu, observed_alt, scrollback, covered, normal_screen>>

\* A pass without output, for a deadline.
BeginPass ==
    /\ pass = "idle"
    /\ pass' = "drain"
    /\ UNCHANGED <<written, emu, observed_alt, record, pace, restless>>

\* resize_pane: the screen of the new grid replaces the record's, where the
\* stream ends clean. A pane that wrote nothing has no screen to take.
ResizePane ==
    /\ pass = "idle" /\ written > 0
    /\ IF AtBoundary(emu)
       THEN /\ IF observed_alt
               THEN /\ StoreScreen(emu)
                    /\ UNCHANGED <<covered, normal_screen>>
               ELSE /\ covered' = Len(scrollback) /\ normal_screen' = Snapshot(emu)
                    /\ UNCHANGED <<screen, since>>
            /\ pace' = Stored
       ELSE /\ pace' = [pace EXCEPT !.stored = FALSE]
            /\ UNCHANGED <<covered, normal_screen, screen, since>>
    /\ UNCHANGED <<written, emu, observed_alt, scrollback, restless, pass>>

PRInit ==
    /\ written = 0 /\ emu = NewEmulator /\ observed_alt = FALSE
    /\ scrollback = <<>> /\ covered = 0 /\ normal_screen = NoScreen
    /\ screen = NoScreen /\ since = <<>>
    /\ pace = NoPace /\ restless = FALSE /\ pass = "idle"

PRNext ==
    \/ \E c \in Chunk : Output(c)
    \/ SettleSync
    \/ \E elapsed \in BOOLEAN : SettleRestless(elapsed)
    \/ BeginPass
    \/ ResizePane

PRSpec == PRInit /\ [][PRNext]_prvars

----------------------------------------------------------------------------
(* What a client attaching now is given *)

ChunksOf(s) == [i \in 1 .. Len(s) |-> Bytes(s[i])]
RepaintOf(s) == IF s = NoScreen THEN <<>> ELSE <<Repaint(s)>>

\* Mutant: the snapshot follows the whole ring.
SnapshotLast ==
    ChunksOf(scrollback) \o RepaintOf(normal_screen)
\* push_normal_record
NormalRecord ==
    ChunksOf(SubSeq(scrollback, 1, covered)) \o RepaintOf(normal_screen)
        \o ChunksOf(SubSeq(scrollback, covered + 1, Len(scrollback)))

\* PaneReplay::capture and replay_pane
Replay ==
    IF observed_alt
    THEN (IF scrollback = <<>> /\ normal_screen = NoScreen THEN <<>>
          ELSE <<LeaveAlt>> \o NormalRecord)
            \o <<Prelude(TRUE)>> \o RepaintOf(screen) \o ChunksOf(since)
    ELSE <<Prelude(FALSE)>> \o NormalRecord

\* The terminal of a client that attaches now, and of one that was there from
\* the start, once any open update has ended.
Rebuilt == StopSync(FoldLeft(Advance, NewEmulator, Replay))
Attached == StopSync(emu)

----------------------------------------------------------------------------
(* Properties *)

\* The recorded screen was taken since the program entered this screen.
Anchored == screen.cells # <<>> /\ Head(screen.cells) = Head(emu.other)

\* A client that attaches sees the screen every other client sees, on the
\* screen the program is on and on the one underneath, whatever was evicted,
\* snapshotted or deferred. Two prices the code names are exempt: a seam a
\* snapshot was forced over, and an entry whose screen still waits for the
\* stream to close.
ReplayFaithful ==
    /\ ~normal_screen.seam /\ ~screen.seam
    /\ observed_alt => Anchored \/ (pass = "idle" /\ AtBoundary(emu))
    => /\ Rebuilt.alt = Attached.alt
       /\ Rebuilt.normal = Attached.normal
       /\ Attached.alt => Rebuilt.other = Attached.other

\* What a replay cannot do without is bounded: a tail past two caps and a
\* chunk is one that a synchronized update kept from being snapshotted. The
\* covered mark stays inside the ring while the ring loses its oldest bytes.
RecordBounded ==
    /\ ToSet(scrollback) \cup ToSet(since) \subseteq Chunk
    /\ covered \in 0 .. Len(scrollback)
    /\ \A tail \in {SubSeq(scrollback, covered + 1, Len(scrollback)), since} :
          Len(tail) > 2 * Cap + 1 => \E i \in DOMAIN tail : tail[i].sync = "open"

\* Both: the record is enough for whoever attaches, and no more than its caps
\* (hub_panes.rs record_and_broadcast, hub_helpers.rs PaneState).
RecordRight == ReplayFaithful /\ RecordBounded

\* "Never dropped, only superseded" (PaneState::since): the bytes kept for the
\* alternate screen that also reach the normal one are still there for a client
\* that attaches once the program is back on it.
SinceOnlySuperseded ==
    ~observed_alt /\ ~normal_screen.seam => Rebuilt.normal = Attached.normal

\* A pane that falls silent on the alternate screen has what it still owes
\* folded into a screen by a later pass.
TailSettles ==
    observed_alt /\ AtBoundary(emu) /\ written = MaxChunks ~> since = <<>>

=============================================================================
