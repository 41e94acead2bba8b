------------------------------ MODULE FrameLoop ------------------------------
(* The attached screen's loop (application/event_loop.rs): each turn takes   *)
(* what the session, the terminals, the keyboard and the git workers have    *)
(* left, and draws a frame only when redraw.rs was told of a change.  What   *)
(* changes by itself with a clock - the fade of recently touched files, the  *)
(* blinking of a tab that wants attention, the caret of a search - has to be *)
(* noticed as well, and the wall clock may be set back.  The loop is one     *)
(* thread: a turn is one step, and everything else happens between turns.    *)
EXTENDS Naturals, Sequences, FiniteSets

CONSTANTS
    Tabs,          \* the open projects
    FileSets,      \* sets of modification times a status list may show
    FreshFor,      \* FRESH_DURATION
    HotWindow,     \* hot_window_secs
    MaxClock,      \* bound: the wall clock runs over 0..MaxClock
    FLScripts      \* bounds: which kinds of thing happen, and how many

Never == 1000
ASSUME FrameAssumption ==
    /\ 1 \in Tabs
    /\ FreshFor \in Nat /\ HotWindow \in Nat /\ MaxClock \in Nat
    /\ MaxClock + HotWindow + FreshFor < Never
    /\ FileSets \subseteq SUBSET (0 .. MaxClock)

Held == {"snapshot", "page", "tree"}      \* applied by the project in front only
Sizes == {0, 1, 2}                        \* 0: a dimension is zero

VARIABLES
    clk,       \* the wall clock and the two blink phases
    front,     \* the active tab
    app,       \* project -> what its view holds
    inbox,     \* what waits for the next turn
    real,      \* the backend's size
    geo,       \* ScreenGeometry
    red,       \* RedrawState
    drawn,     \* what the last frame showed
    turn,      \* TRUE from the end of a turn to the next thing that happens
    flBudget   \* bound

flvars == <<clk, front, app, inbox, real, geo, red, drawn, turn, flBudget>>

----------------------------------------------------------------------------
(* Hot files (ui/hot_stage.rs, ui/status_view.rs).                          *)

Age(m) == IF clk.now > m THEN clk.now - m ELSE 0
Stage(m) == CASE Age(m) >= HotWindow -> "cool"
              [] Age(m) < HotWindow /\ Age(m) < FreshFor -> "fresh"
              [] OTHER -> "warm"

Lesser(a, b) == IF a < b THEN a ELSE b
Transition(m) ==
    CASE Age(m) < HotWindow /\ Age(m) < FreshFor -> m + Lesser(FreshFor, HotWindow)
      [] Age(m) < HotWindow /\ Age(m) >= FreshFor -> m + HotWindow
      [] OTHER -> Never
Earliest(S) == CHOOSE t \in S \cup {Never} : \A u \in S : t <= u

NoCache == [at |-> Never, deadline |-> Never]

\* next_hot_deadline: memoized from the reading on, up to the deadline.
HotCache(a) ==
    IF clk.now >= a.cache.at /\ clk.now < a.cache.deadline THEN a.cache
    ELSE [at |-> clk.now, deadline |-> Earliest({Transition(m) : m \in a.files})]

NextHot(a) == IF a.mode = "status" THEN HotCache(a).deadline ELSE Never

----------------------------------------------------------------------------
(* redraw.rs *)

AskFrame(r) == [r EXCEPT !.dirty = TRUE]
AskFrameIf(r, b) == IF b THEN AskFrame(r) ELSE r

ObserveScreen(r, size) ==
    IF size = 0 \/ r.screen = size THEN r ELSE AskFrame([r EXCEPT !.screen = size])

\* The first state observed is not a change; every later one is.
ObserveAttention(r, attn) ==
    LET phase == IF \E p \in Tabs : attn[p] THEN clk.bright ELSE "none"
        changed == r.attnKnown /\ r.attn # attn
    IN AskFrameIf([r EXCEPT !.attn = attn, !.attnKnown = TRUE, !.phase = phase], changed \/ r.phase # phase)

\* Mutant: only a deadline that has passed asks for a frame.
ObserveCrossing(r, next) ==
    AskFrameIf([r EXCEPT !.hotSeen = TRUE, !.hot = next], clk.now >= r.hot)
\* A deadline passed, or an earlier one came back with the clock.
ObserveHot(r, next) ==
    AskFrameIf([r EXCEPT !.hotSeen = TRUE, !.hot = next],
          \/ clk.now >= r.hot
          \/ r.hotSeen /\ next < r.hot)

ObserveCaret(r, active) ==
    LET phase == IF active THEN clk.lit ELSE "none" IN
    AskFrameIf([r EXCEPT !.caret = phase], r.caret # phase)

----------------------------------------------------------------------------
(* One turn, stage by stage.  A stage takes and returns                      *)
(* [front, app, red, geo].                                                   *)

Seen(a) == [a EXCEPT !.unread = FALSE]

\* SessionLink::sync: the session's choice of the tab in front.
Sync(s) ==
    IF inbox.session = 0 THEN s
    ELSE [s EXCEPT !.front = inbox.session,
                   !.app[inbox.session] = Seen(s.app[inbox.session]),
                   !.red = AskFrame(s.red)]

\* poll_at_with_activity: output of a pane that is not shown changes no frame.
TermEvent(a, e) ==
    CASE e.kind = "output" -> [a EXCEPT !.out[e.pane] = @ + 1]
      [] e.kind = "title" -> [a EXCEPT !.titles = @ + 1]
      [] e.kind = "attention" -> [a EXCEPT !.unread = TRUE]
      [] e.kind = "replaced" -> [a EXCEPT !.ids = @ + 1, !.unread = TRUE]
FrameChanged(a, e) ==
    CASE e.kind = "output" -> e.pane = a.pane
      [] e.kind = "attention" -> ~a.unread
      [] OTHER -> TRUE

\* poll_terminals_before_input: every project drains, the one in front is seen.
PollTerminals(s) ==
    LET after == [p \in Tabs |-> IF inbox.term[p] = << >> THEN s.app[p]
                                 ELSE TermEvent(s.app[p], inbox.term[p][1])]
        changed == inbox.term[s.front] # << >> /\ FrameChanged(s.app[s.front], inbox.term[s.front][1])
    IN [s EXCEPT !.app = [after EXCEPT ![s.front] = Seen(after[s.front])],
                  !.red = AskFrameIf(s.red, changed)]

\* What the keys that matter to a frame do to the project in front.
KeyEffect(a, k) ==
    CASE k = "pane" -> [a EXCEPT !.pane = 3 - @]
      [] k = "search" -> [a EXCEPT !.search = ~@]
      [] k = "mode" -> [a EXCEPT !.mode = IF @ = "status" THEN "log" ELSE "status"]
      [] OTHER -> a

\* dispatch_input_event: one event; a key coming up or a moving pointer acts on nothing.
Input(s) ==
    CASE inbox.input = "none" \/ inbox.input = "idle" -> s
      [] inbox.input = "resize" -> [s EXCEPT !.geo.stale = TRUE, !.red = AskFrame(s.red)]
      [] inbox.input = "redraw" -> [s EXCEPT !.geo.stale = TRUE, !.red = AskFrame(s.red)]
      [] OTHER -> [s EXCEPT !.app[s.front] = KeyEffect(s.app[s.front], inbox.input),
                            !.red = AskFrame(s.red)]

\* Loads are applied everywhere; snapshots, pages and the tree only in front.
ApplyHeld(a) ==
    [a EXCEPT !.held = {},
              !.ver = @ + Cardinality(a.held),
              !.files = IF "snapshot" \in a.held THEN a.files2 ELSE @,
              !.cache = IF "snapshot" \in a.held THEN NoCache ELSE @]
PollGit(s) ==
    LET got == [p \in Tabs |-> [s.app[p] EXCEPT !.loads = @ + inbox.loads[p],
                                                !.held = @ \cup inbox.held[p].what,
                                                !.files2 = IF "snapshot" \in inbox.held[p].what
                                                           THEN inbox.held[p].files ELSE @]]
        changed == inbox.loads[s.front] > 0 \/ got[s.front].held # {}
    IN [s EXCEPT !.app = [got EXCEPT ![s.front] = ApplyHeld(got[s.front])],
                  !.red = AskFrameIf(s.red, changed)]

\* ScreenGeometry::screen, record: measured while stale; a zero keeps the last.
Measure(g) ==
    IF g.screen # 0 /\ ~g.stale THEN g
    ELSE IF real = 0 THEN g
    ELSE [g EXCEPT !.screen = real, !.stale = FALSE]

\* pane_sizes: kept while nothing the layout depends on has moved.
LayoutKey(g, a) == <<g.screen, a.pane>>
PaneSizes(g, a) ==
    IF g.key = LayoutKey(g, a) /\ g.ids = a.ids THEN g
    ELSE [g EXCEPT !.key = LayoutKey(g, a), !.ids = a.ids]

Lay(s) ==
    LET g == Measure(s.geo) IN
    [s EXCEPT !.geo = PaneSizes(g, s.app[s.front]), !.red = ObserveScreen(s.red, g.screen)]

Attention(s) == [p \in Tabs |-> s.app[p].unread]

\* The clocks are read last, just before the frame.
Observe(s) ==
    LET a == s.app[s.front]
        r1 == ObserveAttention(s.red, Attention(s))
        r2 == ObserveHot(r1, NextHot(a))
        r3 == ObserveCaret(r2, a.search)
    IN [s EXCEPT !.red = r3, !.app[s.front].cache = IF a.mode = "status" THEN HotCache(a) ELSE a.cache]

\* What a frame drawn now shows.
Picture(s) ==
    LET a == s.app[s.front] IN
    [tab |-> s.front, out |-> a.out[a.pane], pane |-> a.pane, titles |-> a.titles, ids |-> a.ids,
     ver |-> a.ver, loads |-> a.loads, mode |-> a.mode, search |-> a.search,
     attn |-> Attention(s),
     blink |-> IF \E p \in Tabs : s.app[p].unread THEN clk.bright ELSE "none",
     caret |-> IF a.search THEN clk.lit ELSE "none",
     hot |-> IF a.mode = "status" THEN {<<m, Stage(m)>> : m \in a.files} ELSE {}]

EmptyInbox == [session |-> 0, term |-> [p \in Tabs |-> << >>], input |-> "none",
               loads |-> [p \in Tabs |-> 0], held |-> [p \in Tabs |-> [what |-> {}, files |-> {}]]]

\* main_loop, once round.
Turn ==
    LET now == [front |-> front, app |-> app, red |-> red, geo |-> geo]
        end == Observe(Lay(PollGit(Input(PollTerminals(Sync(now))))))
    IN /\ ~turn
       /\ front' = end.front
       /\ app' = end.app
       /\ geo' = end.geo
       /\ red' = [end.red EXCEPT !.dirty = FALSE]
       /\ drawn' = IF end.red.dirty THEN Picture(end) ELSE drawn
       /\ inbox' = EmptyInbox
       /\ turn' = TRUE
       /\ UNCHANGED <<clk, real, flBudget>>

----------------------------------------------------------------------------
(* Between turns. *)

NewApp(fs) ==
    [pane |-> 1, out |-> <<0, 0>>, titles |-> 0, ids |-> 0, unread |-> FALSE,
     search |-> FALSE, mode |-> "status", loads |-> 0, ver |-> 0,
     held |-> {}, files |-> fs, files2 |-> {}, cache |-> NoCache]

\* RedrawState::new and the first turn's empty screen.
FLInit ==
    \E fs \in FileSets, t \in 0 .. MaxClock :
       /\ clk = [now |-> t, bright |-> "on", lit |-> "on"]
       /\ front = 1
       /\ app = [p \in Tabs |-> NewApp(fs)]
       /\ inbox = EmptyInbox
       /\ real = 1
       /\ geo = [screen |-> 0, stale |-> FALSE, key |-> << >>, ids |-> 0]
       /\ red = [dirty |-> TRUE, screen |-> 0, attn |-> [p \in Tabs |-> FALSE], attnKnown |-> FALSE,
                 phase |-> "none", hotSeen |-> FALSE, hot |-> Never, caret |-> "none"]
       /\ drawn = [tab |-> 0]
       /\ turn = FALSE
       /\ flBudget \in FLScripts

Happens(kind) ==
    /\ kind \in flBudget.kinds /\ flBudget.left > 0
    /\ flBudget' = [flBudget EXCEPT !.left = @ - 1]
    /\ turn' = FALSE

\* The wall clock moves, backwards too.
ClockMoves ==
    /\ Happens("clock")
    /\ \E t \in 0 .. MaxClock : clk' = [clk EXCEPT !.now = t]
    /\ UNCHANGED <<front, app, inbox, real, geo, red, drawn>>

Flip(x) == IF x = "on" THEN "off" ELSE "on"
Blinks ==
    /\ Happens("blink")
    /\ clk' \in {[clk EXCEPT !.bright = Flip(@)], [clk EXCEPT !.lit = Flip(@)]}
    /\ UNCHANGED <<front, app, inbox, real, geo, red, drawn>>

SessionMoves ==
    /\ Happens("session")
    /\ \E p \in Tabs : inbox' = [inbox EXCEPT !.session = p]
    /\ UNCHANGED <<clk, front, app, real, geo, red, drawn>>

TermEvents == [kind : {"output"}, pane : {1, 2}]
              \cup [kind : {"title", "attention", "replaced"}, pane : {1}]
TerminalSends ==
    /\ Happens("terminal")
    /\ \E p \in Tabs, e \in TermEvents :
         inbox.term[p] = << >> /\ inbox' = [inbox EXCEPT !.term[p] = <<e>>]
    /\ UNCHANGED <<clk, front, app, real, geo, red, drawn>>

PersonActs ==
    /\ Happens("input")
    /\ inbox.input = "none"
    /\ \E k \in {"pane", "search", "mode", "other", "idle", "redraw"} :
         inbox' = [inbox EXCEPT !.input = k]
    /\ UNCHANGED <<clk, front, app, real, geo, red, drawn>>

\* The terminal is resized and says so.
WindowResizes ==
    /\ Happens("resize")
    /\ inbox.input = "none"
    /\ real' \in Sizes \ {real}
    /\ inbox' = [inbox EXCEPT !.input = "resize"]
    /\ UNCHANGED <<clk, front, app, geo, red, drawn>>

WorkersSend ==
    /\ Happens("git")
    /\ \E p \in Tabs :
         \/ inbox' = [inbox EXCEPT !.loads[p] = @ + 1]
         \/ \E w \in Held, fs \in FileSets :
              inbox' = [inbox EXCEPT !.held[p] = [what |-> @.what \cup {w},
                                                  files |-> IF w = "snapshot" THEN fs ELSE @.files]]
    /\ UNCHANGED <<clk, front, app, real, geo, red, drawn>>

FLNext == Turn \/ ClockMoves \/ Blinks \/ SessionMoves \/ TerminalSends \/ PersonActs
          \/ WindowResizes \/ WorkersSend

FLSpec == FLInit /\ [][FLNext]_flvars

----------------------------------------------------------------------------
(* Properties *)

\* At the end of every turn the screen shows what a frame drawn now would
\* show, although most turns draw none: no output of a shown pane, no result
\* applied to the project in front, no tab brought forward, no attention
\* raised elsewhere, no blink and no fading file is missed, wherever the wall
\* clock has been set to meanwhile.  And the panes are laid out for the
\* backend's size and for the panes there are (redraw.rs, screen_geometry.rs).
FrameCurrent ==
    turn => /\ drawn = Picture([front |-> front, app |-> app])
            /\ real # 0 => geo.screen = real
            /\ geo.key = LayoutKey(geo, app[front]) /\ geo.ids = app[front].ids
=============================================================================
