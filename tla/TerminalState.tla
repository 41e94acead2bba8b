--------------------------- MODULE TerminalState ---------------------------
(* What one attached screen keeps of a repository's terminals, as operators  *)
(* on a view record: the pane list it adopts from the session's events, the  *)
(* pane the keyboard goes to, which of the three areas fills the screen, and *)
(* the sizes it asked for.  Source: runtime/terminal/ (lifecycle, events,    *)
(* session_panes, resize, state), app/navigation/terminal_ctrl.rs and        *)
(* focus.rs, app/session_io.rs.                                              *)
EXTENDS Naturals, Sequences, FiniteSets, SequencesExt

CONSTANTS
    PVPanes,        \* pane ids the session may hand out: 1..n, in order
    ShownNormal,    \* max_visible_normal
    ShownFull       \* max_visible_fullscreen

NoSaved == [none |-> TRUE]
SavedView(a, f, t, d, l) ==
    [none |-> FALSE, active |-> a, focus |-> f, full |-> t, diff |-> d, list |-> l]

None0 == [p \in PVPanes |-> 0]
Least(a, b) == IF a < b THEN a ELSE b
IndexOf(s, p) == SelectInSeq(s, LAMBDA q : q = p)
Without(s, p) == SelectSeq(s, LAMBDA q : q # p)

(***************************************************************************)
(* The split window (mod.rs visible_range, state.rs).  Slots count from 1; *)
(* active = 0 stands for an index into an empty list.                      *)
(***************************************************************************)
MaxVisible(v) == CASE v.full = "off" -> ShownNormal
                   [] v.full = "grid" -> ShownFull
                   [] v.full = "zoom" -> 1
ZoomDistinct(v) == Least(ShownFull, Len(v.panes)) > 1

VisibleStart(v) ==
    LET window == Least(MaxVisible(v), Len(v.panes))
        active == Least(v.active, Len(v.panes))
        start == Least(v.start, Len(v.panes) - window + 1)
    IN IF v.panes = << >> THEN 1
       ELSE IF active < start THEN active
       ELSE IF active >= start + window THEN active + 1 - window
       ELSE start
VisibleRange(v) ==
    LET start == VisibleStart(v) IN start .. start + Least(MaxVisible(v), Len(v.panes)) - 1
SyncWindow(v) == [v EXCEPT !.start = VisibleStart(v)]

ActivePane(v) == IF v.active \in DOMAIN v.panes THEN v.panes[v.active] ELSE 0
PaneSize(v, p) == IF p # 0 /\ v.last[p] # 0 THEN v.last[p] ELSE v.size

(* The cell one visible pane gets: the more panes share the area the        *)
(* smaller it is.                                                           *)
CellSize(v) == Least(MaxVisible(v), Len(v.panes))

(***************************************************************************)
(* Events from the session (events.rs, lifecycle.rs, session_panes.rs,     *)
(* resize.rs confirm_resize).                                              *)
(***************************************************************************)
AdoptPane(v, e) ==
    IF e.pane \in Range(v.panes) THEN v
    ELSE LET panes == Append(v.panes, e.pane) IN
         SyncWindow([v EXCEPT !.panes = panes,
                              !.emu[e.pane] = e.size,
                              !.last[e.pane] = e.size,
                              !.conf[e.pane] = e.size,
                              !.active = IF e.mine THEN Len(panes)
                                         ELSE IF v.panes = << >> THEN 1 ELSE v.active])

RemovePane(v, e) ==
    IF e.pane \notin Range(v.panes) THEN v
    ELSE [v EXCEPT !.panes = Without(v.panes, e.pane),
                   !.emu[e.pane] = 0, !.last[e.pane] = 0,
                   !.conf[e.pane] = 0, !.pend[e.pane] = 0,
                   !.mute = v.mute \ {e.pane}]

ApplyOrder(v, e) ==
    LET known == SelectSeq(e.order, LAMBDA p : p \in Range(v.panes))
        panes == known \o SelectSeq(v.panes, LAMBDA p : p \notin Range(e.order))
        at == IF ActivePane(v) = 0 THEN v.active ELSE IndexOf(panes, ActivePane(v))
    IN SyncWindow([v EXCEPT !.panes = panes, !.active = Least(at, Len(panes))])

ConfirmResize(v, e) ==
    IF e.pane \notin Range(v.panes) THEN v
    ELSE [v EXCEPT !.emu[e.pane] = e.size,
                   !.conf[e.pane] = e.size,
                   !.pend[e.pane] = 0,
                   !.last[e.pane] = IF v.owns THEN @ ELSE e.size]

TakeOwnership(v, e) ==
    IF e.owned = v.owns THEN v
    ELSE [v EXCEPT !.owns = e.owned,
                   !.last = IF e.owned THEN None0 ELSE v.conf,
                   !.pend = None0]

(* Output while the backend replays mutes the emulator's replies to the      *)
(* program until the replay is complete (backend/hub.rs drain_events).       *)
ReplayOutput(v, e) ==
    IF v.replaying /\ e.pane \in Range(v.panes)
    THEN [v EXCEPT !.mute = @ \cup {e.pane}] ELSE v
ReplayComplete(v) == [v EXCEPT !.replaying = FALSE, !.mute = {}]

ApplyEvent(v, e) ==
    CASE e.kind = "created" -> AdoptPane(v, e)
      [] e.kind = "exited" -> RemovePane(v, e)
      [] e.kind = "reordered" -> ApplyOrder(v, e)
      [] e.kind = "resized" -> ConfirmResize(v, e)
      [] e.kind = "owner" -> TakeOwnership(v, e)
      [] e.kind = "output" -> ReplayOutput(v, e)
      [] e.kind = "replayed" -> ReplayComplete(v)

\* Mutant: an emptied or lone pane leaves the full screen as it was.
ClampsIndexOnly(v) ==
    SyncWindow([v EXCEPT !.active = Least(@, Len(v.panes))])
\* clamp_active_pane_after_removal.
ClampAfterRemoval(v) ==
    SyncWindow(
      IF v.panes = << >>
      THEN [v EXCEPT !.active = 0, !.full = "off",
                     !.focus = IF @ = "terminal" THEN "diff" ELSE @]
      ELSE [v EXCEPT !.active = Least(@, Len(v.panes)),
                     !.full = IF @ = "zoom" /\ ~ZoomDistinct(v) THEN "grid" ELSE @])

(* restore_pane_focus: what points at a pane waits for the panes.            *)
RestorePaneFocus(v, s) ==
    LET some == v.panes # << >>
        full == s.full /\ some
        diff == s.diff /\ ~full
        list == s.list /\ ~full /\ ~diff
        placed == SyncWindow([v EXCEPT
                     !.saved = IF some THEN NoSaved ELSE s,
                     !.active = Least(s.active, Len(v.panes))])
    IN [placed EXCEPT
          !.full = IF full THEN "grid" ELSE "off", !.diff = diff, !.list = list,
          !.focus = CASE list -> "list"
                      [] diff -> "diff"
                      [] full -> "terminal"
                      [] s.focus = "terminal" /\ ~some -> "list"
                      [] OTHER -> s.focus]

PollTerminal(v, events) ==
    LET fed == FoldLeft(ApplyEvent, v, events)
        removed == \E i \in DOMAIN events :
                      /\ events[i].kind = "exited"
                      /\ events[i].pane \in Range(v.panes)
                                  \cup {events[j].pane : j \in {k \in 1 .. i - 1 :
                                                      events[k].kind = "created"}}
        clamped == IF removed THEN ClampAfterRemoval(fed) ELSE fed
    IN IF clamped.panes # << >> /\ ~clamped.saved.none
       THEN RestorePaneFocus(clamped, clamped.saved) ELSE clamped

(***************************************************************************)
(* Keys (focus.rs, terminal_ctrl.rs).                                      *)
(***************************************************************************)
OnTerminal(v) == [v EXCEPT !.focus = "terminal", !.diff = FALSE, !.list = FALSE]

CycleForward(v) ==
    LET n == Len(v.panes) IN
    CASE v.diff \/ v.list -> v
      [] v.full # "off" ->
            IF n = 0 THEN v ELSE SyncWindow([v EXCEPT !.active = (v.active % n) + 1])
      [] v.full = "off" /\ v.focus = "list" -> [v EXCEPT !.focus = "diff"]
      [] v.full = "off" /\ v.focus = "diff" ->
            IF n = 0 THEN [v EXCEPT !.focus = "list"]
            ELSE [SyncWindow([v EXCEPT !.active = 1]) EXCEPT !.focus = "terminal"]
      [] v.full = "off" /\ v.focus = "terminal" ->
            IF v.active < n THEN SyncWindow([v EXCEPT !.active = @ + 1])
            ELSE [v EXCEPT !.focus = "list"]

CycleBackward(v) ==
    LET n == Len(v.panes) IN
    CASE v.diff \/ v.list -> v
      [] v.full # "off" ->
            IF n = 0 THEN v
            ELSE SyncWindow([v EXCEPT !.active = ((v.active + n - 2) % n) + 1])
      [] v.full = "off" /\ v.focus = "list" ->
            IF n = 0 THEN [v EXCEPT !.focus = "diff"]
            ELSE [SyncWindow([v EXCEPT !.active = n]) EXCEPT !.focus = "terminal"]
      [] v.full = "off" /\ v.focus = "diff" -> [v EXCEPT !.focus = "list"]
      [] v.full = "off" /\ v.focus = "terminal" ->
            IF v.active > 1 THEN SyncWindow([v EXCEPT !.active = @ - 1])
            ELSE [v EXCEPT !.focus = "diff"]

ToggleTerminalFull(v) ==
    LET next == CASE v.panes = << >> -> "off"
                  [] v.panes # << >> /\ v.full = "off" -> "grid"
                  [] v.full = "grid" /\ ZoomDistinct(v) -> "zoom"
                  [] OTHER -> "off"
        turned == [v EXCEPT !.full = next]
    IN IF v.panes = << >> THEN turned
       ELSE SyncWindow(IF next = "off" THEN turned ELSE OnTerminal(turned))

ToggleDiffFull(v) ==
    IF v.diff THEN [v EXCEPT !.diff = FALSE]
    ELSE [v EXCEPT !.diff = TRUE, !.focus = "diff", !.full = "off", !.list = FALSE]
ToggleListFull(v) ==
    IF v.list THEN [v EXCEPT !.list = FALSE]
    ELSE [v EXCEPT !.list = TRUE, !.focus = "list", !.diff = FALSE, !.full = "off"]

(* toggle_fullscreen: the fullscreen of the area that has the focus.         *)
ToggleFull(v) == CASE v.focus = "terminal" -> ToggleTerminalFull(v)
                   [] v.focus = "diff" -> ToggleDiffFull(v)
                   [] v.focus = "list" -> ToggleListFull(v)

FocusList(v) == [v EXCEPT !.focus = "list", !.diff = FALSE, !.full = "off"]
FocusDiff(v) == [v EXCEPT !.focus = "diff", !.list = FALSE, !.full = "off"]

(* toggle_mode and toggle_tree_mode reveal the list they switched.           *)
RevealList(v) == IF v.full # "off" \/ v.diff THEN FocusList(v) ELSE v

SwitchPane(v, i) ==
    IF i > Len(v.panes) THEN v ELSE OnTerminal(SyncWindow([v EXCEPT !.active = i]))

ForceRefit(v) == [v EXCEPT !.conf = None0, !.pend = None0]

(* The session's events about panes. *)
Created(p, n, mine) == [kind |-> "created", pane |-> p, size |-> n, mine |-> mine]
Exited(p) == [kind |-> "exited", pane |-> p]

BlankView == [panes |-> << >>, active |-> 0, start |-> 1, full |-> "off",
              diff |-> FALSE, list |-> FALSE, focus |-> "list", saved |-> NoSaved,
              owns |-> TRUE, size |-> 8, last |-> None0, conf |-> None0,
              pend |-> None0, emu |-> None0, replaying |-> TRUE, mute |-> {}]
=============================================================================
