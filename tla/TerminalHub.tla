---------------------------- MODULE TerminalHub ----------------------------
(***************************************************************************)
(* One repository's hub and the pages attached to it: the pane list, the   *)
(* zoom and each pane's output live under one mutex (hub_panes.rs,         *)
(* hub_zoom.rs, hub_layout.rs), every change is broadcast to bounded       *)
(* queues, and a connecting page is replayed a snapshot behind a gate that *)
(* holds what is broadcast meanwhile (hub_connect.rs). A page keeps its    *)
(* panes across a reconnect and lets the replay correct them               *)
(* (terminalSocketMessages.ts).                                            *)
(*                                                                         *)
(* A pane's output is abstracted to how many chunks of it a screen shows;  *)
(* how a record rebuilds them is PaneRecord's subject.                     *)
(***************************************************************************)
EXTENDS Integers, Sequences, SequencesExt, FiniteSets

CONSTANTS
    Pages,           \* browser pages
    MaxPaneIds,      \* bound: panes ever opened
    MaxOutput,       \* bound: chunks a pane ever prints
    MaxLayout,       \* bound: reorders and zooms that change something
    MaxConnects,     \* bound: connections each page ever opens
    MaxTurns,        \* bound: layout changes and a page's connections together
    Depth            \* CLIENT_QUEUE_DEPTH

\* A whole replay fits the queue: the greeting, the zoom and every pane.
ASSUME DepthAssumption == MaxPaneIds \in Nat /\ Depth \in Nat /\ Depth >= MaxPaneIds + 2

PaneIds == 1 .. MaxPaneIds
None == 0

VARIABLES
    panes,           \* Shared.panes, in canonical order
    chunks,          \* output recorded per pane
    zoomed,          \* Shared.zoomed
    next_id,
    closes,          \* pending_closes
    layouts,         \* how many layout changes there have been
    stop,            \* the stop flag
    done,            \* the worker has torn the hub down
    pages            \* the hub's client record and the page behind it

hub == <<panes, chunks, zoomed, next_id, closes, layouts, stop, done>>
vars == <<hub, pages>>

----------------------------------------------------------------------------
(* Frames and what a page makes of them *)

Frame(kind, pane, data) == [kind |-> kind, pane |-> pane, data |-> data]
Hello == Frame("hello", None, 0)
Complete == Frame("replay_complete", None, 0)
Created(p, shown) == Frame("created", p, shown)  \* with the screen that follows it
Exited(p) == Frame("exited", p, 0)
Zoomed(p) == Frame("zoomed", p, 0)
Reordered(order) == Frame("reordered", None, order)
Output(p) == Frame("output", p, 0)

\* canonical_order, and reconcileOrder in a page: each live id once, the
\* requested ones first.
Placed(out, id, live) == IF id \in live \ ToSet(out) THEN Append(out, id) ELSE out
PlaceAll(ids, live) ==
    LET out[i \in 0 .. Len(ids)] == IF i = 0 THEN <<>> ELSE Placed(out[i - 1], ids[i], live)
    IN  out[Len(ids)]
CanonicalOrder(current, requested) == PlaceAll(requested \o current, ToSet(current))

\* retain(|p| p.id != id), and a page's filter.
Kept(out, p, id) == IF p # id THEN Append(out, p) ELSE out
Without(list, id) ==
    LET out[i \in 0 .. Len(list)] == IF i = 0 THEN <<>> ELSE Kept(out[i - 1], list[i], id)
    IN  out[Len(list)]

NewView == [panes |-> <<>>, zoomed |-> None, shown |-> [p \in PaneIds |-> 0],
            replaying |-> FALSE, order |-> <<>>, zoom_said |-> FALSE]

\* `created`: a pane kept across the reconnect stays where it is.
OnCreated(v, p, shown) ==
    [v EXCEPT !.panes = IF p \in ToSet(@) THEN @ ELSE Append(@, p),
              !.shown[p] = shown,
              !.order = IF v.replaying /\ p \notin ToSet(@) THEN Append(@, p) ELSE @]

\* Mutant: the page keeps the panes it had, the replay only adds.
KeepsStalePanes(v) == [v EXCEPT !.replaying = FALSE]
\* completeReplay: the replayed panes, in their order, are the whole truth.
OnReplayComplete(v) ==
    IF ~v.replaying THEN v
    ELSE [v EXCEPT !.replaying = FALSE, !.panes = v.order,
                   !.zoomed = IF v.zoom_said THEN @ ELSE None]

HandleMessage(v, f) ==
    CASE f.kind = "hello" ->
            [v EXCEPT !.replaying = TRUE, !.order = <<>>, !.zoom_said = FALSE]
      [] f.kind = "replay_complete" -> OnReplayComplete(v)
      [] f.kind = "created" -> OnCreated(v, f.pane, f.data)
      [] f.kind = "exited" -> [v EXCEPT !.panes = Without(@, f.pane)]
      [] f.kind = "reordered" -> [v EXCEPT !.panes = CanonicalOrder(@, f.data)]
      [] f.kind = "zoomed" -> [v EXCEPT !.zoomed = f.pane, !.zoom_said = TRUE]
      [] f.kind = "output" -> [v EXCEPT !.shown[f.pane] = @ + 1]

\* The view a page ends up with once it has handled every frame of a queue.
ViewAfter(v, frames) ==
    LET after[i \in 0 .. Len(frames)] ==
            IF i = 0 THEN v ELSE HandleMessage(after[i - 1], frames[i])
    IN  after[Len(frames)]

----------------------------------------------------------------------------
(* The hub's client records *)

NewPage == [phase |-> "down", listed |-> FALSE, replayed |-> FALSE, connects |-> 0,
            snapshot |-> <<>>, held |-> <<>>, queue |-> <<>>, view |-> NewView]

\* Mutant: the gate holds one frame more than its bound.
QueuesOnePastDepth(c, f) ==
    CASE c.phase = "snapped" /\ Len(c.held) <= Depth -> [c EXCEPT !.held = Append(@, f)]
      [] c.phase = "live" /\ Len(c.queue) < Depth + 1 -> [c EXCEPT !.queue = Append(@, f)]
      [] OTHER -> [c EXCEPT !.listed = FALSE]
\* queue_locked: behind the gate while it is closed; a full one cuts it off.
QueueLocked(c, f) ==
    CASE c.phase = "snapped" /\ Len(c.held) < Depth -> [c EXCEPT !.held = Append(@, f)]
      [] c.phase = "live" /\ Len(c.queue) < Depth + 1 -> [c EXCEPT !.queue = Append(@, f)]
      [] OTHER -> [c EXCEPT !.listed = FALSE]

\* Queue frames for one client until one of them does not fit.
QueueNext(c, f) == IF c.listed THEN QueueLocked(c, f) ELSE c
QueueAll(c, frames) ==
    LET after[i \in 0 .. Len(frames)] ==
            IF i = 0 THEN c ELSE QueueNext(after[i - 1], frames[i])
    IN  after[Len(frames)]

\* broadcast_locked
Broadcast(frames) == pages' = [pg \in Pages |-> QueueAll(pages[pg], frames)]

----------------------------------------------------------------------------
(* The worker, and the requests that change the layout *)

\* clear_zoom_locked
ZoomCleared == IF zoomed = None THEN <<>> ELSE <<Zoomed(None)>>

\* Mutant: the new pane is announced ahead of the zoom it ends.
AnnouncesZoomLast(p) == <<Created(p, 0)>> \o ZoomCleared
CreatedFrames(p) == ZoomCleared \o <<Created(p, 0)>>

\* register_pane: a new pane ends the zoom, announced before it.
RegisterPane ==
    /\ ~done /\ next_id <= MaxPaneIds
    /\ next_id' = next_id + 1
    /\ panes' = Append(panes, next_id)
    /\ zoomed' = None
    /\ Broadcast(CreatedFrames(next_id))
    /\ UNCHANGED <<chunks, closes, layouts, stop, done>>

\* record_and_broadcast
RecordAndBroadcast(p) ==
    /\ ~done /\ p \in ToSet(panes) /\ chunks[p] < MaxOutput
    /\ chunks' = [chunks EXCEPT ![p] = @ + 1]
    /\ Broadcast(<<Output(p)>>)
    /\ UNCHANGED <<panes, zoomed, next_id, closes, layouts, stop, done>>

\* Mutant: a pane that leaves takes no zoom with it.
ZoomSurvives(p) == zoomed
ZoomAfterRemove(p) == IF zoomed = p THEN None ELSE zoomed

\* remove_pane_and_announce, for an exit or a close; the exit of a pane that
\* was closed before finds nothing to announce.
RemovePaneAndAnnounce(p) ==
    /\ p \in ToSet(panes)
    /\ panes' = Without(panes, p)
    /\ zoomed' = ZoomAfterRemove(p)
    /\ Broadcast(<<Exited(p)>> \o IF zoomed' # zoomed THEN <<Zoomed(None)>> ELSE <<>>)

PaneExits(p) ==
    /\ ~done
    /\ RemovePaneAndAnnounce(p)
    /\ UNCHANGED <<chunks, next_id, closes, layouts, stop, done>>

\* queue_close, from any connection; the set is lossless.
QueueClose(p) ==
    /\ p < next_id /\ p \notin closes
    /\ closes' = closes \cup {p}
    /\ UNCHANGED <<panes, chunks, zoomed, next_id, layouts, stop, done, pages>>

\* The worker's close loop, one pane of the taken set at a time.
TakeClose(p) ==
    /\ ~done /\ p \in closes
    /\ closes' = closes \ {p}
    /\ IF p \in ToSet(panes) THEN RemovePaneAndAnnounce(p)
       ELSE UNCHANGED <<panes, zoomed, pages>>
    /\ UNCHANGED <<chunks, next_id, layouts, stop, done>>

AnotherLayout ==
    layouts < MaxLayout /\ \A pg \in Pages : layouts + pages[pg].connects < MaxTurns

\* reorder_panes: reconciled with what is live, silent when nothing moves.
ReorderPanes(order) ==
    LET target == CanonicalOrder(panes, order) IN
    /\ ~done /\ AnotherLayout /\ target # panes
    /\ panes' = target
    /\ layouts' = layouts + 1
    /\ Broadcast(<<Reordered(target)>>)
    /\ UNCHANGED <<chunks, zoomed, next_id, closes, stop, done>>

\* set_zoom, from a connection's own thread.
SetZoom(p) ==
    /\ AnotherLayout
    /\ p \in ToSet(panes) \cup {None} /\ p # zoomed
    /\ zoomed' = p
    /\ layouts' = layouts + 1
    /\ Broadcast(<<Zoomed(p)>>)
    /\ UNCHANGED <<panes, chunks, next_id, closes, stop, done>>

Stop ==
    /\ ~stop
    /\ stop' = TRUE
    /\ UNCHANGED <<panes, chunks, zoomed, next_id, closes, layouts, done, pages>>

\* The end of `run`: the records go and every one of them is announced.
Teardown ==
    /\ stop /\ ~done
    /\ done' = TRUE
    /\ panes' = <<>>
    /\ zoomed' = None
    /\ Broadcast([i \in 1 .. Len(panes) |-> Exited(panes[i])])
    /\ UNCHANGED <<chunks, next_id, closes, layouts, stop>>

----------------------------------------------------------------------------
(* Connections *)

Replay ==
    (IF zoomed = None THEN <<>> ELSE <<Zoomed(zoomed)>>)
        \o [i \in 1 .. Len(panes) |-> Created(panes[i], chunks[panes[i]])]

\* The page opens a socket; `connect` snapshots the hub and lists the client
\* with its gate closed, in one critical section. A stopped hub replays nothing.
ConnectSnapshot(pg) ==
    LET c == pages[pg] IN
    /\ c.phase = "down" /\ c.connects < MaxConnects
    /\ layouts + c.connects < MaxTurns
    /\ pages' = [pages EXCEPT ![pg] =
          [c EXCEPT !.phase = "snapped", !.listed = TRUE, !.replayed = ~stop,
                    !.connects = @ + 1,
                    !.snapshot = <<Hello>> \o (IF stop THEN <<>> ELSE Replay) \o <<Complete>>,
                    !.held = <<>>, !.queue = <<>>,
                    !.view = [c.view EXCEPT !.replaying = FALSE, !.order = <<>>,
                                       !.shown = [p \in PaneIds |-> 0]]]]
    /\ UNCHANGED hub

\* connect, second critical section: the replay is queued, the gate opens and
\* what was held follows it.
ConnectOpen(pg) ==
    LET c == [pages[pg] EXCEPT !.phase = "live", !.queue = pages[pg].snapshot,
                               !.snapshot = <<>>, !.held = <<>>]
    IN
    /\ pages[pg].phase = "snapped"
    /\ pages' = [pages EXCEPT ![pg] = QueueAll(c, pages[pg].held)]
    /\ UNCHANGED hub

\* The page handles the next frame of its socket.
Deliver(pg) ==
    /\ pages[pg].phase = "live" /\ pages[pg].queue # <<>>
    /\ pages' = [pages EXCEPT ![pg].view = HandleMessage(@, Head(pages[pg].queue)),
                              ![pg].queue = Tail(@)]
    /\ UNCHANGED hub

\* The socket goes, cut off or lost, with whatever was queued in it.
SocketCloses(pg) ==
    /\ pages[pg].phase = "live"
    /\ pages' = [pages EXCEPT ![pg].phase = "down", ![pg].listed = FALSE,
                              ![pg].queue = <<>>, ![pg].held = <<>>]
    /\ UNCHANGED hub

----------------------------------------------------------------------------
Init ==
    /\ panes = <<>> /\ zoomed = None /\ next_id = 1 /\ closes = {}
    /\ chunks = [p \in PaneIds |-> 0]
    /\ layouts = 0 /\ stop = FALSE /\ done = FALSE
    /\ pages = [pg \in Pages |-> NewPage]

\* A client may ask for any order: partial, stale or repeating itself.
Orders == {<<p>> : p \in PaneIds} \cup (PaneIds \X PaneIds)

Next ==
    \/ RegisterPane
    \/ \E p \in PaneIds : RecordAndBroadcast(p)
    \/ \E p \in PaneIds : PaneExits(p)
    \/ \E p \in PaneIds : QueueClose(p)
    \/ \E p \in PaneIds : TakeClose(p)
    \/ \E order \in Orders : ReorderPanes(order)
    \/ \E p \in PaneIds \cup {None} : SetZoom(p)
    \/ Stop
    \/ Teardown
    \/ \E pg \in Pages : ConnectSnapshot(pg)
    \/ \E pg \in Pages : ConnectOpen(pg)
    \/ \E pg \in Pages : Deliver(pg)
    \/ \E pg \in Pages : SocketCloses(pg)

Spec == Init /\ [][Next]_vars

----------------------------------------------------------------------------
(* Properties *)

\* What a listed page shows once it has handled everything on its way to it.
FinalView(pg) ==
    LET c == pages[pg] IN ViewAfter(c.view, c.snapshot \o c.queue \o c.held)

\* A page that is still in the broadcast list converges on the hub's panes,
\* their order, their output and the zoom, whenever it connected: it is given
\* each pane and each chunk by the replay or by a broadcast, never by both and
\* never by neither. A page a stopped hub replayed nothing to has no panes once
\* the hub is torn down. The zoom never outlives its pane, and no page's queue
\* its channel: a slow page is let go instead (hub_helpers.rs queue_locked).
PagesConverge ==
    /\ \A pg \in Pages :
        /\ Len(pages[pg].queue) <= Depth + 1 /\ Len(pages[pg].held) <= Depth
        /\ pages[pg].listed /\ (pages[pg].replayed \/ done) =>
             /\ FinalView(pg).panes = panes
             /\ \A i \in DOMAIN panes : FinalView(pg).shown[panes[i]] = chunks[panes[i]]
             /\ ~done => FinalView(pg).zoomed = zoomed
    /\ zoomed = None \/ zoomed \in ToSet(panes)

\* A page is never shown a pane that has just been opened while it is still
\* zoomed past it.
NewPaneNotHidden ==
    [][\A pg \in Pages :
          LET v == pages[pg].view IN
          ~v.replaying /\ Len(pages'[pg].view.panes) > Len(v.panes)
              => pages'[pg].view.zoomed = None]_vars

=============================================================================
