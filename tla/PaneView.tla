------------------------------ MODULE PaneView ------------------------------
(* One attached screen and the session whose terminals it shows: keys and    *)
(* frames on one side, the session's events on the other, two queues between *)
(* them.  What the screen keeps is TerminalState's; the session is the       *)
(* terminal hub of TerminalHub and SizeOwner, reduced to what it answers.    *)
(* Source: app/navigation/terminal_ctrl.rs, runtime/terminal/, and           *)
(* backend/hub.rs.                                                           *)
EXTENDS TerminalState

CONSTANTS
    SavedViews,     \* pane focus records a session file may hold
    PVScripts       \* bounds: the groups of keys pressed, how many keys, and
                    \* how many changes other clients make

PVScript(groups, keys, news) == [groups |-> groups, keys |-> keys, news |-> news]

VARIABLES
    pv,             \* this screen: TerminalState and the App fields beside it
    hub,            \* the session: panes, sizes, whether this screen sizes them
    toHub, toView,  \* requests and events in flight
    pvBudget

pvvars == <<pv, hub, toHub, toView, pvBudget>>

PaneKey(group, v, requests) ==
    /\ pvBudget.keys > 0 /\ group \in pvBudget.groups
    /\ pv' = v
    /\ toHub' = toHub \o requests
    /\ pvBudget' = [pvBudget EXCEPT !.keys = @ - 1]
    /\ UNCHANGED <<hub, toView>>

PressCycleForward == PaneKey("focus", CycleForward(pv), << >>)
PressCycleBackward == PaneKey("focus", CycleBackward(pv), << >>)
PressFull == PaneKey("full", ToggleFull(pv), << >>)
PressFocusList == PaneKey("focus", FocusList(pv), << >>)
PressFocusDiff == PaneKey("focus", FocusDiff(pv), << >>)
PressReveal == PaneKey("full", RevealList(pv), << >>)
PressSwitch(i) == PaneKey("focus", SwitchPane(pv, i), << >>)
PressOpen == PaneKey("panes", OnTerminal(pv),
                   <<[kind |-> "create", size |-> PaneSize(pv, ActivePane(pv))]>>)
PressClose ==
    /\ pv.focus = "terminal" /\ ActivePane(pv) # 0
    /\ PaneKey("panes", pv, <<[kind |-> "close", pane |-> ActivePane(pv)]>>)
PressSwap(i) ==
    /\ pv.focus = "terminal" /\ i \in DOMAIN pv.panes /\ i # pv.active
    /\ ActivePane(pv) # 0
    /\ PaneKey("panes", OnTerminal(pv),
             <<[kind |-> "reorder",
                order |-> [pv.panes EXCEPT ![i] = ActivePane(pv), ![pv.active] = pv.panes[i]]]>>)
PressClaim == ~pv.owns /\ PaneKey("size", pv, <<[kind |-> "claim"]>>)
PressRefit == PaneKey("size", ForceRefit(pv), <<[kind |-> "claim"]>>)

(* One tick's drain of the backend and what follows it (poll_terminal).      *)
PollView ==
    /\ toView # << >>
    /\ pv' = PollTerminal(pv, toView)
    /\ toView' = << >>
    /\ UNCHANGED <<hub, toHub, pvBudget>>

(***************************************************************************)
(* A frame lays the visible panes out and asks for the sizes it drew       *)
(* (resize_visible_panes_at).  late: the retry interval has passed.        *)
(***************************************************************************)
Unconfirmed(v, late) ==
    {p \in {v.panes[i] : i \in VisibleRange(v)} :
        /\ v.owns
        /\ v.conf[p] # CellSize(v)
        /\ v.pend[p] # CellSize(v) \/ late}

LayOut(v, late) ==
    LET cell == CellSize(v)
        shown == {v.panes[i] : i \in VisibleRange(v)}
        asked == Unconfirmed(v, late)
        fits == {p \in shown : v.conf[p] = cell}
    IN [v EXCEPT
          !.size = IF ActivePane(v) \in shown THEN cell ELSE @,
          !.last = IF v.owns THEN [p \in PVPanes |-> IF p \in shown THEN cell ELSE v.last[p]]
                   ELSE @,
          !.pend = IF ~v.owns THEN @
                   ELSE [p \in PVPanes |-> IF p \in fits THEN 0
                                           ELSE IF p \in asked THEN cell ELSE v.pend[p]]]

Frame(late) ==
    LET laid == LayOut(pv, late)
        asked == SetToSeq(Unconfirmed(pv, late))
    IN
    /\ laid # pv \/ asked # << >>
    /\ late => toHub = << >> /\ toView = << >>   \* the retry interval outlasts a round trip
    /\ pv' = laid
    /\ toHub' = toHub \o [i \in DOMAIN asked |->
                            [kind |-> "resize", size |-> CellSize(pv), pane |-> asked[i]]]
    /\ UNCHANGED <<hub, toView, pvBudget>>

(***************************************************************************)
(* The session (external to this module: TerminalHub, SizeOwner).          *)
(***************************************************************************)
Owner(b) == [kind |-> "owner", owned |-> b]

HubCreate(n, mine) ==
    LET p == hub.next IN
    /\ p \in PVPanes
    /\ hub' = [hub EXCEPT !.panes = Append(@, p), !.size[p] = n, !.next = @ + 1]
    /\ toView' = Append(toView, Created(p, n, mine))
HubClose(p) ==
    /\ p \in Range(hub.panes)
    /\ hub' = [hub EXCEPT !.panes = Without(@, p), !.size[p] = 0]
    /\ toView' = Append(toView, Exited(p))
HubReorder(order) ==
    LET kept == SelectSeq(order, LAMBDA p : p \in Range(hub.panes))
        target == kept \o SelectSeq(hub.panes, LAMBDA p : p \notin Range(order))
    IN /\ target # hub.panes
       /\ hub' = [hub EXCEPT !.panes = target]
       /\ toView' = Append(toView, [kind |-> "reordered", order |-> target])
HubResize(p, n, mine) ==
    /\ hub.mine = mine /\ p \in Range(hub.panes)
    /\ hub' = [hub EXCEPT !.size[p] = n]
    /\ toView' = Append(toView, [kind |-> "resized", pane |-> p, size |-> n])
HubClaim(mine) ==
    /\ hub' = [hub EXCEPT !.mine = mine]
    /\ toView' = IF mine \/ hub.mine # mine THEN Append(toView, Owner(mine)) ELSE toView

HubAnswers(r) ==
    CASE r.kind = "create" -> HubCreate(r.size, TRUE)
      [] r.kind = "close" -> HubClose(r.pane)
      [] r.kind = "reorder" -> HubReorder(r.order)
      [] r.kind = "resize" -> HubResize(r.pane, r.size, TRUE)
      [] r.kind = "claim" -> HubClaim(TRUE)

(* A request is answered, or refused without a word on this queue.           *)
HubStep ==
    /\ toHub # << >>
    /\ IF ENABLED HubAnswers(Head(toHub)) THEN HubAnswers(Head(toHub))
       ELSE UNCHANGED <<hub, toView>>
    /\ toHub' = Tail(toHub)
    /\ UNCHANGED <<pv, pvBudget>>

(* Another client opens, closes, swaps or sizes panes, or takes the sizing.  *)
OtherClient ==
    /\ pvBudget.news > 0
    /\ \/ HubCreate(7, FALSE)
       \/ \E p \in PVPanes : HubClose(p) \/ HubResize(p, 7, FALSE)
       \/ Len(hub.panes) > 1 /\ HubReorder(Reverse(hub.panes))
       \/ HubClaim(FALSE)
    /\ pvBudget' = [pvBudget EXCEPT !.news = @ - 1]
    /\ UNCHANGED <<pv, toHub>>

PVInit ==
    /\ \E n \in {0, 2} :
         /\ hub = [panes |-> [i \in 1 .. n |-> i],
                   size |-> [p \in PVPanes |-> IF p <= n THEN 7 ELSE 0],
                   next |-> n + 1, mine |-> FALSE]
         /\ toView = [i \in 1 .. 2 * n |->
                        IF i % 2 = 1 THEN Created((i + 1) \div 2, 7, FALSE)
                        ELSE [kind |-> "output", pane |-> i \div 2]]
                     \o <<[kind |-> "replayed"], Owner(FALSE)>>
    /\ \E s \in SavedViews : pv = RestorePaneFocus(BlankView, s)
    /\ toHub = << >>
    /\ pvBudget \in PVScripts

PVNext ==
    \/ PressCycleForward \/ PressCycleBackward \/ PressFull
    \/ PressFocusList \/ PressFocusDiff \/ PressReveal
    \/ \E i \in 1 .. Cardinality(PVPanes) : PressSwitch(i) \/ PressSwap(i)
    \/ PressOpen \/ PressClose \/ PressClaim \/ PressRefit
    \/ PollView
    \/ \E late \in BOOLEAN : Frame(late)
    \/ HubStep \/ OtherClient

PVSpec == PVInit /\ [][PVNext]_pvvars

(***************************************************************************)
(* Properties                                                              *)
(***************************************************************************)
(* What the keyboard drives is on screen: at most one area fills the screen, *)
(* it is the one with the focus, a terminal that fills it has panes, a zoom  *)
(* hides something, and the active slot exists.  Keys, the late restore of a *)
(* saved view and panes another client closes all move these.                *)
FocusShown ==
    /\ pv.full # "off" => ~pv.diff /\ ~pv.list /\ pv.focus = "terminal"
    /\ pv.diff => ~pv.list /\ pv.focus = "diff"
    /\ pv.list => pv.focus = "list"
    /\ pv.full # "off" => pv.panes # << >>
    /\ pv.full = "zoom" => ZoomDistinct(pv)
    /\ pv.panes # << >> => pv.active \in DOMAIN pv.panes

PVQuiet == /\ toHub = << >> /\ toView = << >>
           /\ \A late \in BOOLEAN : LayOut(pv, late) = pv /\ Unconfirmed(pv, late) = {}

(* When nothing is in flight and a frame would change nothing, this screen   *)
(* agrees with the session: the same panes in the same order, every emulator *)
(* wraps where its program does, the visible panes have the size this screen *)
(* drew if it has the sizing, and no emulator is still muted.                *)
ViewAgrees ==
    PVQuiet =>
        /\ pv.panes = hub.panes
        /\ pv.owns = hub.mine
        /\ \A p \in Range(pv.panes) : pv.emu[p] = hub.size[p]
        /\ pv.owns => \A i \in VisibleRange(pv) : hub.size[pv.panes[i]] = CellSize(pv)
        /\ ~pv.owns => \A p \in Range(pv.panes) : pv.last[p] \in {0, hub.size[p]}
        /\ pv.mute = {}

(* Both: what the keyboard drives is on screen, and what is on screen is the *)
(* session's (app/navigation/terminal_ctrl.rs, runtime/terminal/events.rs).  *)
ScreenAgrees == FocusShown /\ ViewAgrees
=============================================================================
