------------------------------ MODULE KeyRouter ------------------------------
(* Where a key, a paste or a click on an attached screen goes: the help      *)
(* overlay, the repository dialog, a search bar, a prefix waiting for its    *)
(* follow-up, a panel, or the program in a pane - while the session opens,   *)
(* closes, reorders and switches tabs and panes come and go between any two  *)
(* of them.  Source: application/input/ (events, dispatch, handlers, prefix, *)
(* paste, mouse, help, repo_dialog), input/routing.rs, workspace/mod.rs,     *)
(* application/session_link.rs adopt, app_impl.rs, runtime/terminal          *)
(* click_pane.  A screen of one project is a TerminalState view with the     *)
(* interaction fields beside it.  The views themselves (GitViews, TreeNav)   *)
(* are reduced to the search bar that may be open over each panel.           *)
EXTENDS TerminalState, TLC

CONSTANTS
    Repos,        \* repositories the session may have open
    KRScripts     \* bounds: keys and clicks used, how many of them, and how
                  \* many changes the session and the programs make

KRScript(inputs, acts, news) == [inputs |-> inputs, acts |-> acts, news |-> news]

VARIABLES
    ws,         \* the workspace and the projects in it
    wants,     \* <<repo, pane>> pairs whose program asked for mouse reports
    believes,  \* <<repo, pane>> pairs whose program was sent a press without its release
    hand,      \* TRUE while the person holds a button down
    orphans,   \* <<repo, pane>> pairs hidden when their release came
    last,      \* the last input: its kind, what covered the panes, whether it was typed into one
    krBudget

krvars == <<ws, wants, believes, hand, orphans, last, krBudget>>

\* init_app: a project that has no panes yet and will focus them when they come.
NewProject ==
    RestorePaneFocus(BlankView, SavedView(1, "terminal", FALSE, FALSE, FALSE))
      @@ [search |-> {}, armed |-> FALSE, swap |-> FALSE, press |-> 0]

InFront(x) == IF x.tabs = << >> THEN 0 ELSE x.tabs[x.active]
PanesShown(a) == IF a.full = "off" /\ (a.diff \/ a.list) THEN {}
            ELSE {a.panes[i] : i \in VisibleRange(a)}
Overlaid(a) == a.search # {}

----------------------------------------------------------------------------
(* The tab list (workspace/mod.rs).  x also carries what programs believe.   *)

\* click_pane: only a program that asked for reports gets one.
Click(x, r, p, down) ==
    IF p \notin Range(x.app[r].panes) \/ <<r, p>> \notin wants THEN x
    ELSE [x EXCEPT !.bel = IF down THEN @ \cup {<<r, p>>} ELSE @ \ {<<r, p>>}]

ReleaseInPlace(x, r) ==
    IF r = 0 \/ x.app[r].press = 0 THEN x
    ELSE [Click(x, r, x.app[r].press, FALSE) EXCEPT !.app[r].press = 0]

AddTab(x, r) ==
    LET tabs == Append(x.tabs, r) IN
    [ReleaseInPlace(x, InFront(x)) EXCEPT !.tabs = tabs, !.active = Len(tabs), !.app[r] = NewProject]

CloseTab(x, r) ==
    LET i == IndexOf(x.tabs, r)
        tabs == Without(x.tabs, r)
        active == IF i < x.active THEN x.active - 1 ELSE x.active
    IN [x EXCEPT !.tabs = tabs, !.active = IF tabs = << >> THEN 1 ELSE Least(active, Len(tabs)),
                 !.bel = {b \in @ : b[1] # r}]

ReorderTo(x, order) ==
    IF x.tabs = << >> THEN x
    ELSE LET tabs == order \o SelectSeq(x.tabs, LAMBDA r : r \notin Range(order)) IN
         [x EXCEPT !.tabs = tabs, !.active = IndexOf(tabs, InFront(x))]

\* Mutant: the project leaving the screen keeps its press.
SwitchesOnly(x, i) == [x EXCEPT !.active = i]
Switch(x, i) ==
    IF i = x.active THEN x
    ELSE [ReleaseInPlace(x, InFront(x)) EXCEPT !.active = i]

\* adopt, then focus_repo: close, open, reorder, and bring the tab forward.
Adopt(x, repos, active) ==
    LET closed == FoldLeft(CloseTab, x, SelectSeq(x.tabs, LAMBDA r : r \notin Range(repos)))
        opened == FoldLeft(AddTab, closed, SelectSeq(repos, LAMBDA r : r \notin Range(closed.tabs)))
        ordered == ReorderTo(opened, repos)
    IN IF active = 0 THEN ordered ELSE Switch(ordered, IndexOf(ordered.tabs, active))

----------------------------------------------------------------------------
(* KeyNames.  A letter or digit is a plain character unless the prefix waits.    *)

KeyNames == {"leader", "esc", "enter", "slash", "cycle", "fkey",
         "t", "ws", "l", "f", "s", "o", "h", "q", "1", "2", "3"}
Digit(k) == CASE k = "1" -> 1 [] k = "2" -> 2 [] k = "3" -> 3 [] OTHER -> 0

\* prefix_action, prefix_action_fullscreen: digits name panes where panes fill the body.
PaneNamed(a, k) == IF a.full # "off" THEN Digit(k) ELSE IF Digit(k) > 2 THEN Digit(k) - 2 ELSE 0
PrefixAction(a, k) ==
    CASE PaneNamed(a, k) # 0 -> "pane"
      [] PaneNamed(a, k) = 0 /\ k = "1" -> "list"
      [] PaneNamed(a, k) = 0 /\ k = "2" -> "diff"
      [] k = "t" -> "new" [] k = "f" -> "full" [] k = "l" -> "log" [] k = "s" -> "swap"
      [] k = "o" -> "dialog" [] k = "h" -> "help" [] k = "q" -> "quit" [] k = "ws" -> "ask"
      [] OTHER -> "none"
\* map_key: the chords that need no prefix.
MapKey(k) == CASE k = "cycle" -> "cycle" [] k = "fkey" -> "ask" [] OTHER -> "none"

OnFront(x, a) == [x EXCEPT !.app[InFront(x)] = a]
Typed(x) == IF ActivePane(x.app[InFront(x)]) = 0 THEN x ELSE [x EXCEPT !.typed = TRUE]

\* handle_global_action and apply_outcome.  "ask" is a request to the session,
\* which changes nothing here until the session answers (Adopt, PollTerminal).
Global(x, action, n) ==
    LET a == x.app[InFront(x)] IN
    CASE action = "quit" -> [x EXCEPT !.quit = TRUE]
      [] action = "dialog" -> [x EXCEPT !.dialog = TRUE]
      [] action = "help" -> [x EXCEPT !.help = ~@]
      [] action = "new" -> OnFront(x, OnTerminal(a))
      [] action = "full" -> OnFront(x, ToggleFull(a))
      [] action = "log" -> OnFront(x, RevealList(a))
      [] action = "list" -> OnFront(x, FocusList(a))
      [] action = "diff" -> OnFront(x, FocusDiff(a))
      [] action = "pane" -> OnFront(x, SwitchPane(a, n))
      [] action = "cycle" -> OnFront(x, CycleForward(a))
      [] action = "swap" ->
            IF a.focus = "terminal" /\ Len(a.panes) > 1
            THEN OnFront(x, [a EXCEPT !.armed = FALSE, !.swap = TRUE]) ELSE x
      [] OTHER -> x

\* swap_active_pane_with: the new order is asked for, the focus goes to the panes.
SwapWith(a, n) == IF n \in DOMAIN a.panes /\ n # a.active THEN OnTerminal(a) ELSE a

SwapFollowup(x, k) ==
    LET a == [x.app[InFront(x)] EXCEPT !.swap = FALSE] IN
    OnFront(x, IF k # "esc" /\ PrefixAction(a, k) = "pane" THEN SwapWith(a, PaneNamed(a, k)) ELSE a)

PrefixFollowup(x, k) ==
    LET a == [x.app[InFront(x)] EXCEPT !.armed = FALSE]
        y == OnFront(x, a)
    IN CASE k = "leader" -> IF a.focus = "terminal" THEN Typed(y) ELSE y
         [] k = "esc" -> y
         [] OTHER -> Global(y, PrefixAction(a, k), PaneNamed(a, k))

\* handle_file_search_key and the other three: what is typed edits the query.
SearchKey(a, k) == IF k \in {"esc", "enter"} THEN [a EXCEPT !.search = @ \ {a.focus}] ELSE a

\* handle_unmapped_upper_key, as far as input can tell.
PanelKey(a, k) ==
    CASE k = "slash" /\ a.focus # "terminal" -> [a EXCEPT !.search = @ \cup {a.focus}]
      [] k = "enter" /\ a.focus = "diff" -> ToggleDiffFull(a)
      [] OTHER -> a

\* handle_upper_key: the bar open over the focused panel, or the panel itself.
UpperKey(a, k) == IF a.focus \in a.search THEN SearchKey(a, k) ELSE PanelKey(a, k)

HandleKey(x, k) ==
    LET a == x.app[InFront(x)] IN
    CASE Overlaid(a) -> OnFront(x, UpperKey([a EXCEPT !.armed = FALSE, !.swap = FALSE], k))
      [] ~Overlaid(a) /\ a.swap -> SwapFollowup(x, k)
      [] ~Overlaid(a) /\ ~a.swap /\ a.armed -> PrefixFollowup(x, k)
      [] ~Overlaid(a) /\ ~a.swap /\ ~a.armed /\ k = "leader" -> OnFront(x, [a EXCEPT !.armed = TRUE])
      [] ~Overlaid(a) /\ ~a.swap /\ ~a.armed /\ MapKey(k) # "none" -> Global(x, MapKey(k), 0)
      [] OTHER -> IF a.focus = "terminal" THEN Typed(x) ELSE OnFront(x, UpperKey(a, k))

\* handle_empty_key
EmptyKey(x, k) ==
    CASE x.armed /\ k = "o" -> [x EXCEPT !.armed = FALSE, !.dialog = TRUE]
      [] x.armed /\ k = "h" -> [x EXCEPT !.armed = FALSE, !.help = TRUE]
      [] x.armed /\ k = "q" -> [x EXCEPT !.armed = FALSE, !.quit = TRUE]
      [] x.armed /\ k \notin {"o", "h", "q"} -> [x EXCEPT !.armed = FALSE]
      [] OTHER -> [x EXCEPT !.armed = (k = "leader")]

HelpKey(x, k) == IF k \in {"esc", "enter", "q", "h"} THEN [x EXCEPT !.help = FALSE] ELSE x

\* handle_repo_input_key: Esc and Enter may close the dialog or go one step
\* back or on in it (CloneJobs); everything else is typed into it.
DialogKey(x, k, closes) ==
    IF k \in {"esc", "enter"} /\ closes THEN [x EXCEPT !.dialog = FALSE] ELSE x

DispatchKey(x, k, closes) ==
    CASE x.help -> HelpKey(x, k)
      [] ~x.help /\ x.dialog -> DialogKey(x, k, closes)
      [] ~x.help /\ ~x.dialog /\ x.tabs # << >> -> HandleKey(x, k)
      [] OTHER -> EmptyKey(x, k)

\* dispatch_paste, handle_paste
DispatchPaste(x) ==
    LET a == [x.app[InFront(x)] EXCEPT !.armed = FALSE] IN
    CASE x.dialog -> x
      [] ~x.dialog /\ x.tabs = << >> -> [x EXCEPT !.armed = FALSE]
      [] OTHER -> IF a.focus = "terminal" THEN Typed(OnFront(x, a)) ELSE OnFront(x, a)

----------------------------------------------------------------------------
(* The pointer.  A target is what lies under it.                             *)

Target(what, n) == [what |-> what, n |-> n]
Under(a) ==
    {Target(t, p) : t \in {"pane", "link"}, p \in PanesShown(a)}
    \cup {Target("paneTab", i) : i \in IF a.full = "off" /\ (a.diff \/ a.list) THEN {} ELSE DOMAIN a.panes}
    \cup {Target(t, 0) : t \in IF a.full = "off" /\ ~a.diff /\ ~a.list THEN {"list", "diff"} ELSE {}}
    \cup {Target("tab", 0), Target("hint", 0)}

FocusClicked(a, p) ==
    [SyncWindow([a EXCEPT !.armed = FALSE, !.active = IndexOf(a.panes, p)]) EXCEPT !.focus = "terminal"]

\* dispatch_hint_click: the keys the hint names.
HintClick(x) ==
    IF x.app[InFront(x)].armed \/ x.app[InFront(x)].swap THEN HandleKey(x, "1")
    ELSE HandleKey(HandleKey(x, "leader"), "f")

PressAt(x, t) ==
    LET r == InFront(x)
        a == x.app[r]
        off == [a EXCEPT !.armed = FALSE]
        y == OnFront(x, FocusClicked(a, t.n))
        z == Click(y, r, t.n, TRUE)
    IN CASE Overlaid(a) -> x
         [] ~Overlaid(a) /\ a.swap ->
               OnFront(x, LET b == [a EXCEPT !.swap = FALSE] IN
                          CASE t.what \in {"pane", "link"} -> SwapWith(b, IndexOf(b.panes, t.n))
                            [] t.what = "paneTab" -> SwapWith(b, t.n)
                            [] OTHER -> b)
         [] ~Overlaid(a) /\ ~a.swap /\ t.what = "link" -> y
         [] ~Overlaid(a) /\ ~a.swap /\ t.what = "pane" ->
               IF <<r, t.n>> \in wants THEN [z EXCEPT !.app[r].press = t.n] ELSE y
         [] ~Overlaid(a) /\ ~a.swap /\ t.what = "tab" -> OnFront(x, off)
         [] ~Overlaid(a) /\ ~a.swap /\ t.what \in {"list", "diff"} -> OnFront(x, [off EXCEPT !.focus = t.what])
         [] ~Overlaid(a) /\ ~a.swap /\ t.what = "paneTab" -> OnFront(x, SwitchPane(off, t.n))
         [] OTHER -> HintClick(x)

\* dispatch_mouse, a press: the dialog swallows it; the empty screen has one hint.
DispatchPress(x, t) ==
    CASE x.dialog -> x
      [] ~x.dialog /\ x.tabs = << >> -> [x EXCEPT !.armed = FALSE, !.dialog = TRUE]
      [] OTHER -> PressAt(x, t)

\* release_pending_press: to the pane that saw the press, if it is still shown.
ReleaseAt(x) ==
    LET r == InFront(x)
        p == x.app[r].press
        y == [x EXCEPT !.app[r].press = 0]
    IN CASE p = 0 -> x
         [] p # 0 /\ p \in PanesShown(x.app[r]) -> Click(y, r, p, FALSE)
         [] OTHER -> [y EXCEPT !.lost = @ \cup ({<<r, p>>} \cap x.bel)]

\* Mutant: the dialog swallows a release as it does a press.
SwallowsRelease(x) == IF x.dialog \/ x.tabs = << >> THEN x ELSE ReleaseAt(x)
DispatchRelease(x) == IF x.tabs = << >> THEN x ELSE ReleaseAt(x)

----------------------------------------------------------------------------
(* Steps *)

\* A turn's worth of work on the workspace, with what programs believe.
Now == ws @@ [bel |-> believes, lost |-> orphans, typed |-> FALSE]
WorkspaceBecomes(x) ==
    /\ ws' = [f \in DOMAIN ws |-> x[f]]
    /\ believes' = x.bel
    /\ orphans' = x.lost \cap x.bel

Over == (IF ws.help THEN {"help"} ELSE {}) \cup (IF ws.dialog THEN {"dialog"} ELSE {})
        \cup (IF ws.tabs # << >> /\ Overlaid(ws.app[InFront(ws)]) THEN {"search"} ELSE {})
InputStep(kind, key, x) ==
    /\ ~ws.quit /\ krBudget.acts > 0 /\ key \in krBudget.inputs
    /\ krBudget' = [krBudget EXCEPT !.acts = @ - 1]
    /\ WorkspaceBecomes(x)
    /\ last' = [kind |-> kind, key |-> key, over |-> Over, typed |-> x.typed]
    /\ UNCHANGED wants

KeyDown == \E k \in KeyNames, closes \in BOOLEAN :
    InputStep("key", k, DispatchKey(Now, k, closes)) /\ UNCHANGED hand
Paste == InputStep("paste", "paste", DispatchPaste(Now)) /\ UNCHANGED hand
ButtonDown ==
    /\ ~hand /\ hand' = TRUE
    /\ \E t \in IF ws.tabs = << >> THEN {Target("hint", 0)} ELSE Under(ws.app[InFront(ws)]) :
         InputStep("press", "press", DispatchPress(Now, t))
ButtonUp ==
    /\ hand /\ hand' = FALSE /\ ~ws.quit
    /\ WorkspaceBecomes(DispatchRelease(Now))
    /\ last' = [kind |-> "release", key |-> "release", over |-> Over, typed |-> FALSE]
    /\ UNCHANGED <<wants, krBudget>>

News ==
    /\ ~ws.quit /\ krBudget.news > 0
    /\ krBudget' = [krBudget EXCEPT !.news = @ - 1]
    /\ UNCHANGED <<hand, last>>

TabLists == {s \in UNION {[1 .. n -> Repos] : n \in 0 .. Cardinality(Repos)} : IsInjective(s)}
SessionSays ==
    /\ News
    /\ \E repos \in TabLists, active \in Repos \cup {0} :
         /\ active \in Range(repos) \/ (active = 0 /\ repos = << >>)
         /\ WorkspaceBecomes(Adopt(Now, repos, active))
         /\ wants' = {b \in wants : b[1] \in Range(repos)}

\* poll_terminal: a pane of any open project appears or goes, for whatever reason.
Polled(r, e) ==
    [Now EXCEPT !.app[r] = PollTerminal(@, <<e>>),
                !.bel = IF e.kind = "exited" THEN @ \ {<<r, e.pane>>} ELSE @]
PaneArrives ==
    /\ News
    /\ \E r \in Range(ws.tabs), p \in PVPanes, mine \in BOOLEAN :
         /\ p \notin Range(ws.app[r].panes) /\ \A q \in 1 .. p - 1 : q \in Range(ws.app[r].panes)
         /\ WorkspaceBecomes(Polled(r, Created(p, 7, mine)))
    /\ UNCHANGED wants
PaneGoes ==
    /\ News
    /\ \E r \in Range(ws.tabs) : \E p \in Range(ws.app[r].panes) :
         /\ WorkspaceBecomes(Polled(r, Exited(p)))
         /\ wants' = wants \ {<<r, p>>}

\* A program turns its mouse reports on or off; off, it forgets what was held.
ProgramAsks ==
    /\ News
    /\ \E r \in Range(ws.tabs) : \E p \in Range(ws.app[r].panes) :
         /\ wants' = IF <<r, p>> \in wants THEN wants \ {<<r, p>>} ELSE wants \cup {<<r, p>>}
         /\ WorkspaceBecomes([Now EXCEPT !.bel = @ \ {<<r, p>>}])

\* Either an empty workspace, or one project whose first pane is there.
KRInit ==
    /\ ws \in {[tabs |-> << >>, active |-> 1, armed |-> FALSE, help |-> FALSE, dialog |-> FALSE,
                quit |-> FALSE, app |-> [r \in Repos |-> NewProject]],
               [tabs |-> <<1>>, active |-> 1, armed |-> FALSE, help |-> FALSE, dialog |-> FALSE, quit |-> FALSE,
                app |-> [r \in Repos |-> IF r = 1 THEN PollTerminal(NewProject, <<Created(1, 7, FALSE)>>)
                                         ELSE NewProject]]}
    /\ wants = IF ws.tabs = << >> THEN {} ELSE {<<1, 1>>}
    /\ believes = {} /\ orphans = {} /\ hand = FALSE
    /\ last = [kind |-> "none", key |-> "none", over |-> {}, typed |-> FALSE]
    /\ krBudget \in KRScripts

KRNext == KeyDown \/ Paste \/ ButtonDown \/ ButtonUp
          \/ SessionSays \/ PaneArrives \/ PaneGoes \/ ProgramAsks

----------------------------------------------------------------------------
(* Properties *)

\* A press waits for its release only on the project in front and only while
\* the button is down, and a program believes a button is held only while that
\* press waits - whatever tabs, dialogs and full screens came in between -
\* unless its pane was hidden when the release came (mouse.rs, switch, add).
PressPaired ==
    /\ \A r \in Range(ws.tabs) : ws.app[r].press # 0 => hand /\ r = InFront(ws)
    /\ \A b \in believes \ orphans : b[1] \in Range(ws.tabs) /\ ws.app[b[1]].press = b[2]

\* The prefix and the swap never wait together, nor behind a search bar.
OneFollowup ==
    \A r \in Range(ws.tabs) :
        LET a == ws.app[r] IN ~(a.armed /\ a.swap) /\ (a.armed \/ a.swap => ~Overlaid(a))

\* A key is typed into a program only with nothing over the panes, and a
\* paste never through the dialog.
TypedInSight ==
    last.typed => /\ last.kind = "key" => last.over = {}
                  /\ "dialog" \notin last.over

\* All three: where an input goes is what the screen showed (dispatch.rs,
\* mouse.rs, prefix.rs).
KeysRight == PressPaired /\ OneFollowup /\ TypedInSight

\* docs/keybindings.md:81: Esc pressed on a project with nothing over it but a
\* search bar leaves it without one.
EscClears ==
    last.kind = "key" /\ last.key = "esc" /\ last.over = {"search"} /\ ws.tabs # << >>
        => ~Overlaid(ws.app[InFront(ws)])
=============================================================================
