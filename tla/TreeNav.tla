------------------------------- MODULE TreeNav -------------------------------
(***************************************************************************)
(* The file tree of a project (app/git/tree.rs, app/navigation/tree_nav.rs,*)
(* ui/tree_view, runtime tree_watch): directories are listed when they are *)
(* opened, the listings are kept, the open ones are watched, and an event  *)
(* makes the listing it belongs to be read again, at the next tick that    *)
(* shows the tree.                                                         *)
(*                                                                         *)
(* Paths are numbered in the order the full tree lists them; 0 is the      *)
(* root. A listing is a set of children; no listing is kept for a path     *)
(* outside the cache. A handler reads and watches in one step.             *)
(***************************************************************************)
EXTENDS Integers, Sequences, FiniteSets, SequencesExt

CONSTANTS
    TreePaths,    \* 1 .. n, every path that may exist
    ParentOf,     \* parent_path of each, 0 for a top-level entry
    TreeDirs,     \* those that are directories
    MaxDepth,     \* tree_config.max_depth
    MaxTreeKeys,  \* bound: keys pressed
    MaxTreeEdits, \* bound: files or directories created or removed
    MaxErrors     \* bound: errors the watcher reports

VARIABLES
    present,   \* paths that exist
    attached,  \* directories the system watches: a removed one is lost
    events,    \* directories with an event not drained yet; -1: an error
    tree,      \* the navigator's state; its `gap` is the listings that may have
               \* changed unwatched since they were read
    used       \* keys, edits and errors so far

tnvars == <<present, attached, events, tree, used>>

Unattributed == -1

\* Every ancestor of a path but the root; MaxDepth bounds the chain.
Up[n \in 0 .. Cardinality(TreePaths)] ==
    [p \in TreePaths |-> IF n = 0 \/ ParentOf[p] = 0 THEN {}
                         ELSE {ParentOf[p]} \cup Up[n - 1][ParentOf[p]]]
AncestorsOf == [p \in TreePaths |-> Up[Cardinality(TreePaths)][p]]
Ancestors(p) == AncestorsOf[p]
Below(d) == {p \in TreePaths : d \in Ancestors(p)}
Depth(p) == Cardinality(Ancestors(p))

\* read_children. A directory that is gone lists nothing.
Listing(d) == {p \in present : ParentOf[p] = d}

----------------------------------------------------------------------------
(* TreeView *)

Cached(t) == DOMAIN t.cache

\* search_filtering.
Filtering(t) == t.search /\ t.query # TreePaths

\* recompute_filter: each match and its ancestors.
ShowSet(t) == UNION {{p} \cup Ancestors(p) : p \in t.index \cap t.query}

InCache(t, p) == ParentOf[p] \in Cached(t) /\ p \in t.cache[ParentOf[p]]

\* push_children, push_children_filtered.
Visible(t, p) ==
    /\ InCache(t, p)
    /\ \A d \in Ancestors(p) : InCache(t, d)
    /\ IF Filtering(t) THEN p \in ShowSet(t)
       ELSE \A d \in Ancestors(p) : d \in t.expanded

Rows(t) == SelectSeq([p \in TreePaths |-> p], LAMBDA p : Visible(t, p))

\* The path under the cursor, 0 if there is none; the cursor counts from 1.
SelectedPath(t) ==
    LET rows == Rows(t) IN IF t.selected \in DOMAIN rows THEN rows[t.selected] ELSE 0

\* The cursor moves to a path that has a row.
PointAt(t, p) ==
    LET rows == Rows(t)
    IN IF p \notin ToSet(rows) THEN t
       ELSE [t EXCEPT !.selected = CHOOSE i \in DOMAIN rows : rows[i] = p]

\* clamp_selection.
ClampSelection(t) ==
    LET last == Len(Rows(t))
    IN [t EXCEPT !.selected = IF last = 0 THEN 1 ELSE IF @ > last THEN last ELSE @]

\* preview_tree_selected.
PreviewSelected(t) ==
    LET p == SelectedPath(t) IN [t EXCEPT !.shown = IF p \in TreeDirs THEN 0 ELSE p]

EndSearch(t) == [t EXCEPT !.search = FALSE, !.query = TreePaths, !.index = {}]

\* ensure_tree_children.
EnsureChildren(t, dirs) ==
    [t EXCEPT !.cache = [d \in Cached(t) \cup dirs |->
                            IF d \in Cached(t) THEN t.cache[d] ELSE Listing(d)],
              !.gap = @ \ (dirs \ Cached(t))]

\* build_tree_index: the directories reached through kept or fresh listings.
Children(t, d) == IF d \in Cached(t) THEN t.cache[d] ELSE Listing(d)
Reached(t) ==
    {p \in TreePaths : /\ p \in Children(t, ParentOf[p])
                       /\ \A d \in Ancestors(p) : d \in Children(t, ParentOf[d])
                       /\ Depth(p) <= MaxDepth}
BuildIndex(t) ==
    [EnsureChildren(t, {0} \cup {d \in Reached(t) \cap TreeDirs : Depth(d) < MaxDepth})
        EXCEPT !.index = Reached(t)]

\* TreeWatcher::sync: a directory that is not there cannot be watched.
SyncTo(t, desired) ==
    [t EXCEPT !.watched = (@ \cap desired) \cup {d \in desired : d = 0 \/ d \in present}]

\* sync_tree_watches: during a search, everything listed.
SyncWatches(t) == SyncTo(t, {0} \cup (IF t.search THEN Cached(t) ELSE t.expanded))

\* refresh_tree_cache_scoped: an expanded directory stays expanded if its
\* parent, looked at before it, still lists it.
RefreshCache(t, dirs) ==
    LET kept == EnsureChildren([t EXCEPT !.cache = [d \in Cached(t) \ dirs |-> t.cache[d]]], {0})
        Listed(d) == d \in Children(kept, ParentOf[d]) /\ ParentOf[d] \in Cached(kept) \cup t.expanded
        still == {d \in t.expanded : \A e \in {d} \cup (Ancestors(d) \cap t.expanded) : Listed(e)}
    IN SyncWatches([EnsureChildren(kept, still) EXCEPT !.expanded = still])

\* refresh_tree_preserving_cursor_scoped.
RefreshKeepingCursor(t, dirs) ==
    LET was == SelectedPath(t)
        r == RefreshCache(t, dirs)
        i == IF r.search THEN BuildIndex(r) ELSE r
    IN PreviewSelected(ClampSelection(PointAt(i, was)))

----------------------------------------------------------------------------
(* Keys *)

\* move_tree_selection.
MoveCursor(t, delta) ==
    LET last == Len(Rows(t))
        now == IF t.selected > last THEN last ELSE t.selected
        to == IF now + delta < 1 THEN 1 ELSE IF now + delta > last THEN last ELSE now + delta
    IN IF last = 0 THEN [t EXCEPT !.selected = 1]
       ELSE IF to = t.selected THEN t ELSE PreviewSelected([t EXCEPT !.selected = to])

TreeExpand(t) ==
    LET p == SelectedPath(t)
    IN IF p \notin TreeDirs \/ p \in t.expanded \/ Depth(p) + 1 > MaxDepth THEN t
       ELSE SyncWatches([EnsureChildren(t, {p}) EXCEPT !.expanded = @ \cup {p}])

TreeCollapse(t) ==
    LET p == SelectedPath(t)
    IN IF p = 0 THEN t
       ELSE IF p \in t.expanded
       THEN SyncWatches([t EXCEPT !.expanded = @ \ ({p} \cup Below(p))])
       ELSE IF ParentOf[p] \in ToSet(Rows(t)) THEN PreviewSelected(PointAt(t, ParentOf[p])) ELSE t

StartSearch(t) ==
    SyncWatches([BuildIndex(t) EXCEPT !.search = TRUE, !.query = TreePaths])

\* tree_search_push, tree_search_pop, reset_tree_selection_after_filter: the
\* first row that matches by itself.
TypeQuery(t, hits) ==
    LET u == [t EXCEPT !.query = hits]
        rows == Rows(u)
        own == {i \in DOMAIN rows : rows[i] \in hits}
    IN PreviewSelected([u EXCEPT !.selected =
           IF own = {} THEN 1 ELSE CHOOSE i \in own : \A j \in own : i <= j])

CancelTreeSearch(t) == PreviewSelected(ClampSelection(SyncWatches(EndSearch(t))))

ConfirmTreeSearch(t) ==
    LET p == SelectedPath(t)
        u == SyncWatches(EndSearch([t EXCEPT !.expanded =
                 @ \cup (IF p = 0 THEN {} ELSE Ancestors(p))]))
    IN IF t.query = TreePaths THEN CancelTreeSearch(t)
       ELSE PreviewSelected(ClampSelection(PointAt(u, p)))

\* enter_tree_mode; leaving it drops the watches (exit_tree_to_status,
\* clear_tree_watches).
EnterTree(t) ==
    RefreshKeepingCursor(EndSearch([t EXCEPT !.on = TRUE, !.shown = 0]), Cached(t))
LeaveTree(t) == SyncTo([EndSearch(t) EXCEPT !.on = FALSE], {})

----------------------------------------------------------------------------
(* Steps *)

\* What is newly watched is attached; a listing that is not attached may
\* change unseen from now on.
TreeBecomes(t) ==
    /\ attached' = (attached \cap t.watched) \cup (t.watched \ tree.watched)
    /\ tree' = [t EXCEPT !.gap = (@ \cup (Cached(t) \ attached')) \cap Cached(t)]

UseUp(what, max) == used[what] < max /\ used' = [used EXCEPT ![what] = @ + 1]

TreeKey(t) ==
    /\ UseUp("keys", MaxTreeKeys)
    /\ TreeBecomes(t)
    /\ UNCHANGED <<present, events>>

TreeUp == tree.on /\ TreeKey(MoveCursor(tree, -1))
TreeDown == tree.on /\ TreeKey(MoveCursor(tree, 1))
PressExpand == tree.on /\ ~tree.search /\ TreeKey(TreeExpand(tree))
PressCollapse == tree.on /\ ~tree.search /\ TreeKey(TreeCollapse(tree))
PressFind == tree.on /\ ~tree.search /\ TreeKey(StartSearch(tree))
PressQuery == tree.on /\ tree.search /\ \E p \in TreePaths : TreeKey(TypeQuery(tree, {p}))
PressCancel == tree.on /\ tree.search /\ TreeKey(CancelTreeSearch(tree))
PressConfirm == tree.on /\ tree.search /\ TreeKey(ConfirmTreeSearch(tree))
PressEnterTree == ~tree.on /\ TreeKey(EnterTree(tree))
PressLeaveTree == tree.on /\ TreeKey(LeaveTree(tree))

\* A file or an empty directory appears; a path disappears with all below it.
\* An event comes from each watched directory whose listing changed.
Changed(paths) ==
    /\ UseUp("edits", MaxTreeEdits)
    /\ events' = events \cup ({ParentOf[p] : p \in paths} \cap attached)

CreatePath(p) ==
    /\ p \notin present
    /\ ParentOf[p] \in {0} \cup present
    /\ Changed({p})
    /\ present' = present \cup {p}
    /\ UNCHANGED <<attached, tree>>

VanishPath(p) ==
    /\ p \in present
    /\ LET gone == {p} \cup Below(p)
       IN /\ Changed(gone \cap present)
          /\ present' = present \ gone
          /\ attached' = attached \ gone
          /\ tree' = [tree EXCEPT !.gap = @ \cup (Cached(tree) \cap gone)]

\* The watcher drops events and says so.
WatcherError ==
    /\ UseUp("errors", MaxErrors)
    /\ events' = {Unattributed}
    /\ UNCHANGED <<present, attached, tree>>

\* drain_tree_watcher, every tick, whether the tree is shown or not.
DrainWatcher ==
    /\ events # {}
    /\ events' = {}
    /\ tree' = [tree EXCEPT !.dirty = @ \cup (events \ {Unattributed}),
                            !.dirtyAll = @ \/ Unattributed \in events]
    /\ UNCHANGED <<present, attached, used>>

\* Mutant: a watcher that lost events is believed about which directories
\* changed.
ForgetsDirty ==
    /\ tree.on
    /\ tree.dirty # {} \/ tree.dirtyAll
    /\ LET t == [tree EXCEPT !.dirty = {}, !.dirtyAll = FALSE]
       IN TreeBecomes(RefreshKeepingCursor(t, tree.dirty))
    /\ UNCHANGED <<present, events, used>>
\* poll_tree_watcher, of the project on screen: what was noted is read again.
PollWatcher ==
    /\ tree.on
    /\ tree.dirty # {} \/ tree.dirtyAll
    /\ LET t == [tree EXCEPT !.dirty = {}, !.dirtyAll = FALSE]
       IN TreeBecomes(RefreshKeepingCursor(t, IF tree.dirtyAll THEN Cached(tree) ELSE tree.dirty))
    /\ UNCHANGED <<present, events, used>>

TNInit ==
    /\ present \in {q \in SUBSET TreePaths : \A p \in q : Ancestors(p) \subseteq q}
    /\ attached = {}
    /\ events = {}
    /\ tree = [on |-> FALSE, cache |-> [d \in {} |-> {}], expanded |-> {}, selected |-> 1,
               shown |-> 0, search |-> FALSE, query |-> TreePaths, index |-> {},
               watched |-> {}, dirty |-> {}, dirtyAll |-> FALSE, gap |-> {}]
    /\ used = [keys |-> 0, edits |-> 0, errors |-> 0]

TNNext ==
    \/ TreeUp \/ TreeDown \/ PressExpand \/ PressCollapse
    \/ PressFind \/ PressQuery \/ PressCancel \/ PressConfirm
    \/ PressEnterTree \/ PressLeaveTree
    \/ \E p \in TreePaths : CreatePath(p) \/ VanishPath(p)
    \/ WatcherError \/ DrainWatcher \/ PollWatcher

----------------------------------------------------------------------------
(* Properties *)

\* When every event has been acted on, a listing the tree shows and that was
\* watched since it was read is what the directory holds, whatever was opened,
\* closed, searched, left and removed meanwhile and whether the events came by
\* name or were lost; the cursor is on a row and the preview is that row's
\* (app/git/tree.rs refresh_tree_cache_scoped, poll_tree_watcher).
TreeCurrent ==
    tree.on /\ events = {} /\ tree.dirty = {} /\ ~tree.dirtyAll =>
        /\ \A d \in Cached(tree) \ tree.gap : tree.cache[d] = Listing(d)
        /\ Rows(tree) # <<>> => tree.selected \in 1 .. Len(Rows(tree))
        /\ tree.shown = IF SelectedPath(tree) \in TreeDirs THEN 0 ELSE SelectedPath(tree)

\* tree.rs sync_tree_watches: "A filename search matches the whole tree, not
\* just what is expanded, so a file created in a collapsed directory must
\* produce an event."
SearchWatched ==
    tree.on /\ tree.search /\ events = {} /\ tree.dirty = {} /\ ~tree.dirtyAll =>
        Cached(tree) \cap ({0} \cup present) \subseteq tree.watched
=============================================================================
