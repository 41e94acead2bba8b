------------------------------ MODULE GitViews ------------------------------
(***************************************************************************)
(* What a project's window shows of its repository (app/git,               *)
(* app/navigation): the list of changed files, the commit log with its     *)
(* pages and the files of one commit, the tree, and the pane beside them   *)
(* with the diff or the file under the cursor. Everything in the pane is   *)
(* loaded in the background through LoadLanes, the log by a fetch of its   *)
(* own, the changed files by the snapshot worker; keys are pressed while   *)
(* any of it is under way and while the repository changes.                *)
(*                                                                         *)
(* A handler is an operator from the window's state to its state, as the   *)
(* code's methods are on &mut self; one action runs one handler. An index  *)
(* counts from 1 and is 0 in an empty list. Mtimes are the numbers of the  *)
(* edits that set them.                                                    *)
(***************************************************************************)
EXTENDS LoadLanes, Integers, FiniteSets, SequencesExt

CONSTANTS
    Paths,        \* changed files are listed in the order of these numbers
    CommitFiles,  \* per commit that can exist, the files it touches, in order
    TreeRows,     \* per row of the tree, its path, or 0 for a directory
    PageSize,     \* CommitLogController::page_size
    Threshold,    \* CommitLogController::prefetch_threshold
    Scripts       \* the kinds of use to consider, with their bounds

VARIABLES
    script,     \* keys that may be pressed and how many, edits and commits
                \* that may be made, loads that may fail, whether it follows
    spent,      \* keys, edits, commits and failures so far
    disk,       \* per path, the edit that last changed it, or 0; the history
    snapshots,  \* what the snapshot worker delivered and nobody applied yet
    view,       \* the window
    readings    \* what each waiting reply says

gvvars == <<script, spent, disk, snapshots, view, readings, llvars>>

Diff == 0
File == 1
DrillFiles == 2
Oids == DOMAIN CommitFiles

----------------------------------------------------------------------------
(* Targets *)

\* DiffTarget and FileViewKey.
NoTarget == [kind |-> "none", oid |-> 0, path |-> 0]
OfFile(p) == [kind |-> "file", oid |-> 0, path |-> p]
OfCommit(o) == [kind |-> "commit", oid |-> o, path |-> 0]
OfCommitFile(o, p) == [kind |-> "commitFile", oid |-> o, path |-> p]

NoIntent == [gen |-> 0, target |-> NoTarget, keep |-> FALSE]
NoFetch == [at |-> "none", kind |-> "none", skip |-> 0, selected |-> 0, head |-> 0,
            ok |-> TRUE, page |-> <<>>]
NoSnapshot == [files |-> <<>>, mtimes |-> [p \in Paths |-> 0], head |-> 0]
EmptyPane == [target |-> NoTarget, ver |-> 0]

\* What a handler works on: the window and the lanes it asks through.
State == [v |-> view, asked |-> asked, newest |-> newest]

At(list, i) == IF i \in 1 .. Len(list) THEN list[i] ELSE 0
PositionIn(list, x) ==
    LET at == {i \in 1 .. Len(list) : list[i] = x}
    IN IF at = {} THEN 0 ELSE CHOOSE i \in at : \A j \in at : i <= j
Clamp(i, lo, hi) == IF i < lo THEN lo ELSE IF i > hi THEN hi ELSE i

\* filter_cache: the places of a list that its query matches.
Shown(list, hits) == {i \in 1 .. Len(list) : list[i] \in hits}

\* resolve_filtered_selection and the resolution in move_selected_in_filter:
\* from the place selected, `delta` places on among those shown.
Resolve(shown, selected, delta) ==
    IF shown = {} THEN selected
    ELSE LET order == SetToSortSeq(shown, LAMBDA a, b : a < b)
         IN IF selected \notin shown THEN order[1]
            ELSE order[Clamp(PositionIn(order, selected) + delta, 1, Len(order))]

\* selected_filtered_status_path.
StatusPath(s) ==
    IF s.v.selected \in Shown(s.v.files, s.v.hits.files)
    THEN s.v.files[s.v.selected] ELSE 0

SelectedCommit(s) == At(s.v.commits, s.v.logAt)
DrilledFile(s) == At(s.v.drillFiles, s.v.fileAt)

\* current_file_view_key.
CurrentKey(s) ==
    LET p == CASE s.v.mode = "Status" -> StatusPath(s)
               [] s.v.mode = "Tree" -> At(TreeRows, s.v.treeAt)
               [] OTHER -> IF s.v.drill THEN DrilledFile(s) ELSE 0
    IN IF p = 0 THEN NoTarget
       ELSE IF s.v.mode = "Log" THEN OfCommitFile(SelectedCommit(s), p) ELSE OfFile(p)

\* diff_target_is_current, as the target that is.
CurrentDiff(s) ==
    CASE s.v.mode = "Status" /\ StatusPath(s) # 0 -> OfFile(StatusPath(s))
      [] s.v.mode = "Log" /\ ~s.v.drill /\ SelectedCommit(s) # 0 -> OfCommit(SelectedCommit(s))
      [] s.v.mode = "Log" /\ s.v.drill /\ SelectedCommit(s) # 0 /\ DrilledFile(s) # 0 ->
            OfCommitFile(SelectedCommit(s), DrilledFile(s))
      [] OTHER -> NoTarget

----------------------------------------------------------------------------
(* Asking for loads *)

\* request_diff, request_file, request_commit_files.
Request(s, lane, target, keep) ==
    LET gen == s.v.gen + 1
    IN [s EXCEPT !.v.gen = gen,
                 !.v.intent[lane] = [gen |-> gen, target |-> target, keep |-> keep],
                 !.asked[lane] = gen, !.newest[lane] = gen]

\* cancel_diff, cancel_file, cancel_commit_files.
CancelLoad(s, lane) ==
    LET gen == s.v.gen + 1
    IN [s EXCEPT !.v.gen = gen, !.v.intent[lane] = NoIntent,
                 !.asked[lane] = 0, !.newest[lane] = gen]

InvalidateFileView(s) ==
    [CancelLoad(s, File) EXCEPT !.v.pane = "Diff", !.v.fileView = NoTarget]

ClearDiffState(s) ==
    InvalidateFileView([CancelLoad(s, Diff) EXCEPT !.v.hunks = EmptyPane])

\* refresh_diff.
RefreshDiff(s, reset) ==
    IF s.v.mode # "Status" THEN s
    ELSE IF StatusPath(s) = 0 THEN ClearDiffState(s)
    ELSE Request(s, Diff, OfFile(StatusPath(s)), ~reset)

\* load_commit_diff_for_selected.
LoadCommitDiff(s) ==
    IF SelectedCommit(s) = 0 THEN ClearDiffState(s)
    ELSE Request(s, Diff, OfCommit(SelectedCommit(s)), FALSE)

\* load_file_diff_for_log_file_selected.
LoadDrilledDiff(s) ==
    IF SelectedCommit(s) = 0 \/ DrilledFile(s) = 0 THEN ClearDiffState(s)
    ELSE Request(s, Diff, OfCommitFile(SelectedCommit(s), DrilledFile(s)), FALSE)

\* load_file_view.
LoadFileView(s, key) == Request([s EXCEPT !.v.fileView = key], File, key, FALSE)

\* preview_tree_selected.
PreviewTree(s) ==
    LET key == CurrentKey(s)
        t == IF key # NoTarget /\ s.v.fileView # key THEN LoadFileView(s, key) ELSE s
    IN [t EXCEPT !.v.pane = "File", !.v.fileView = key]

ResetDrillDown(s) ==
    [s EXCEPT !.v.drill = FALSE, !.v.drillFiles = <<>>, !.v.fileAt = 0,
              !.v.hits.drill = Paths]

----------------------------------------------------------------------------
(* The log's pages *)

\* launch_commit_log_worker: what was being fetched is heard of no more.
Launch(s, kind, skip, selected, head) ==
    [s EXCEPT !.v.pending = TRUE,
              !.v.fetch = [NoFetch EXCEPT !.at = "reading", !.kind = kind, !.skip = skip,
                                          !.selected = selected, !.head = head]]

SpawnTail(s, skip) ==
    IF s.v.full \/ s.v.pending THEN s ELSE Launch(s, "tail", skip, 0, 0)

SpawnRefresh(s, selected, head) ==
    IF s.v.pending THEN s ELSE Launch(s, "refresh", 0, selected, head)

CancelFetch(s) == [s EXCEPT !.v.fetch = NoFetch, !.v.pending = FALSE]

\* maybe_prefetch_commit_log.
MaybePrefetch(s) ==
    IF /\ s.v.mode = "Log" /\ ~s.v.drill /\ ~s.v.searching
       /\ s.v.commits # <<>> /\ ~s.v.pending /\ ~s.v.full
       /\ s.v.logAt - 1 + Threshold >= Len(s.v.commits)
    THEN SpawnTail(s, Len(s.v.commits)) ELSE s

\* refresh_commit_log_after_head_change.
RefreshLog(s) == SpawnRefresh(CancelFetch(s), SelectedCommit(s), At(s.v.commits, 1))

\* apply_tail_page, append_page.
ApplyTail(s, f) ==
    LET t == [s EXCEPT !.v.pending = FALSE]
    IN IF f.skip # Len(s.v.commits) \/ ~f.ok THEN t
       ELSE MaybePrefetch([t EXCEPT !.v.commits = @ \o f.page,
                                    !.v.full = @ \/ Len(f.page) < PageSize])

\* apply_refresh_page: can_prepend.
CanPrepend(s, f) ==
    LET at == PositionIn(f.page, f.head)
        rest == SubSeq(f.page, at, Len(f.page))
    IN /\ f.head # 0 /\ at # 0 /\ s.v.commits # <<>>
       /\ Len(rest) <= Len(s.v.commits)
       /\ rest = SubSeq(s.v.commits, 1, Len(rest))

Prepended(s, f) ==
    LET fresh == SubSeq(f.page, 1, PositionIn(f.page, f.head) - 1)
        commits == fresh \o s.v.commits
        at == PositionIn(commits, f.selected)
    IN [s EXCEPT !.v.commits = commits, !.v.pending = FALSE,
                 !.v.full = @ \/ (Len(f.page) < PageSize /\ Len(commits) <= PageSize),
                 !.v.logAt = IF f.selected # 0 /\ at # 0 THEN at
                             ELSE Clamp(@ + Len(fresh), 1, Len(commits))]

\* replace_first_page.
Replaced(s, f) ==
    LET at == PositionIn(f.page, f.selected)
    IN [s EXCEPT !.v.commits = f.page, !.v.pending = FALSE,
                 !.v.full = Len(f.page) < PageSize,
                 !.v.logAt = IF f.selected # 0 /\ at # 0 THEN at
                             ELSE IF f.page = <<>> THEN 0 ELSE 1]

ApplyRefresh(s, f) ==
    IF ~f.ok THEN [s EXCEPT !.v.pending = FALSE]
    ELSE LET t == IF CanPrepend(s, f) THEN Prepended(s, f) ELSE Replaced(s, f)
             u == [t EXCEPT !.v.lastHead = At(t.v.commits, 1)]
             survives == f.selected # 0 /\ PositionIn(u.v.commits, f.selected) # 0
             w == IF u.v.drill /\ ~survives THEN ResetDrillDown(u) ELSE u
         IN MaybePrefetch(IF w.v.drill THEN LoadDrilledDiff(w) ELSE LoadCommitDiff(w))

----------------------------------------------------------------------------
(* Replies *)

Answered(s, lane) == [s EXCEPT !.v.intent[lane] = NoIntent]

\* Mutant: a reply is taken for what is selected now.
TrustsReply(s, gen, r) ==
    IF s.v.intent[Diff].gen # gen THEN s
    ELSE [Answered(s, Diff) EXCEPT !.v.hunks = [target |-> s.v.intent[Diff].target, ver |-> r.ver]]
\* apply_diff_reply, apply_diff_result.
ApplyDiffReply(s, gen, r) ==
    LET intent == s.v.intent[Diff]
        t == Answered(s, Diff)
        key == CurrentKey(t)
        preserve == /\ key # NoTarget /\ t.v.fileView = key
                    /\ t.v.intent[File].gen > intent.gen \/ t.v.pane = "File"
    IN CASE intent.gen # gen -> s
         [] intent.gen = gen /\ CurrentDiff(t) # intent.target -> t
         [] OTHER ->
              IF r.ok
              THEN LET u == [t EXCEPT !.v.failed = FALSE,
                                      !.v.hunks = [target |-> intent.target, ver |-> r.ver]]
                   IN IF intent.keep \/ preserve THEN u ELSE InvalidateFileView(u)
              ELSE LET u == [t EXCEPT !.v.failed = TRUE]
                   IN IF intent.keep \/ preserve THEN u ELSE ClearDiffState(u)

\* apply_file_reply: an error is shown in the file's place.
ApplyFileReply(s, gen, r) ==
    LET intent == s.v.intent[File]
        t == Answered(s, File)
    IN IF intent.gen # gen THEN s
       ELSE IF CurrentKey(t) # intent.target THEN t
       ELSE [t EXCEPT !.v.fileView = intent.target]

\* apply_commit_files_reply.
ApplyDrillReply(s, gen, r) ==
    LET intent == s.v.intent[DrillFiles]
        t == Answered(s, DrillFiles)
        files == CommitFiles[intent.target.oid]
        u == [t EXCEPT !.v.drill = TRUE, !.v.drillFiles = files,
                       !.v.fileAt = IF files = <<>> THEN 0 ELSE 1]
    IN IF intent.gen # gen THEN s
       ELSE IF t.v.mode # "Log" \/ t.v.drill \/ SelectedCommit(t) # intent.target.oid \/ ~r.ok THEN t
       ELSE IF files = <<>> THEN ClearDiffState(u) ELSE LoadDrilledDiff(u)

----------------------------------------------------------------------------
(* Snapshots *)

\* restore_selection, then sync_selection_to_filter.
Reselect(s, path) ==
    LET at == PositionIn(s.v.files, path)
        i == IF s.v.files = <<>> THEN 0
             ELSE IF path # 0 /\ at # 0 THEN at ELSE Clamp(s.v.selected, 1, Len(s.v.files))
    IN [s EXCEPT !.v.selected = Resolve(Shown(s.v.files, s.v.hits.files), i, 0)]

\* try_auto_follow: the file edited last among those shown, if it was edited
\* within the window and the user has kept still.
FreshestHot(s) ==
    LET hot == {s.v.files[i] : i \in Shown(s.v.files, s.v.hits.files)}
    IN IF hot = {} THEN 0 ELSE CHOOSE p \in hot : \A q \in hot : s.v.hot[q] <= s.v.hot[p]

Follow(s, idle) ==
    LET p == FreshestHot(s)
    IN IF ~idle \/ s.v.mode # "Status" \/ p \in {0, StatusPath(s), s.v.followed} THEN s
       ELSE [s EXCEPT !.v.selected = PositionIn(s.v.files, p), !.v.followed = p]

\* merge_hot_table: an mtime never goes back while its file stays listed.
MergeHot(s, snap) ==
    [s EXCEPT !.v.hot = [p \in Paths |->
        IF snap.mtimes[p] = 0 THEN 0
        ELSE IF snap.mtimes[p] > @[p] THEN snap.mtimes[p] ELSE @[p]]]

\* Mutant: the diff is loaded again only when the cursor moved.
IngestsLazily(s, snap, idle) ==
    LET before == At(s.v.files, s.v.selected)
        t == Follow(Reselect([MergeHot(s, snap) EXCEPT !.v.files = snap.files], before), idle)
    IN IF t.v.mode = "Status" /\ StatusPath(t) # before THEN RefreshDiff(t, TRUE) ELSE t
\* ingest_snapshot.
IngestSnapshot(s, snap, idle) ==
    LET listed == At(s.v.files, s.v.selected)
        before == IF listed # 0 THEN listed ELSE s.v.restoring
        wasMtime == IF s.v.seen[1] # 0 THEN s.v.seen ELSE <<before, IF before = 0 THEN 0 ELSE s.v.hot[before]>>
        t == Follow(Reselect([MergeHot(s, snap) EXCEPT !.v.files = snap.files], before), idle)
        path == StatusPath(t)
        isMtime == <<path, IF path = 0 THEN 0 ELSE snap.mtimes[path]>>
        moved == path # before \/ t.v.followed # s.v.followed
        same == ~moved /\ listed # 0 /\ wasMtime = isMtime
        u == [t EXCEPT !.v.seen = isMtime, !.v.restoring = 0]
        w == IF u.v.mode # "Status" \/ (path # 0 /\ same) THEN u ELSE RefreshDiff(u, moved)
        x == [w EXCEPT !.v.lastHead = snap.head]
    IN IF w.v.lastHead # 0 /\ w.v.lastHead # snap.head /\ w.v.mode = "Log"
       THEN RefreshLog(x) ELSE x

----------------------------------------------------------------------------
(* Keys *)

\* move_selected_in_filter; mark_user_navigated forgets what was followed.
MoveInStatus(s, d) ==
    LET i == Resolve(Shown(s.v.files, s.v.hits.files), s.v.selected, d)
    IN IF i = s.v.selected THEN s
       ELSE RefreshDiff([s EXCEPT !.v.selected = i, !.v.followed = 0], TRUE)

\* log_select_up, log_select_down: going down may fetch more.
MoveInLog(s, d) ==
    LET i == Resolve(Shown(s.v.commits, s.v.hits.commits), s.v.logAt, d)
        t == IF i = s.v.logAt THEN s ELSE LoadCommitDiff([s EXCEPT !.v.logAt = i])
    IN IF d > 0 THEN MaybePrefetch(t) ELSE t

MoveInDrill(s, d) ==
    LET i == Resolve(Shown(s.v.drillFiles, s.v.hits.drill), s.v.fileAt, d)
    IN IF i = s.v.fileAt THEN s ELSE LoadDrilledDiff([s EXCEPT !.v.fileAt = i])

MoveInTree(s, d) == PreviewTree([s EXCEPT !.v.treeAt = Clamp(@ + d, 1, Len(TreeRows))])

\* select_up and select_down with the list focused.
Move(s, d) ==
    CASE s.v.mode = "Tree" -> MoveInTree(s, d)
      [] s.v.mode = "Status" -> MoveInStatus(s, d)
      [] OTHER -> IF s.v.drill THEN MoveInDrill(s, d) ELSE MoveInLog(s, d)

\* A key of a search, or its end: the query matches other items now
\* (search_push, search_pop, cancel_search; log_search_push, log_search_pop,
\* cancel_log_search).
SearchStatus(s, hits) ==
    LET t == [s EXCEPT !.v.hits.files = hits]
        i == Resolve(Shown(t.v.files, hits), t.v.selected, 0)
        u == [t EXCEPT !.v.selected = i]
    IN IF StatusPath(u) = 0 THEN ClearDiffState(u)
       ELSE IF i # t.v.selected \/ u.v.hunks = EmptyPane THEN RefreshDiff(u, TRUE) ELSE u

SearchLog(s, hits) ==
    LET t == [s EXCEPT !.v.hits.commits = hits]
        i == Resolve(Shown(t.v.commits, hits), t.v.logAt, 0)
        u == [t EXCEPT !.v.logAt = i]
    IN IF Shown(t.v.commits, hits) = {} THEN ClearDiffState(u)
       ELSE IF i # t.v.logAt \/ u.v.hunks = EmptyPane THEN LoadCommitDiff(u) ELSE u

SearchDrill(s, hits) ==
    LET t == [s EXCEPT !.v.hits.drill = hits]
        i == Resolve(Shown(t.v.drillFiles, hits), t.v.fileAt, 0)
        u == [t EXCEPT !.v.fileAt = i]
    IN IF Shown(t.v.drillFiles, hits) = {} THEN ClearDiffState(u)
       ELSE IF i # t.v.fileAt \/ u.v.hunks = EmptyPane THEN LoadDrilledDiff(u) ELSE u

\* While the query is being typed no further page is fetched; ending the
\* search makes up for it.
Search(s, hits) ==
    CASE s.v.mode = "Tree" -> s
      [] s.v.mode = "Status" -> SearchStatus(s, hits \cap Paths)
      [] OTHER -> IF s.v.drill THEN SearchDrill(s, hits \cap Paths)
                  ELSE LET t == [SearchLog(s, hits) EXCEPT !.v.searching = hits # Oids]
                       IN IF hits = Oids THEN MaybePrefetch(t) ELSE t

\* log_drill_in, log_drill_out.
DrillIn(s) ==
    IF s.v.mode # "Log" \/ s.v.drill \/ SelectedCommit(s) = 0 THEN s
    ELSE Request(s, DrillFiles, OfCommit(SelectedCommit(s)), FALSE)

DrillOut(s) ==
    IF s.v.mode # "Log" \/ ~s.v.drill THEN s
    ELSE LoadCommitDiff(ResetDrillDown(CancelLoad(s, DrillFiles)))

\* toggle_diff_file_view.
ToggleFile(s) ==
    LET key == CurrentKey(s)
    IN IF s.v.mode = "Tree" THEN s
       ELSE IF s.v.pane = "File" THEN [s EXCEPT !.v.pane = "Diff"]
       ELSE IF key = NoTarget THEN s
       ELSE [(IF s.v.fileView = key THEN s ELSE LoadFileView(s, key)) EXCEPT !.v.pane = "File"]

ToggleSplit(s) ==
    IF s.v.mode = "Tree" THEN s
    ELSE [s EXCEPT !.v.pane = IF @ = "Split" THEN "Diff" ELSE "Split"]

\* cycle_diff_view.
CycleView(s) ==
    CASE s.v.mode = "Tree" -> s
      [] s.v.pane = "Split" -> ToggleFile([s EXCEPT !.v.pane = "Diff"])
      [] s.v.pane = "Diff" -> ToggleSplit(s)
      [] OTHER -> ToggleFile(s)

\* enter_log_mode.
EnterLog(s) ==
    LET t == ResetDrillDown([s EXCEPT !.v.mode = "Log"])
    IN IF t.v.commits = <<>> THEN SpawnRefresh(CancelFetch(t), 0, 0)
       ELSE IF t.v.commits[1] # t.v.lastHead THEN RefreshLog(t)
       ELSE MaybePrefetch(LoadCommitDiff(t))

\* toggle_mode.
ToggleMode(s) ==
    LET t == ClearDiffState(s)
    IN IF t.v.mode # "Log" THEN EnterLog(t)
       ELSE RefreshDiff(ResetDrillDown([t EXCEPT !.v.mode = "Status"]), TRUE)

\* enter_tree_mode, exit_tree_to_status.
ToggleTree(s) ==
    IF s.v.mode = "Tree"
    THEN RefreshDiff(ClearDiffState([s EXCEPT !.v.mode = "Status"]), TRUE)
    ELSE PreviewTree(ClearDiffState(CancelFetch(
            [s EXCEPT !.v.mode = "Tree", !.v.hits.files = Paths])))

----------------------------------------------------------------------------
(* Steps *)

Becomes(s) ==
    /\ view' = s.v
    /\ asked' = s.asked
    /\ newest' = s.newest

Spend(what) ==
    /\ spent[what] < script.max[what]
    /\ spent' = [spent EXCEPT ![what] = @ + 1]

\* One key: whichever handler it reaches runs to its end.
Press(key, s) ==
    /\ key \in script.keys
    /\ Spend("keys")
    /\ Becomes(s)
    /\ UNCHANGED <<script, disk, snapshots, readings, inHand, replies, closed>>

PressUp == Press("up", Move(State, -1))
PressDown == Press("down", Move(State, 1))
PressSearch == \E hits \in script.queries : Press("search", Search(State, hits))
PressDrillIn == Press("drill", DrillIn(State))
PressDrillOut == Press("drill", DrillOut(State))
PressFile == Press("view", ToggleFile(State))
PressSplit == Press("view", ToggleSplit(State))
PressCycle == Press("view", CycleView(State))
PressMode == Press("mode", ToggleMode(State))
PressTree == Press("tree", ToggleTree(State))

Keys ==
    \/ PressUp \/ PressDown \/ PressSearch \/ PressDrillIn \/ PressDrillOut
    \/ PressFile \/ PressSplit \/ PressCycle \/ PressMode \/ PressTree

\* Somebody edits a file, or reverts it.
EditFile(p, to) ==
    /\ Spend("edits")
    /\ disk' = [disk EXCEPT !.mtime[p] = to]
    /\ UNCHANGED <<script, snapshots, view, readings, llvars>>

NextOid == Len(script.history) + spent["commits"] + 1

Commit(history) ==
    /\ Spend("commits")
    /\ disk' = [disk EXCEPT !.history = history]
    /\ UNCHANGED <<script, snapshots, view, readings, llvars>>

MakeCommit == Commit(<<NextOid>> \o disk.history)
AmendCommit == Commit(<<NextOid>> \o Tail(disk.history))

\* The snapshot worker reads and delivers, from time to time also when nothing
\* changed; only the newest delivery counts (drain_snapshot).
SnapshotOf(d) ==
    [files |-> SetToSortSeq({p \in Paths : d.mtime[p] # 0}, LAMBDA a, b : a < b),
     mtimes |-> d.mtime, head |-> d.history[1]]

DeliverSnapshot ==
    /\ IF snapshots = SnapshotOf(disk) THEN ~view.unread /\ Spend("again") ELSE UNCHANGED spent
    /\ snapshots' = SnapshotOf(disk)
    /\ view' = [view EXCEPT !.unread = TRUE]
    /\ UNCHANGED <<script, disk, readings, llvars>>

\* poll_snapshot; `idle` is whether following may happen now.
PollSnapshot ==
    /\ view.unread
    /\ \E idle \in {FALSE, script.follow} :
         Becomes(IngestSnapshot([State EXCEPT !.v.unread = FALSE], snapshots, idle))
    /\ UNCHANGED <<script, spent, disk, snapshots, readings, inHand, replies, closed>>

\* The load worker's steps; a load may fail. What a superseded request would
\* have read does not matter.
LoaderTakes == \E l \in Lanes : TakeUp(l) /\ UNCHANGED <<script, spent, disk, snapshots, view, readings>>
LoaderDrops == Drop /\ UNCHANGED <<script, spent, disk, snapshots, view, readings>>

VersionRead ==
    LET intent == view.intent[inHand.lane]
    IN IF intent.gen = inHand.gen /\ intent.target.kind = "file"
       THEN disk.mtime[intent.target.path] ELSE 0

LoaderReplies ==
    /\ Reply
    /\ \/ readings' = Append(readings, [ok |-> TRUE, ver |-> VersionRead]) /\ UNCHANGED spent
       \/ readings' = Append(readings, [ok |-> FALSE, ver |-> 0]) /\ Spend("failures")
    /\ UNCHANGED <<script, disk, snapshots, view>>

Loader == LoaderTakes \/ LoaderDrops \/ LoaderReplies

\* poll_git_loads, apply_git_load.
PollLoads ==
    /\ replies # <<>>
    /\ LET r == Head(readings)
           gen == Head(replies).gen
       IN Becomes(CASE Head(replies).lane = Diff -> ApplyDiffReply(State, gen, r)
                    [] Head(replies).lane = File -> ApplyFileReply(State, gen, r)
                    [] OTHER -> ApplyDrillReply(State, gen, r))
    /\ replies' = Tail(replies)
    /\ readings' = Tail(readings)
    /\ UNCHANGED <<script, spent, disk, snapshots, inHand, closed>>

\* load_commit_log_page.
PageOf(history, skip) ==
    SubSeq(history, skip + 1, Clamp(skip + PageSize, 0, Len(history)))

\* The page worker: load_commit_log_page at some instant after its launch.
PageRead ==
    /\ view.fetch.at = "reading"
    /\ \/ /\ view' = [view EXCEPT !.fetch.at = "ready",
                !.fetch.page = PageOf(disk.history, view.fetch.skip)]
          /\ UNCHANGED spent
       \/ /\ view' = [view EXCEPT !.fetch.at = "ready", !.fetch.ok = FALSE]
          /\ Spend("failures")
    /\ UNCHANGED <<script, disk, snapshots, readings, llvars>>

\* poll_commit_log_page_fetch.
PollPage ==
    /\ view.fetch.at = "ready"
    /\ LET s == [State EXCEPT !.v.fetch = NoFetch, !.v.stray = @ \/ view.mode # "Log"]
       IN Becomes(IF view.fetch.kind = "tail" THEN ApplyTail(s, view.fetch)
                  ELSE ApplyRefresh(s, view.fetch))
    /\ UNCHANGED <<script, spent, disk, snapshots, readings, inHand, replies, closed>>

GVInit ==
    /\ script \in Scripts
    /\ spent = [what \in DOMAIN script.max |-> 0]
    /\ disk = [mtime |-> script.mtime, history |-> script.history]
    /\ snapshots = NoSnapshot
    /\ view = [mode |-> "Status", gen |-> 0, intent |-> [l \in Lanes |-> NoIntent],
               files |-> <<>>, selected |-> 0, hot |-> [p \in Paths |-> 0],
               seen |-> <<0, 0>>, followed |-> 0, restoring |-> script.restoring,
               unread |-> FALSE, failed |-> FALSE, stray |-> FALSE,
               hits |-> [files |-> Paths, commits |-> Oids, drill |-> Paths],
               pane |-> "Diff", hunks |-> EmptyPane, fileView |-> NoTarget,
               commits |-> <<>>, logAt |-> 0, lastHead |-> 0, full |-> FALSE,
               pending |-> FALSE, fetch |-> NoFetch, searching |-> FALSE,
               drill |-> FALSE, drillFiles |-> <<>>, fileAt |-> 0, treeAt |-> 1]
    /\ readings = <<>>
    /\ LLInit

GVNext ==
    \/ Keys
    \/ \E p \in Paths : EditFile(p, spent["edits"] + Cardinality(Paths) + 1) \/ EditFile(p, 0)
    \/ MakeCommit \/ AmendCommit
    \/ DeliverSnapshot \/ PollSnapshot
    \/ Loader \/ PollLoads
    \/ PageRead \/ PollPage

----------------------------------------------------------------------------
(* Properties *)

\* The pane is about what the cursor is on: a diff is the diff of the selected
\* file, commit or file of a commit, as that is now, and an open file is the
\* selected one. A load that failed may leave the old diff, with a notice; a
\* list with nothing to select leaves none. Not so once a page of the log has
\* arrived when the user had gone back to the changed files: going back does
\* not cancel the fetch, and the page's commit diff supersedes the file's.
DiffRight ==
    \/ view.failed \/ view.stray
    \/ view.hunks = [target |-> CurrentDiff(State),
                     ver |-> IF view.mode = "Status" /\ StatusPath(State) # 0
                             THEN disk.mtime[StatusPath(State)] ELSE 0]
    \/ /\ view.hunks = EmptyPane
       /\ \/ view.mode = "Log" /\ ~view.drill /\ Shown(view.commits, view.hits.commits) = {}
          \/ view.mode = "Log" /\ view.drill /\ Shown(view.drillFiles, view.hits.drill) = {}

\* An open file is the selected one. Not so among the changed files: see
\* OpenFileAligned.
FileRight == view.pane = "File" /\ view.mode # "Status" => view.fileView = CurrentKey(State)

\* The log has followed the branch, unless a fetch failed.
LogRight ==
    view.mode = "Log" /\ spent["failures"] = 0 => At(view.commits, 1) = disk.history[1]

\* Nothing is under way, and another snapshot would ask for nothing.
Settled ==
    /\ \A l \in Lanes : asked[l] = 0
    /\ inHand = Nothing /\ replies = <<>>
    /\ view.fetch = NoFetch /\ ~view.unread
    /\ LET t == IngestSnapshot(State, SnapshotOf(disk), FALSE)
       IN t.asked = asked /\ t.v.fetch = NoFetch /\ t.v.hunks = view.hunks

\* Whatever was pressed while loads, pages and snapshots were under way, and
\* whatever changed meanwhile, the window does not come to rest wrong: replies
\* that were overtaken have changed nothing, and nothing the cursor needs is
\* left unasked (app/git/load_apply.rs, diff_load.rs, snapshot_io.rs,
\* commit_log_apply.rs).
RestsRight == Settled => DiffRight /\ FileRight /\ LogRight

\* diff_load.rs apply_diff_result, on a diff that replaces another in place:
\* "recompute so the open file pane stays aligned with the replaced diff". It
\* does not: a snapshot that arrives between a move and the reply replaces the
\* request that would have closed the file by one that keeps it.
OpenFileAligned ==
    Settled /\ view.mode = "Status" /\ view.pane = "File" /\ ~view.failed
        => view.fileView = view.hunks.target

\* Drill-down shows the files of the commit under the cursor.
DrillDownMatches ==
    view.drill => view.drillFiles = CommitFiles[SelectedCommit(State)]
=============================================================================
