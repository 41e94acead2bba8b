----------------------------- MODULE RepoStatus -----------------------------
(***************************************************************************)
(* How the status of a repository reaches the people looking at it.        *)
(*                                                                         *)
(* The snapshot worker (runtime/snapshot/worker.rs) sleeps until somebody  *)
(* looks, watches the working tree and, where the git directory lives      *)
(* elsewhere, that directory too, reads the status when an event matters,  *)
(* at most so often, and at the latest when the idle interval ends. The    *)
(* runtime's thread (session/runtime/mod.rs) publishes its newest reading  *)
(* to every subscriber. Whoever subscribes first reads the tree on its own *)
(* thread, and so does an on-demand refresh; nothing orders those readings *)
(* with the worker's.                                                      *)
(*                                                                         *)
(* A reading is what the tree said at one instant. Only the newest of the  *)
(* readings in the worker's channel is ever used, so the channel holds one.*)
(***************************************************************************)
EXTENDS Naturals, Sequences

CONSTANTS
    Clients,      \* connections that may subscribe
    Sites         \* the kinds of repository, machine and use to consider

VARIABLES
    site,       \* where the git directory is, whether ignored files were added
                \* by force, whether events are missed, which watches are
                \* refused, and the bounds: who connects, which edits are made and how many,
                \* how often people subscribe or refresh, whether they stop it
    tree,       \* what is on disk: [repo, src, index, ignoring, built]
    changes,    \* how often it changed
    joins,      \* how many subscriptions were opened
    awake,      \* SnapshotWatch's flag
    wakes,      \* the wakes queued for the worker
    worker,     \* the worker's place and what it carries
    channel,    \* the newest reading it delivered, or NoReading
    pump,       \* the runtime thread: the reading it is about to publish
    latest,     \* RepoRuntime::latest
    subs,       \* RepoRuntime::subscribers
    slot,       \* each subscriber's slot
    client,     \* each client: its place, a reading it holds, what it shows
    halted      \* RepoRuntime::stop was called

rsvars == <<site, tree, changes, joins, awake, wakes, worker, channel, pump,
            latest, subs, slot, client, halted>>

EmptyTree == [repo |-> TRUE, src |-> 0, index |-> 0, ignoring |-> TRUE, built |-> 0]

NoReading == [kind |-> "none", of |-> EmptyTree]
Unavailable == [kind |-> "unavailable", of |-> EmptyTree]
Gone == [kind |-> "gone", of |-> EmptyTree]

\* What a status says: nothing of an ignored directory, except files that
\* were added to it by force.
Status(t) ==
    IF ~t.repo THEN Unavailable
    ELSE [kind |-> "status",
          of |-> [t EXCEPT !.built = IF t.ignoring /\ ~site.forced THEN 0 ELSE @]]

----------------------------------------------------------------------------
(* Watching *)

Root == "tree"
GitDir == "git dir"
NoWatch == [tree |-> FALSE, tried |-> FALSE, git |-> FALSE, settled |-> FALSE]

\* install: the platform may refuse a directory.
Install(place) == place \notin site.refused

\* changed_paths: an open is not a change; an error names no path.
ChangedPaths(event) ==
    CASE event = "opened" -> <<>>
      [] event = "error" -> <<"unnamed">>
      [] OTHER -> <<event>>

\* The watch under which an event happens, if there is one.
Watched(place) ==
    IF place = GitDir /\ site.external THEN worker.watch.git ELSE worker.watch.tree

\* An event reported, overflowed into an unnamed one, or missed.
Reported(place, event) ==
    IF ~Watched(place) THEN {<<>>}
    ELSE {ChangedPaths(event)}
         \cup (IF site.lossy THEN {<<>>, ChangedPaths("error")} ELSE {})

----------------------------------------------------------------------------
(* The tree *)

Edit(t, place, event) ==
    /\ event \in site.edits
    /\ changes < site.changes
    /\ changes' = changes + 1
    /\ tree' = t
    /\ \E w \in Reported(place, event) : wakes' = wakes \o w
    /\ UNCHANGED <<site, joins, awake, worker, channel, pump, latest, subs,
                   slot, client, halted>>

EditSource == Edit([tree EXCEPT !.src = @ + 1], Root, "source")
EditBuilt == Edit([tree EXCEPT !.built = @ + 1], Root, "built")
EditRules == Edit([tree EXCEPT !.ignoring = ~@], Root, "rules")
GitAdd == Edit([tree EXCEPT !.index = @ + 1], GitDir, "index")
GitObjects == Edit(tree, GitDir, "objects")
InitOrRemove == Edit([tree EXCEPT !.repo = ~@], Root, "git")

Environment == EditSource \/ EditBuilt \/ EditRules \/ GitAdd \/ GitObjects \/ InitOrRemove

----------------------------------------------------------------------------
(* The worker *)

\* SnapshotWatch::set_awake.
SetAwake(on) == awake' = on /\ wakes' = Append(wakes, "unnamed")

\* git_metadata_matters.
GitMetadataMatters(event) == event # "objects"

\* IgnoredDirs: whether "built" is remembered as ignored; an event on the
\* rules forgets it.
KnownIgnored(event) == worker.ignored /\ event # "rules"

\* matters: without a handle everything counts; git is asked once per read
\* about the ignored directory.
Matters(event) ==
    CASE event \in {"git", "index", "objects"} -> GitMetadataMatters(event)
      [] event = "built" -> ~worker.repo \/ (~KnownIgnored(event) /\ ~tree.ignoring)
      [] OTHER -> TRUE

\* Whether asking about an event left "built" remembered as ignored.
Remembers(event) ==
    \/ KnownIgnored(event)
    \/ event = "built" /\ worker.repo /\ tree.ignoring

\* absorb: once a read is owed, no further question is asked.
Absorb(event) ==
    IF event = "unnamed" THEN [worker EXCEPT !.changed = TRUE, !.at = "drain"]
    ELSE [worker EXCEPT !.changed = @ \/ Matters(event), !.at = "drain",
                        !.ignored = IF worker.changed THEN @ ELSE Remembers(event)]

\* due: enough time since the last read. Ages: 0 never read, 1 just read,
\* 2 the minimum interval passed, 3 the idle interval passed.
Due == worker.age # 1

\* The top of the loop: the watch follows the flag, and a read starts when
\* one is owed and due.
LookAtFlag ==
    /\ worker.at = "top"
    /\ LET starts == awake /\ ~worker.watch.tried
           ends == ~awake /\ worker.watch.tried
           watch == IF starts THEN [NoWatch EXCEPT !.tree = Install(Root), !.tried = TRUE]
                    ELSE IF ends THEN NoWatch ELSE worker.watch
           owed == worker.changed \/ starts
       IN worker' = [worker EXCEPT
              !.awake = awake, !.watch = watch, !.changed = owed,
              !.watching = @ /\ ~ends, !.repo = @ /\ ~ends,
              !.at = IF awake /\ owed /\ Due THEN "read" ELSE "wait"]
    /\ UNCHANGED <<site, tree, changes, joins, awake, wakes, channel, pump,
                   latest, subs, slot, client, halted>>

\* read_once up to the delivery. Opening files is itself an event the watch
\* reports, and changed_paths drops.
ReadOnce ==
    /\ worker.at = "read"
    /\ worker' = [worker EXCEPT
           !.at = "deliver", !.reading = Status(tree), !.changed = FALSE, !.age = 1,
           !.repo = tree.repo,
           !.watching = IF ~worker.repo /\ ~tree.repo THEN worker.watch.tree ELSE @]
    /\ wakes' = wakes \o (IF worker.watch.tree THEN ChangedPaths("opened") ELSE <<>>)
    /\ UNCHANGED <<site, tree, changes, joins, awake, channel, pump, latest,
                   subs, slot, client, halted>>

\* deliver: the flag is looked at again after the walk. The ignored
\* directories are forgotten; a receiver that is gone ends the worker.
Deliver ==
    /\ worker.at = "deliver"
    /\ channel' = IF awake /\ pump # Gone THEN worker.reading ELSE channel
    /\ worker' = [worker EXCEPT !.ignored = FALSE,
                                !.at = IF awake /\ pump = Gone THEN "gone" ELSE "follow"]
    /\ UNCHANGED <<site, tree, changes, joins, awake, wakes, pump, latest,
                   subs, slot, client, halted>>

\* Mutant: what changed before the second watch existed is not read again.
ForgetsTheGap ==
    /\ worker.at = "follow"
    /\ worker' = [worker EXCEPT
              !.at = "wait", !.watch.git = worker.repo /\ site.external /\ Install(GitDir),
              !.watch.settled = worker.repo,
              !.watching = worker.watch.tree /\ (site.external => Install(GitDir))]
    /\ UNCHANGED <<site, tree, changes, joins, awake, wakes, channel, pump,
                   latest, subs, slot, client, halted>>
\* follow_git_dir: the second watch, once per watching. The reading just
\* taken is older than that watch, so another is owed.
FollowGitDir ==
    /\ worker.at = "follow"
    /\ LET settles == worker.repo /\ ~worker.watch.settled
           watched == site.external /\ Install(GitDir)
       IN worker' =
            IF settles
            THEN [worker EXCEPT
                     !.at = "wait", !.watch.settled = TRUE, !.watch.git = watched,
                     !.changed = @ \/ watched,
                     !.watching = worker.watch.tree /\ (site.external => watched)]
            ELSE [worker EXCEPT !.at = "wait"]
    /\ UNCHANGED <<site, tree, changes, joins, awake, wakes, channel, pump,
                   latest, subs, slot, client, halted>>

\* wait: how old the last read has to be for the wait to end by itself.
WaitFor ==
    CASE ~worker.awake -> 0
      [] worker.age = 0 -> 0
      [] worker.awake /\ worker.age > 0 /\ ~worker.changed /\ worker.watching -> 3
      [] OTHER -> 2

\* How old the last read may be when a wake ends the wait before that.
AgesBy == IF worker.at = "wait" /\ worker.age > 0
          THEN worker.age .. (IF worker.awake THEN WaitFor ELSE 3)
          ELSE {worker.age}

\* A wake ends the wait, and the backlog is taken with it; a stop ends the
\* worker.
TakeWake ==
    /\ worker.at \in {"wait", "drain"}
    /\ wakes # <<>>
    /\ wakes' = Tail(wakes)
    /\ \E age \in AgesBy \cup {worker.age} :
         worker' = [(IF Head(wakes) = "stop" THEN [worker EXCEPT !.at = "gone"]
                     ELSE Absorb(Head(wakes))) EXCEPT !.age = age]
    /\ UNCHANGED <<site, tree, changes, joins, awake, channel, pump, latest,
                   subs, slot, client, halted>>

BacklogTaken ==
    /\ worker.at = "drain"
    /\ wakes = <<>>
    /\ worker' = [worker EXCEPT !.at = "top"]
    /\ UNCHANGED <<site, tree, changes, joins, awake, wakes, channel, pump,
                   latest, subs, slot, client, halted>>

\* The wait ends by itself: a read is owed.
WaitEnds ==
    /\ worker.at = "wait"
    /\ wakes = <<>>
    /\ worker' = [worker EXCEPT !.at = "top", !.changed = TRUE,
                                !.age = IF @ < WaitFor THEN WaitFor ELSE @]
    /\ UNCHANGED <<site, tree, changes, joins, awake, wakes, channel, pump,
                   latest, subs, slot, client, halted>>

WorkerStep ==
    LookAtFlag \/ ReadOnce \/ Deliver \/ FollowGitDir \/ TakeWake \/ BacklogTaken \/ WaitEnds

----------------------------------------------------------------------------
(* The runtime *)

\* publish_update: under one hold of the locks, to everybody, unless it is
\* what was said last.
PublishUpdate(reading) ==
    IF latest = reading THEN UNCHANGED <<latest, slot>>
    ELSE /\ latest' = reading
         /\ slot' = [c \in Clients |-> IF c \in subs THEN reading ELSE slot[c]]

\* The thread drains the channel, keeps the newest reading and publishes it.
PumpTakes ==
    /\ ~halted
    /\ pump = NoReading
    /\ channel # NoReading
    /\ pump' = channel
    /\ channel' = NoReading
    /\ UNCHANGED <<site, tree, changes, joins, awake, wakes, worker, latest,
                   subs, slot, client, halted>>

PumpPublishes ==
    /\ pump \notin {NoReading, Gone}
    /\ PublishUpdate(pump)
    /\ pump' = NoReading
    /\ UNCHANGED <<site, tree, changes, joins, awake, wakes, worker, channel,
                   subs, client, halted>>

\* Mutant: the channel is dropped without a word to the worker.
DropsWithoutStop ==
    /\ halted
    /\ pump = NoReading
    /\ pump' = Gone
    /\ UNCHANGED <<site, tree, changes, joins, awake, wakes, worker, channel,
                   latest, subs, slot, client, halted>>
\* Told to stop, it drops the channel, whose drop stops the worker.
PumpEnds ==
    /\ halted
    /\ pump = NoReading
    /\ pump' = Gone
    /\ wakes' = Append(wakes, "stop")
    /\ UNCHANGED <<site, tree, changes, joins, awake, worker, channel, latest,
                   subs, slot, client, halted>>

StopRuntime ==
    /\ site.stops
    /\ ~halted
    /\ halted' = TRUE
    /\ UNCHANGED <<site, tree, changes, joins, awake, wakes, worker, channel,
                   pump, latest, subs, slot, client>>

\* subscribe: joining the list and waking the watch are one step.
Subscribe(c) ==
    /\ c \in site.clients
    /\ client[c].at = "away"
    /\ joins < site.joins
    /\ joins' = joins + 1
    /\ subs' = subs \cup {c}
    /\ client' = [client EXCEPT ![c].at = IF subs = {} THEN "read" ELSE "seed"]
    /\ IF subs = {} THEN SetAwake(TRUE) ELSE UNCHANGED <<awake, wakes>>
    /\ UNCHANGED <<site, tree, changes, worker, channel, pump, latest, slot, halted>>

\* read_and_publish, for the first subscriber and for a refresh.
ReadNow(c) ==
    /\ client[c].at \in {"read", "refresh"}
    /\ client' = [client EXCEPT ![c].held = Status(tree),
                                ![c].at = IF @ = "read" THEN "publish" ELSE "republish"]
    /\ UNCHANGED <<site, tree, changes, joins, awake, wakes, worker, channel,
                   pump, latest, subs, slot, halted>>

PublishNow(c) ==
    /\ client[c].at \in {"publish", "republish"}
    /\ PublishUpdate(client[c].held)
    /\ client' = [client EXCEPT ![c].held = NoReading,
                                ![c].at = IF @ = "publish" THEN "seed" ELSE "away"]
    /\ UNCHANGED <<site, tree, changes, joins, awake, wakes, worker, channel,
                   pump, subs, halted>>

\* refresh_now, asked for while nobody watches.
RefreshNow(c) ==
    /\ c \in site.clients
    /\ client[c].at = "away"
    /\ subs = {}
    /\ joins < site.joins
    /\ joins' = joins + 1
    /\ client' = [client EXCEPT ![c].at = "refresh"]
    /\ UNCHANGED <<site, tree, changes, awake, wakes, worker, channel, pump,
                   latest, subs, slot, halted>>

\* The seed: latest is read first, the slot is filled after, if it is empty.
ReadSeed(c) ==
    /\ client[c].at = "seed"
    /\ client' = [client EXCEPT ![c].held = latest, ![c].at = "fill"]
    /\ UNCHANGED <<site, tree, changes, joins, awake, wakes, worker, channel,
                   pump, latest, subs, slot, halted>>

FillSlot(c) ==
    /\ client[c].at = "fill"
    /\ slot' = [slot EXCEPT ![c] = IF @ = NoReading THEN client[c].held ELSE @]
    /\ client' = [client EXCEPT ![c].held = NoReading, ![c].at = "in"]
    /\ UNCHANGED <<site, tree, changes, joins, awake, wakes, worker, channel,
                   pump, latest, subs, halted>>

\* next_update: the newest pending update is shown.
NextUpdate(c) ==
    /\ client[c].at = "in"
    /\ slot[c] # NoReading
    /\ client' = [client EXCEPT ![c].shown = slot[c]]
    /\ slot' = [slot EXCEPT ![c] = NoReading]
    /\ UNCHANGED <<site, tree, changes, joins, awake, wakes, worker, channel,
                   pump, latest, subs, halted>>

\* Mutant: the watch is put to sleep whoever is left.
SleepsRegardless(c) ==
    /\ client[c].at = "in"
    /\ subs' = subs \ {c}
    /\ SetAwake(FALSE)
    /\ client' = [client EXCEPT ![c].at = "away", ![c].shown = NoReading]
    /\ slot' = [slot EXCEPT ![c] = NoReading]
    /\ UNCHANGED <<site, tree, changes, joins, worker, channel, pump, latest, halted>>
\* Subscription::drop, unsubscribe: the last one out puts the watch to sleep.
Unsubscribe(c) ==
    /\ client[c].at = "in"
    /\ subs' = subs \ {c}
    /\ IF subs' = {} THEN SetAwake(FALSE) ELSE UNCHANGED <<awake, wakes>>
    /\ client' = [client EXCEPT ![c].at = "away", ![c].shown = NoReading]
    /\ slot' = [slot EXCEPT ![c] = NoReading]
    /\ UNCHANGED <<site, tree, changes, joins, worker, channel, pump, latest, halted>>

----------------------------------------------------------------------------
RSInit ==
    /\ site \in Sites
    /\ tree = EmptyTree
    /\ changes = 0 /\ joins = 0
    /\ awake = FALSE /\ wakes = <<>>
    /\ worker = [at |-> "top", awake |-> FALSE, watch |-> NoWatch, changed |-> TRUE,
                 age |-> 0, repo |-> FALSE, watching |-> FALSE, ignored |-> FALSE,
                 reading |-> NoReading]
    /\ channel = NoReading /\ pump = NoReading /\ latest = NoReading
    /\ subs = {}
    /\ slot = [c \in Clients |-> NoReading]
    /\ client = [c \in Clients |-> [at |-> "away", held |-> NoReading, shown |-> NoReading]]
    /\ halted = FALSE

PumpStep == PumpTakes \/ PumpPublishes \/ PumpEnds

ClientStep(c) ==
    ReadNow(c) \/ PublishNow(c) \/ ReadSeed(c) \/ FillSlot(c) \/ NextUpdate(c)

RSNext ==
    \/ Environment
    \/ WorkerStep
    \/ PumpStep
    \/ StopRuntime
    \/ \E c \in Clients :
         Subscribe(c) \/ ClientStep(c) \/ RefreshNow(c) \/ Unsubscribe(c)

RSSpec == RSInit /\ [][RSNext]_rsvars

----------------------------------------------------------------------------
(* Properties *)

\* Whoever stays subscribed ends up seeing what the tree says: a reading that
\* was overtaken, an event that was missed or wrongly ignored, a refused watch
\* or a subscription racing the last one's end are all made good; and a runtime
\* told to stop ends its worker
\* (session/runtime/mod.rs subscribe, unsubscribe; runtime/snapshot/worker.rs).
StatusSettles ==
    /\ <>[](halted \/ \A c \in Clients :
               client[c].at = "in" => slot[c] \in {NoReading, Status(tree)}
                                      /\ (slot[c] = NoReading => client[c].shown = Status(tree)))
    /\ halted ~> worker.at = "gone"

\* Every place a change can come from is watched.
FullyWatched == worker.watch.tree /\ (site.external => worker.watch.git)

\* With both watches up and no event missed, a worker that sleeps without
\* owing a read has read the tree as it is: nothing changed in the gap between
\* its last reading and the watch that would have told it, and no rule it
\* remembered hid a change (worker.rs follow_git_dir, filter.rs IgnoredDirs).
NothingUnread ==
    worker.at = "wait" /\ worker.awake /\ FullyWatched /\ ~site.lossy /\ ~site.forced
        /\ wakes = <<>> /\ ~worker.changed /\ worker.repo
      => worker.reading = Status(tree)
=============================================================================
