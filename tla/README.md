# nightcrow: a TLA+ model

nightcrow is a terminal workspace for people and coding agents. One *session*,
usually a daemon, holds a set of repositories; each has a *terminal hub* whose
PTYs are shown, at the same time, to browser pages and to attached terminal
applications, a worker that watches its tree, and loaders that read it with git.
Plugins watch the terminals, may type into them or start a dead one again, and
give the agents in them a shared memory. This directory models the program where
threads, processes, clients, plugins, files and clocks meet.

The modules are translated from the Rust sources under `src/src/` and
`src/plugins/`, and from the two TypeScript files of
`src/viewer-ui/src/hooks/terminal/` that fold the hub's frames into a page.
`PROJECT.json` maps every definition to its lines, lists every part of the
system, also the ones left out, and the hazards the properties are for.

## 1. The system

| Part | State | Operations | Meets |
|---|---|---|---|
| Size ownership (`session/size_owner*.rs`) | connections per viewer, arrival and activity lists, owner, generation, release grace | join, leave, claim, settle | every hub of a session, through one mutex |
| Resize queue (`hub_layout.rs`) | the latest size asked per pane and connection, stamped with the generation | queue, take, discard, apply | size ownership, hub state: three mutexes in turn |
| Hub broadcast and replay (`hub_connect.rs`, `hub_panes.rs`, `hub_zoom.rs`) | panes in order, zoom, a bounded queue per client | connect, disconnect, register, record, remove, zoom, reorder, close, stop | clients by frames, the worker by the state mutex |
| Startup terminals (`startup*.rs`) | `started`, `reserved`, the command queue | offer, claim, submit, open | clients, the worker, the pane cap |
| Pane record (`hub_output.rs`, `hub_modes.rs`, `hub_replay*.rs`, `runtime/emulator/`) | byte ring and snapshot of the normal screen, snapshot and tail of the alternate one | record, settle, resize, replay | the worker's emulator, the clients' emulators |
| Plugins in the hub (`hub_plugins*.rs`, `hub_relaunch.rs`, `hub_reload*.rs`, `plugin/guard*.rs`) | owners, holds, slots and tokens, generations, budgets, running hosts | open, exit, hold, judge, relaunch, report, cancel, reload | people, processes, plugin children, the clock |
| Hub worker and pane threads (`hub_run.rs`, `hub_deadline.rs`, `backend/pty*.rs`) | wake signal, deadlines, drain windows, event channel, input queue | a pass: closes, commands, drain, plugins, park; read, wait, write, drop | every producer, through queue-then-signal |
| Browser socket (`web/viewer/server/handlers/terminal*.rs`) | one bounded channel, a write buffer, two silences | read, frame, write, ping, end | the hub's client record, the page, the system's socket |
| Session catalog and operations (`session/catalog`, `operations.rs`, `reload.rs`, `prefs`) | four lists of paths, live entries, the tab in front, config tables, the workspace file | open, close, focus, reorder, reload | every client, at once |
| Attached clients (`daemon/clients.rs`, `watch.rs`, `terminals.rs`, `serve*`, `application/session_link.rs`) | registry, queues, what each is owed, bridges, the client's tabs | attach, change, broadcast, bridge, adopt, leave | the catalog by polling, the hubs by bridges |
| Terminal router (`daemon/terminal_link*`) | inboxes and two counters | file, coalesce, drain, forget | the reader thread, every backend's tick |
| Daemon lifecycle (`cli/attach.rs`, `stop.rs`, `daemon.rs`, `daemon/lock.rs`, `socket.rs`, `serve/admission.rs`) | port, lock, socket file, places for connections | start, attach, upgrade, stop, be killed | other daemons and commands |
| Snapshot worker and subscribers (`session/runtime`, `runtime/snapshot*`) | watches, a reading, awake, conflated slots | subscribe, refresh, watch, absorb, read, publish, stop | the file system |
| Git loaders (`git/diff/load_worker*`) | a place per lane, tickets, permits | submit, cancel, take, admit, read, reply, drop | other projects' loaders |
| Project windows (`app/git`, `app/navigation`, `ui/tree_view`, `runtime/terminal`) | selection, search, modes, log pages, tree cache and watches, pane window | a key, a snapshot, a reply, an event, a tick | loaders, snapshot worker, hub |
| Frame loop and input (`application`, `input`) | what was drawn, geometry, dialogs, prefix, held buttons | turn, draw or skip, dispatch a key, a paste, a press | all of the above |
| Clone jobs (`session/clone.rs`, `workspace/clone_dialog.rs`) | one slot, remembered jobs, dialogs | start, finish, look up, poll, open | attached clients |
| Login tokens (`web/common/sessions*.rs`) | tokens in memory and in a file | issue, check, revoke, write, load | request threads, restarts |
| Recovery plugin (`plugins/nightcrow-recovery`) | what it is waiting for, on two clocks | hit a limit, wait, resume, confirm, give up | the hub, the provider's records, the clock |
| Memory plugin (`plugins/nightcrow-memory`) | one SQLite file: notes, index, board | open, migrate, write, delete, post, read | a helper process per agent |

A hub is one worker thread and any number of connection threads. A connection
thread takes one of the hub's mutexes for a single critical section, or queues a
command and signals the worker. The worker alone owns the PTY backend, the
emulators and the plugin state; each pass it takes closes and commands, drains
the panes' channels, lets the plugins act, and parks until somebody signals or a
deadline it computed comes due. A pane has a reader and a waiter that feed the
worker's channel, and a writer that empties its input queue. Clients learn of
everything by frames broadcast into bounded queues; one that falls behind is
evicted, reconnects and is replayed. Beside the hubs, the catalog is changed by
any client; a watcher thread compares it with what it last told and broadcasts
the whole set; attached clients adopt what they are told and forward terminal
frames through one router.

What is hard here:

* operations are several critical sections: an attach, a departure, a claim, a
  close of a repository, a login and its write to disk;
* a check and its use are separated by an unlock, an await or a process
  boundary: the free slot, the owner's generation, the tab in front, the socket
  file, the count of notes;
* answers are late: replies of superseded loads, readings overtaken by newer
  ones, restored focus, a poll for a job that was evicted;
* wake signals coalesce and waits have no timeout of their own, so work nobody
  signals and no deadline covers is work nobody does;
* threads join each other while they wait on each other's channels;
* a record of a screen is cut by reads, not by escape sequences;
* identities change under what refers to them: a pane when it is relaunched, a
  hub when its repository is opened again, a file when it is amended;
* two clocks, of which people may set one.

## 2. Modules

    SizeOwner <-- ResizeQueue            TerminalHub    PaneRecord    HubPlugins
    StartupClaim                         TermSocket     TermRouter
    HubWorker --+                        SessionCatalog Attached      CloneJobs
                +--> PaneThreads         LoginTokens    DaemonLife
    InputQueue -+                        Recovery       MemoryStore   RepoStatus
    LoadLanes <-- GitViews               TreeNav        FrameLoop     KeyRouter
    LoadLanes <== GitLoads               TerminalState <-- PaneView

`X <-- Y` means that Y extends X and composes its actions, `X <== Y` that Y is
shown to implement X. Section 5 says which `*Proofs` module proves about which.

| Module | One action is | Abstractions |
|---|---|---|
| `SizeOwner` | one critical section of the ownership mutex, the expiry each begins with included | a verdict is the last one a connection was told, or `missed` when its queue was full; the clock is a count of ticks |
| `ResizeQueue` | one critical section of `ownership`, `state` or `pending_resizes` | a size is a member of a set; `moves` is a history variable that counts changes of owner |
| `TerminalHub` | one critical section of `Shared`, or one frame folded by a page | a pane's output is the number of chunks shown |
| `StartupClaim` | one critical section or atomic of `claim_startup`, `connect`, or the worker | the sizes in an answer are left out; a batch is its number of terminals |
| `PaneRecord` | one chunk through `record_pane_output`, or one pass of the settling | a screen is the list of chunks painted on it; a sequence's tail read alone is `Garbage` |
| `HubPlugins` | one handler of the worker | a plugin may ask anything at any moment; time is what is left of each wait |
| `HubWorker` | one phase of a pass; one queueing or one signalling of a producer | one pane and one plugin stand for all; the cap on a wait is left out, so that a lost signal shows |
| `InputQueue`, `PaneThreads` | one critical section of the queue's mutex, or one write; the two halves joined where input is taken and a pane dropped | a message is its size |
| `TermSocket` | one step of the reader, the framer or the writer; a page reading, sleeping, leaving | frames are numbers; the write buffer is the library's, the wire the system's |
| `TermRouter` | `deliver`, `drain`, `retain` under the router's mutex | bytes are numbered |
| `SessionCatalog` | one critical section of an operation (`add`, `remove_path`, `set_active_repo_if`, a step of `reload`) | a repository is its path; the watch of the config file is not |
| `Attached` | one step of the watcher, of a connection's thread, of the client's reader or of its workspace | an operation on the session is one step; output is the replay of a hub |
| `CloneJobs` | a request handled, an answer applied, a poll, a worker's end | a destination is the job that made it |
| `LoginTokens` | the change under the list's lock; the write under the other; a restart | a token is a number |
| `DaemonLife` | one system call of a daemon or a command; a kill | contents of messages are left out |
| `Recovery` | a turn of the plugin's loop; a report of the host; a record of the provider; a tick of either clock | a session is the pane's own or another's |
| `MemoryStore` | one statement of a transaction, its begin and its end; a kill | text and tags are whether they pass the checks; locks, rollback and ids are SQLite's |
| `RepoStatus` | one step of the worker, the pump or a client; an edit of the tree | a status is the set of paths that differ |
| `LoadLanes` | what a project relies on when it asks for something to be read: abstract | |
| `GitLoads` | one critical section of the queue or the limiter; a read that returns | what is read is left out |
| `GitViews` | one handler on `&mut App`: a key, a snapshot, a reply, a page of the log | a diff is its target and its file's mtime |
| `TreeNav` | a key, a tick, an event, an edit of the disk | a listing is a set of children |
| `TerminalState`, `PaneView` | a key, a session event applied, a frame laid out; the hub across two queues | a size is how many panes share the area |
| `FrameLoop` | a turn of the loop: drain, observe, draw or skip | what is drawn is the record of what redraw must notice |
| `KeyRouter` | one input through `handle_key`, `handle_paste` or `handle_mouse` with everything it dispatches to | encodings are left out |

Points where the correspondence deserves a word:

* `connect` is `ConnectSnapshot` then `ConnectOpen`; `disconnect` is `Unlist`,
  `LeaveOwnership`, `DiscardPendingResizes`; `claim_startup` is `ClaimFlag`,
  `ReserveSlots`, `SubmitBatch` and, refused, `ReleaseClaim`, `HandBack`,
  `BroadcastPending`, each in the code's order.
* In `HubWorker` every producer is two actions, queue then signal, and the
  worker's test of its queues and its wait are separate as well.
* `PtyPane::drop` is `DestroyPane` in `HubWorker` and `Close` in `InputQueue`;
  `PaneThreads` makes them one step.
* `close_repo` is one read of the preference, the successor computed from it,
  the removal, and the write of the focus only if the preference is still what
  was read (`SetActiveRepoIf`): four steps another caller may come between.
* `GitViews` extends `LoadLanes`, the abstract loader; `GitLoads` is the concrete
  one, and `Promise` in `GitLoads` is the refinement mapping for one project
  among several.
* `Link::drop` in `TermSocket` is stop, release of the hub's record, shutdown of
  the socket, drop of the receiver, and only then the joins.
* In `MemoryStore` a call reads the clock before it opens the store or waits for
  a transaction, as `call_tool` does.
* `FrameLoop` reads the clock once per turn; the code reads it again while
  drawing.

## 3. Runs

The parts that do not share state are checked side by side in one state space:
`MCTerminalHub`, `MCTerminals`, `MCBackground`, `MCWindows` and `MCSession` have
a variable `topic` that says which part a behaviour is about while the others
keep still. It adds no interleaving and removes none: each part has its own
specification, and those that interact are composed in modules of their own
(`ResizeQueue`, `PaneThreads`, `GitViews`, `PaneView`, `Attached`).

| Run | Instance | What it shows |
|---|---|---|
| `sizing` | 2 viewers, 3 connections, grace of 1 tick, 3 generations, 1 pane of 2 sizes | presence records agree; the sizing is owned while somebody is connected; verdicts stay current; a departed connection queues nothing; arriving is passive; a PTY is resized only under the tenure its resize was queued in; the sizing reaches somebody who is there |
| `terminal_hub` | 1 page that connects up to twice, 2 panes, 2 changes of layout, a queue of 4 frames; a socket with queues of 1, a wire of 1, batches of 2 and 4 frames; a router of 2 inboxes, 4 bytes and 3 messages | `PagesConverge`: a page that stays listed converges on the hub's panes, order, output and zoom, within its queue; `NewPaneNotHidden`; `SocketExact`: every frame once and in order through stalls and partial writes, at most one batch held for a page that stopped reading, no reading page taken for silent; `RouterExact` |
| `terminals` | 2 clients, cap 2, 2 configured terminals, a command queue of 1; every stream of 4 chunks over a ring of 1; the same socket with 2 frames | the cap holds, `reserved` is what the claim under way holds, one batch, the terminals come up; `RecordRight`: an attaching client rebuilds the screen, records stay bounded; `TailSettles`; `SocketEnds` |
| `hub_plugins` | 2 plugins, 3 pane ids, one relaunch and one send per window | `PluginsRight`: holds are watched, reports answerable, slots do not leak, relaunches stay bounded, a plugin knows the panes it was given; `HoldsEnd` |
| `pane_threads` | a channel of 2, a drain budget of 1, 3 bytes or 2 messages of input, four workloads | no wake-up is lost; an exit is reported only after what was queued before it; `CountersExact`; input stays in order |
| `pane_threads_live` | the smallest queues, four shorter workloads | `PaneSettles`: queued work is taken, a dead child is reported, the threads of a dropped pane end |
| `background` | 2 subscribers over six sites (racing subscriptions, missed events, changing rules, a git directory elsewhere, a refused watch, a stop); 3 projects of 2 repositories, 1 permit, 2 lanes, a refused thread start or a second request | `StatusSettles`: whoever stays sees the tree as it is; `NothingUnread`: with both watches up nothing changes unread; `LoadsImplementLanes`: each project gets what `LoadLanes` promises |
| `windows` | five scripts of 2-3 keys over 2 files and up to 4 commits; a tree of 4 paths; 3 panes of which 1 or 2 are visible; 2 projects and 3-4 events; six scripts of 2-4 inputs | `RestsRight`, `TreeCurrent`, `ScreenAgrees`, `FrameCurrent`, `KeysRight` |
| `session` | 2 callers over 4 paths of at most 3; 2 clients with queues of 3; 2 dialogs; 2 request threads and a restart; 2 commands, 3 daemons and a kill; two providers with up to 3 events; 2 helpers | `CatalogRight`, `ClientsConverge`, `CloneRight`, `TokensRight`, `DaemonRight`, `RecoveryRight`, `MemoryRight` |
| `pane_record_leave`, `hub_plugins_handover`, `esc_search` | the smallest instance that shows it | violations, see section 6 |

What the properties that only have a name above say:

* `RestsRight`: when nothing is under way and another snapshot would ask for
  nothing, the pane beside the list shows the diff or file under the cursor as it
  is now, and the log has followed the branch.
* `TreeCurrent`: with every event acted on, each listing shown is what the
  directory holds, the cursor is on a row and the preview is that row's.
* `ScreenAgrees`: what the keyboard drives is on screen, and at rest the screen's
  panes, order, sizes and ownership are the session's.
* `FrameCurrent`: after every turn the screen is what a frame drawn now would
  show, although most turns draw none.
* `KeysRight`: a press is matched by its release at the program that saw it, at
  most one follow-up waits, and nothing is typed through an overlay.
* `RouterExact`: the counters are what is queued and every backend gets what was
  filed for it, whole and in order.
* `CatalogRight`: the four lists show one strip of tabs; the tab people put in
  front stays there whoever closes and reorders; a reload reaches every hub.
* `ClientsConverge`: at rest every attached client shows the session's tabs, in
  its order, with its front and colour, and a bridge from the hub that runs each.
* `CloneRight`: the slot is taken exactly while a clone runs, and no dialog waits
  for an answer nobody owes it.
* `TokensRight`: a token that was revoked, expired or evicted does not return with
  a restart, and no restart lengthens a life.
* `DaemonRight`: the socket file and the lock belong to the daemon that serves, a
  successful stop means the session asked has ended, both caps hold.
* `RecoveryRight`: a relaunch is asked for only of a process that is gone, never
  before the least wait on a clock nobody can set, within the budget, and a wait
  is not stretched.
* `MemoryRight`: a saved note stays until that very note is deleted, a post until
  it expires or its author posts again; the limit, the index and one line per
  author hold.

### Why the bounds are enough

Every limit of the code is a constant made small enough to be reached: queues
of one or two entries fill and refuse, a cap of two terminals is contested by a
batch of two and by creates, a ring of one chunk evicts on the second, a budget
of one is spent at once, a third repository meets a cap of three, one permit is
contested by three loaders. Three connections are the fewest with which the
owner of two can hand the sizing away and take it back while a third joins;
three generations are that round. Three pane ids are the fewest in which one
terminal is opened, relaunched and relaunched again beside another. Four frames
fill a wire of one, a batch of two and one place beyond. Two callers or commands
suffice for every pair of operations to meet, since each property is about what
one may do to the other. Where the product of all inputs is too large, a set of
scripts (`SCScripts`, `MCScripts`, `KRScripts`, `Sites`, `Loads`, ...) names the
inputs that may meet in one behaviour and how many; between them every action
fires.

Deadlock is checked where the system cannot stop by itself (`hub_plugins`). The
other instances end when their bounds are used up.

## 4. Fairness

Fairness is stated only for what the program does without being asked; where a
run has several parts it stands in the `MC` module, guarded by the topic.

* *A thread that can run does*: the hub worker's pass, a producer between its
  queueing and its signal, reader, waiter and writer of a pane, a connection's
  thread inside `connect` or `claim_startup`; the snapshot worker, the pump of
  its readings and a subscriber that has begun to join or leave; every loader
  thread, whose git call returns; the three threads of a socket.
* *The clock advances*, a parked worker whose deadline is due wakes, a retry
  delay ends, and a project's tick fetches replies.
* *A page answers an offer it holds*: the effect of `useStartupSizes` runs again
  at every layout and sends `start`. It waits only for a page that has not been
  laid out, so `StartupHappens` is about pages that are on a screen; a client
  that leaves instead is excused by the property itself.
* *A terminal's end is seen*: a read of a terminal nobody has open returns end of
  file, and a write to it returns. While a program has it open neither is assumed.
* *The system gives up on a peer that never acknowledges* (`SystemGivesUp`):
  TCP's own limit, on which the socket of a vanished page with data on its way
  depends. Nothing is assumed of a page that merely sleeps.
* In `PaneRecord` passes keep coming, and a snapshot that is due again and again
  at a closed boundary is taken (strong fairness: `settle_restless` looks at
  every pane in every pass).
* In `SizeOwner`, `settle` runs when its deadline is due.

Nothing is assumed of people, of programs, or of what a plugin sends.

## 5. Proofs

All theorems are for every value of the constants that satisfies the named
assumptions, and for any set of clients, panes, pages, commands or helpers; the
bounds that TLC needs remain in the modules as unspecified constants. Every
inductive invariant below was first checked by TLC on the instance of its run.

| Module | Extends | Proves |
|---|---|---|
| `SizeOwnerProofs` | `SizeOwner`, `ResizeQueue` | `PresenceConsistent`, `OwnerAccounted`, `VerdictCurrent`, `ArrivalIsPassive`, `NoResizeAfterPurge`, `ResizeUnderOneTenure` |
| `TerminalProofs` | `StartupClaim`, `TermRouter`, `TermSocket` | `CapHolds`, `ReservedAccounted`, `BatchUnique`, `RouterExact`, `SocketExact` |
| `PaneThreadsProofs` | `InputQueue`, `HubWorker`, `PaneThreads` | `NoLostWakeup`, `InOrder`, `CountersExact`; that `PaneThreads` implements both halves |
| `HubProofs` | `TerminalHub` | `PagesConverge`, `NewPaneNotHidden` |
| `HubPluginsProofs` | `HubPlugins` | `PluginsRight` |
| `ProjectProofs` | `RepoStatus`, `GitLoads`, `FrameLoop` | `NothingUnread`, the safety half of `LoadsImplementLanes`, `FrameCurrent` |
| `SessionProofs` | `CloneJobs`, `LoginTokens`, `DaemonLife`, `SessionCatalog` | `CloneRight`, `TokensRight`, `DaemonRight`, `CatalogRight` |
| `PluginProofs` | `MemoryStore`, `Recovery` | `MemoryRight`, `RecoveryRight` |

**Sizing.** The invariant `IInv` adds to the type and to the two properties
that no connection beyond `next_connection` is registered (`Fresh`): without it
a join could count a connection twice. The work is in the lists: `Retain` drops
one viewer and repeats nothing, and a registered connection more or fewer
changes a cardinality by one. `VerdictCurrent` follows connection by connection
(`Fits`). For the queued resizes, `RInv` says that the generation counts the
moves of the owner (`Counted`), that a queued resize carries the generation of
the moves it was queued in (`Stamped`), and that a connection past
`LeaveOwnership` is not registered with the ownership (`LeftUnregistered`).
`queue_resize` checks ownership under the queue's lock, so a departed
connection fails it; that is why the purge must come last.

**Startup terminals.** The cap holds although the check and the registration are
two critical sections, because only the worker opens panes: `CapInv` carries
`live < MaxPtys` from one to the other. The claim is in one place at a time, a
connection's thread, the queue or the worker (`ClaimInv`), and `reserved` equals
what that place holds (`ReservedInv`).

**The router.** What is queued is an inbox per repository, and what an inbox says
is a list per message, flattened; coalescing makes one message of two that say
the same. So the lemmas are about flattened lists: a list within a list of lists
is exchanged for another (`FlatAround`), which moves both totals by the
difference (`TotalsMove`); a message joins the last one of its pane
(`JoinsLast`); what a drain takes and what it leaves say what the inbox said
(`DrainLengthIn`); an inbox that is forgotten takes its own share away and no
other's (`KeptAndGone`). They rest on one induction over lists (`ListInduction`).
`RouterExact` is then inductive with the type alone.

**A terminal socket.** `SocketInv` follows two streams through five places each.
`FramesKept`: what the page was shown, the wire, the library's buffer, the
channel, the frame thread's hands and the hub's queue, end to end, are the
numbers up to what the hub sent; every step only moves the boundary between two
neighbours, and pings in between do not count. `WordsKept` is the same for the
page's messages as long as the channel has a receiver. `BatchKept` adds to the
bound that what is buffered was queued since a flush that went through, that a
draining writer has room for one frame more, and that nothing is queued after a
flush that did not. `AwakeKept` is why a page that reads is not taken for silent:
it was heard as lately as it was asked, or a ping, a pong or a message is on its
way (`Asked`), and while one is, no tick passes for a page that reads. The
assumption is `SocketAssumption`: the page is asked before it is given up, and a
batch holds more than the frame that woke the writer.

**A pane's threads.** For the input queue the invariant relates both counters,
the messages and the sum of their sizes, to the queue and the message in flight
on each path out: written, closed, failed; the sum is a recursive function of the
queue, known by its two equations. `NoLostWakeup` speaks of a parked worker only; `WInv` extends it
over the pass: whatever is queued has been signalled, will be signalled by a
producer that has not finished, or lies ahead of the worker (`CommandsSeen`,
`ClosesSeen`, `StopSeen`, `InboxSeen`, `ChannelSeen`); what was seen and left, by
a spent window or a capped plugin, is on a deadline (`DeadlineKept`); a destroyed
pane owes nothing (`DroppedIsOver`). `PaneImplementsItsHalves` shows that every
step of the composition is a step or a stutter of each half, and `PaneIsSound`
carries the theorems of the halves over.

**A hub and its pages.** A page's view at any moment says little, since frames
are under way. `PagesKept` is about the view the page will have once it has
folded its snapshot, its queue and what is held for it (`FinalOf`): for a listed
page that view is exactly the hub's panes, order, output and zoom (`Right`). A
broadcast extends the frames on the way and moves the final view as the hub
moved; a replay rebuilds it from nothing. The assumption is that the queue can
take a replay (`Depth >= MaxPaneIds + 2`): with a smaller one a page is cut off
while it connects. `PanesAreShown` needs `PagesCalm` besides, which also holds of
pages that were cut off and still have frames to fold.

**Plugins in a hub.** `PluginsInv` has a part per promise and three that carry
them. `OwnersRun`: no plugin that does not run has a pane, whichever way it
stopped; so a hold, which has an owner, has one that can end it. `FirstSpawnKept`:
a pane in its first process belongs to the plugin it was meant for and that
plugin was told of it, which is what makes the hand-over of a reload reach it
(and is false of relaunched panes, see section 6). `BudgetsKept`: the stamps of a
budget are in order, and the j-th latest relaunch of a token was paid for by an
approval at least as late as its j-th latest one (`Covers`); a moment that passes
drops a prefix of both lists and keeps the pairing (`AgedCovers`), so no window
holds more relaunches than the guard allows. A token is the first of the panes
that carried it and a generation is smaller than the pane's id (`SpawnedOnce`),
so the token of a new pane is fresh.

**Status, loads and frames.** `ReadOwed` says what keeps `NothingUnread` true
between two events: the reading is the tree's, or something that leads to a
reading is flagged, queued, or about to be delivered; the case of a newly
written ignore file needs the rules the worker holds to be the ones it last read
(`RulesRecalled`). `LoadsAreSafe` maps every step of the loaders to a step or a
stutter of `LoadLanes`; it needs that the newest generation given to a reader
never runs ahead of its counter (`GensKept`). `FrameInv` follows a turn stage by
stage; its difficulty is the wall clock, which may be set back between two turns,
before the memo of the fading files was made. `StagesStay` shows that a frame may
be skipped exactly when no deadline was passed and none earlier came back.

**Session.** `CloneInv` pairs each dialog that starts, runs or discovers with its
request or its answer on the way, and keeps job ids apart. `TokensInv` holds of
three lists at once, in memory, in the file and in the copy a thread is about to
write: what was removed from memory is in the other two only while the write that
removes it is still to come (`GoneStays`). Eviction of the oldest is a selection
by rank, so the proof has a small theory of ranks in a finite total order.
`DaemonInv` says who holds the lock and whose socket file stands from `bind` to
`unlock`, and what a command has been told by whom (`StopMeant`).

**The catalog.** The four lists are one strip because every loop over them is the
same operator: `Within(list, set)` keeps each member of the set once, in the
order of the list. The lemmas about it (a list within its own members, within
two sets in turn, before and after one more path) give what `add_path`,
`remove_path` and `reorder` do to `union_paths`, once the lists are `Orderly`:
no path twice in one, none that is hidden in another, nothing remembered in the
order that is not served. The tab in front is followed through the steps of a
close and a reorder in two cases (`FrontRight`). Either the preference names it
(`Named`), and no call that read this preference is on its way to write another
(`NoThief`); or the preference names nothing that is served and the tab is the
first of the strip (`Fallen`), and every call under way read that same
preference and would write, if anything, this tab (`Keeper`). A reload
(`ReloadRight`) holds its lock from the reading of the file to the report, so
each hub has the current tables, is on its list, or is counted. The attempt
corrected the statement: a focus set on a repository that was closed in the
meantime puts nothing in front, also when the repository is opened again later.

**Plugins' own state.** `MemoryInv` describes the transaction under way, statement
by statement, as what it will have written (`WorkKept`), ids that are never
handed out twice (`NumbersKept`), and a migrated file before any statement
(`JournalKept`); it holds through a kill at any statement. `RecInv` ties the
machine's state to its wait and its limit (`Machine`), and what the plugin
believes of the pane to the host's state less the reports on their way
(`NewsTrue`). The budget part counts attempts asked for without a known reset
time (`Budgeted`): a refunded attempt had one.

How the proofs are built: `LeastOf` (from `WFMin`) is the least-number principle
that stands in for induction over a loop or a list; recursive functions are
characterised by their two equations before anything else is said of them; the
lemma of an action names the parts of the invariant it can disturb and shows each.

**Only model-checked.**

* The liveness properties, and the liveness half of `LoadsImplementLanes`:
  fairness is outside the prover.
* `RecordRight`, `ClientsConverge`, `RestsRight`, `TreeCurrent`,
  `ScreenAgrees`, `KeysRight`: no invariant has been worked out yet.

## 6. Where the code and its comments disagree

Three disagreements are runs of their own.

* `pane_record_leave`: when the switch back to the normal screen is completed by
  a chunk whose sequence began in an earlier one, the alternate record is
  cleared with the head of the sequence in it (`hub_panes.rs:146`) while the
  tail starts the scrollback. The comment on `since` says "Never dropped, only
  superseded" (`hub_helpers.rs:147`). A client attaching later reads the tail
  as text.
* `hub_plugins_handover`: `take_over` moves a relaunched pane's owner to the new
  id and leaves `intended` behind (`hub_plugins_slots.rs:93`), and `start_host`
  hands a new child the panes found in `intended`. After a relaunch, a reload
  that restarts the plugin leaves it with a pane its child was never told of;
  `hub_reload_hosts.rs:35` says every pane is handed over.
* `esc_search`: the saved focus is restored when the session first reports a
  project's panes (`app/session_io.rs:55`), also under an open search bar. With
  the focus on the terminal every key still goes to the upper panels, none of
  which answers, so Esc does nothing; `docs/keybindings.md:81` says it clears a
  search and `dispatch.rs:98` that the bar owns every key until dismissed.

Some modules state a sentence of the code or its docs that the model refutes, as
a property no run checks; adding it to the module's run gives the behaviour:

| Property | Sentence | What happens |
|---|---|---|
| `Recovery!ResumesOwnSession` | `docs/plugins.md:30`: an unambiguous session id, never another pane's session | a record another agent writes after this pane's process exited is the only new one, and its id is taken |
| `DaemonLife!StopFreesLock` | `cli/stop.rs:53`: wait until socket and lock are dropped | only the socket's absence is waited for; the lock goes a moment later |
| `Attached!ReplayKept` | `terminal_link.rs:105-110`: the replay happens only once, so dropping it would orphan panes | a client that adopts an older set without the repository forgets the replay filed for it, then adopts the newer set |
| `Attached!BridgesCurrent` | `watch.rs:60-62`: a repository is streaming by the time its tab is announced | one closed and opened again between two looks of the watcher gets no bridge to its new hub |
| `SessionCatalog!FocusSurvives` | `operations.rs`, `close_repo`: the close does not overwrite a focus made meanwhile | a tab opened again and put in front between the close's read and its write has the value that was read, and is moved away from |
| `SessionCatalog!FileMirrors` | `operations.rs`, `persist_workspace`: the file holds what is served | of two writers the one that read first saves last |
| `GitViews!DrillDownMatches` | `commit_log_apply.rs:136`: the files are those of the commit under the cursor | the log gains a commit between the request and its reply; the old commit's files show under the new one |
| `GitViews!OpenFileAligned` | `diff_load.rs`, `apply_diff_result`: the open file stays aligned with the diff | a snapshot between a move and its reply replaces the request that would have closed the file |
| `TreeNav!SearchWatched` | `tree.rs`, `sync_tree_watches`: a search watches the whole tree | a directory that appears during the search is listed for the index after the watches were brought up to date |

Seen while modelling, and modelled as the code has them:

* *Hub.* A create that passed `has_free_slot` before a claim reserved slots is
  registered after it (`hub_run.rs:77`), so a startup terminal can find its slot
  gone; `hub_helpers.rs:35` says creates cannot take the reserved slots first.
  The cap itself is kept (`CapHolds`). A screen snapshot taken on the alternate
  screen may be stored after the pane is back on the normal one
  (`hub_run.rs:207`). A drain window that is spent and over gives a deadline
  already due (`backend/pty_wakeup.rs:22`), so a worker can make passes without
  waiting. The teardown clears the zoom without announcing it
  (`hub_run.rs:282`); the exits it announces let the pages clear it themselves.
* *Plugins.* A failed relaunch restores the hold of a pane whose slot the backend
  has already given up (`backend/pty_spawn.rs:55`, `hub_plugins_slots.rs:80`);
  the hold then ends by its time, which `HoldsEnd` covers. `idle_announced`
  outlives the child it was announced to (`hub_reload_hosts.rs:100`).
* *Sockets.* A page that is silent with data on its way is given up by the system
  only, and a stopped hub does not end the sockets it served.
* *Clients.* The watcher's older `follow` can drop a bridge just made; its next
  pass makes it again. A late answer about an earlier clone loses the automatic
  opening of the next.
* *Status and loads.* `watching` is true although the watch of an external git
  directory was refused. A log page asked for before the mode was toggled is
  applied after it, which `RestsRight` excuses (`view.stray`); fetching the tail
  while the branch gains a commit shows a commit twice.
* *Windows.* Collapsing a directory drops its watch and keeps its listing; one
  removed and made again stays in `watched`. A pane that exits at a lower slot
  shifts which one is active. Drawing reads the clock again, and the ages in the
  commit log are not among what `redraw.rs` observes.
* *Input.* A paste or the mouse is not stopped by the help overlay, unlike what
  `app_impl.rs:96-99` says; an armed prefix stays with a project the session has
  moved away from; swap mode survives a paste. With two mouse buttons down at
  once a release can be lost; the model has one button.
* *Daemon.* Stopping a daemon that was killed waits for a socket file that stays.
  Of two attaches at once the loser's child dies at the port. A daemon opens its
  repositories before it takes the lock.
* *Recovery.* `ReadyToResume` is not reached. A reset time already past is
  accepted from Codex, so a refunded attempt can repeat at the least wait. For
  OpenCode a retry may pair an id with another session's reset time. Suspending
  the machine lengthens a wait.
* *Memory.* The version is read outside the transaction that migrates, so a
  helper of a later version, once there is one, could be overwritten with 1.

## 7. Not modelled

* Sequential conversions and input and output whose data no property here tells
  apart: drawing and layout, key encoding, wheel steps, parsing of configuration
  and command lines, calls into libgit2, socket framing and wire formats, path
  completion, updating the binary, logging, the plugin registry and the framing
  of its line protocol.
* Left out of modelled parts: titles, attention marks, the screening of what a
  plugin types, the viewer page's status stream and its paging of the log.
* The other web handlers are a check of the request and one call into a modelled
  part. Of these, saving a file (`handlers/file.rs:77`) compares the base and
  then writes: two savers with the same base both pass the comparison and the
  second write stays. The code claims no more than to narrow that window, so
  there is no property to state.
* Real time: timeouts are counts of ticks, and only their order matters.

## 8. Plan

Done: `SizeOwner` and `ResizeQueue`, `StartupClaim`, `TerminalHub` and
`TermSocket`, `PaneRecord`, `HubPlugins`, `HubWorker` with `InputQueue` and
`PaneThreads`; `RepoStatus`, `LoadLanes` and `GitLoads`, `GitViews`, `TreeNav`;
`SessionCatalog`, `Attached`, `CloneJobs`, `LoginTokens`, `DaemonLife`,
`TermRouter`; `PaneView`, `FrameLoop`, `KeyRouter`; `Recovery`, `MemoryStore`.
Proved: what section 5 lists.

Next, proofs in this order, each from an invariant TLC has checked first:

1. `KeysRight`;
2. `RecordRight` and `ScreenAgrees`;
3. `ClientsConverge`.
