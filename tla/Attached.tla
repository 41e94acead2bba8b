------------------------------ MODULE Attached ------------------------------
(***************************************************************************)
(* The clients attached to a session (src/daemon, src/application): the    *)
(* registry of clients and their queues (clients.rs), the thread that      *)
(* watches the session and is the only sender of the set of repositories   *)
(* (watch.rs), the bridges that stream every repository's terminals to     *)
(* every client (terminals.rs, serve.rs), the thread of each connection    *)
(* (serve/connection.rs, requests.rs), and on the other side the client's  *)
(* reader, its terminal router and the workspace that adopts what it is    *)
(* told (client.rs, wire.rs, session_link.rs, workspace/mod.rs).           *)
(*                                                                         *)
(* An operation on the session is one step here; SessionCatalog takes it   *)
(* apart.  An id stands for a path as long as the process lives, so a path *)
(* names a repository; the hub serving it is a new one after every open.   *)
(***************************************************************************)
EXTENDS Integers, Sequences, FiniteSets, SequencesExt

CONSTANTS ATPaths,    \* the repositories there are
          ATStart,    \* the ones served at first, a sequence
          ATClients,  \* client ids, in the order they attach
          QueueDepth, \* CLIENT_QUEUE_DEPTH
          MaxAttached,\* MAX_ATTACHED_CLIENTS
          ATScripts   \* [who, ops, changes, drops] a run explores

ASSUME ATAssumption == /\ ATPaths \subseteq Nat \ {0} /\ ToSet(ATStart) \subseteq ATPaths
                       /\ ATClients \subseteq Nat \ {0}
                       /\ QueueDepth \in Nat \ {0} /\ MaxAttached \in Nat

VARIABLES sess,   \* order, hub of each path (0: closed), hubs made, pref, accent
          reg,    \* AttachedClients: the clients in it, with queue and owed_set
          brs,    \* Session.bridges: client -> path -> the hub it streams from
          watch,  \* the watcher thread
          conn,   \* client -> where its connection thread is
          view,   \* client -> the attached program's side of it
          unseen, \* ghost: paths opened or closed since the watcher last read the set
          twice,  \* ghost: paths opened and closed, or closed and opened, in between
          atLeft  \* the script explored, with the changes left

atvars == <<sess, reg, brs, watch, conn, view, unseen, twice, atLeft>>

Hello == [k |-> "hello"]
Term(p, h) == [k |-> "term", repo |-> p, hub |-> h]
Repos(s) == [k |-> "repos", repos |-> s.repos, active |-> s.active, accent |-> s.accent]

IndexIn(list, p) == CHOOSE i \in DOMAIN list : list[i] = p
Except(list, p) == SelectSeq(list, LAMBDA q : q # p)

---------------------------------------------------------------------------
(* The session. *)

\* active_repo: the focused one, or the first served
Active == IF sess.pref \in ToSet(sess.order) THEN sess.pref
          ELSE IF sess.order = <<>> THEN 0 ELSE sess.order[1]

Current == [repos |-> sess.order, active |-> Active, accent |-> sess.accent]

\* open_repo: a repository already served is only put in front
Opened(s, p) ==
    IF p \in ToSet(s.order) THEN [s EXCEPT !.pref = p]
    ELSE [s EXCEPT !.order = Append(@, p), !.pref = p,
                   !.hub[p] = s.made + 1, !.made = @ + 1]

\* close_repo: the neighbour of a closed front tab comes forward
Closed(s, p) ==
    LET at == IndexIn(s.order, p)
        next == IF at < Len(s.order) THEN s.order[at + 1]
                ELSE IF at > 1 THEN s.order[at - 1] ELSE s.pref
    IN  IF p \notin ToSet(s.order) THEN s
        ELSE [s EXCEPT !.order = Except(@, p), !.hub[p] = 0,
                       !.pref = IF Active = p THEN next ELSE @]

\* reorder_repos: unknown ids are dropped, unnamed repositories go last
Ordered(s, ids) ==
    LET asked == SelectSeq(ids, LAMBDA p : p \in ToSet(s.order))
    IN  [s EXCEPT !.order = asked \o SelectSeq(@, LAMBDA p : p \notin ToSet(asked)),
                  !.pref = IF @ \in ToSet(s.order) THEN @ ELSE Active]

Changes(new) ==
    LET changed == {p \in ATPaths : sess.hub[p] # new.hub[p]}
    IN  sess' = new /\ unseen' = unseen \cup changed /\ twice' = twice \cup (unseen \cap changed)

\* a browser opens, closes or focuses a repository, or picks a colour
BrowserChanges ==
    /\ atLeft.changes > 0
    /\ \E p \in ATPaths :
         \/ "open" \in atLeft.ops /\ Changes(Opened(sess, p))
         \/ "close" \in atLeft.ops /\ p \in ToSet(sess.order) /\ Changes(Closed(sess, p))
         \/ "focus" \in atLeft.ops /\ p \in ToSet(sess.order) /\ Changes([sess EXCEPT !.pref = p])
         \/ "accent" \in atLeft.ops /\ Changes([sess EXCEPT !.accent = 1 - @])
    /\ atLeft' = [atLeft EXCEPT !.changes = @ - 1]
    /\ UNCHANGED <<reg, brs, watch, conn, view>>

---------------------------------------------------------------------------
(* The registry of clients. *)

\* Attached::queue: a client that stopped draining is cut off, not waited for
Fits(c, r) == c \in DOMAIN r /\ Len(r[c].queue) < QueueDepth
Queued(c, frame, r) ==
    IF Fits(c, r) THEN [r EXCEPT ![c].queue = Append(@, frame)]
    ELSE [d \in DOMAIN r \ {c} |-> r[d]]

\* send_to, and the socket of a client that is cut off is shut
SendTo(c, frame) ==
    /\ reg' = Queued(c, frame, reg)
    /\ view' = IF c \in DOMAIN reg /\ c \notin DOMAIN reg'
               THEN [view EXCEPT ![c].up = FALSE] ELSE view

\* broadcast: queueing for everyone and counting them told is one lock hold
Told(r, frame) ==
    [c \in {d \in DOMAIN r : Len(r[d].queue) < QueueDepth} |->
        [queue |-> Append(r[c].queue, frame), owed |-> FALSE]]

---------------------------------------------------------------------------
(* Bridges: TerminalBridges::follow under the client's own lock. *)

\* subscribe: the hub replays its panes into the queue before any live frame
Subscribes(c, new) ==
    LET frames == [i \in DOMAIN new |-> Term(new[i], sess.hub[new[i]])]
    IN  IF c \notin DOMAIN reg THEN UNCHANGED <<reg, view>>
        ELSE IF Len(reg[c].queue) + Len(frames) =< QueueDepth
        THEN reg' = [reg EXCEPT ![c].queue = @ \o frames] /\ UNCHANGED view
        ELSE /\ reg' = [d \in DOMAIN reg \ {c} |-> reg[d]]
             /\ view' = [view EXCEPT ![c].up = FALSE]

Follow(c, repos) ==
    LET kept == DOMAIN brs[c] \cap ToSet(repos)
        new == SelectSeq(repos, LAMBDA p : p \notin kept /\ sess.hub[p] # 0)
    IN  /\ brs' = [brs EXCEPT ![c] = [p \in kept \cup ToSet(new) |->
                                        IF p \in kept THEN brs[c][p] ELSE sess.hub[p]]]
        /\ Subscribes(c, new)

---------------------------------------------------------------------------
(* The watcher: a poke or its tick wakes it; the set, then the focus. *)

WatchReads ==
    /\ watch.pc = "wait"
    /\ watch' = [watch EXCEPT !.pc = "focus", !.repos = sess.order]
    /\ unseen' = {}
    /\ UNCHANGED <<sess, reg, brs, conn, view, twice, atLeft>>

WatchReadsFocus ==
    /\ watch.pc = "focus"
    /\ LET now == [repos |-> watch.repos, active |-> Active, accent |-> sess.accent]
       IN  watch' = [watch EXCEPT !.now = now,
                                  !.pc = IF now # watch.told THEN "follow" ELSE "owed",
                                  !.todo = IF now # watch.told THEN DOMAIN brs ELSE {}]
    /\ UNCHANGED <<sess, reg, brs, conn, view, unseen, twice, atLeft>>

\* follow_all: the clients of one reading of the map, oldest first
WatchFollows ==
    /\ watch.pc = "follow" /\ watch.todo # {}
    /\ LET c == CHOOSE d \in watch.todo : \A e \in watch.todo : d =< e
       IN  /\ watch' = [watch EXCEPT !.todo = @ \ {c}]
           /\ IF c \in DOMAIN brs THEN Follow(c, watch.repos) ELSE UNCHANGED <<brs, reg, view>>
    /\ UNCHANGED <<sess, conn, unseen, twice, atLeft>>

\* Mutant: the watcher records the session as it stands after the broadcast,
\* not what it sent.
TellsTheReread ==
    /\ reg' = Told(reg, Repos(watch.now))
    /\ view' = [c \in ATClients |->
                  IF c \in DOMAIN reg \ DOMAIN reg' THEN [view[c] EXCEPT !.up = FALSE] ELSE view[c]]
    /\ watch' = [watch EXCEPT !.pc = "wait", !.told = Current]
Broadcast ==
    /\ reg' = Told(reg, Repos(watch.now))
    /\ view' = [c \in ATClients |->
                  IF c \in DOMAIN reg \ DOMAIN reg' THEN [view[c] EXCEPT !.up = FALSE] ELSE view[c]]
    /\ watch' = [watch EXCEPT !.pc = "wait", !.told = watch.now]

WatchBroadcasts ==
    /\ watch.pc = "follow" /\ watch.todo = {}
    /\ Broadcast
    /\ UNCHANGED <<sess, brs, conn, unseen, twice, atLeft>>

\* take_owed_sets, then one send after the other
WatchTakesOwed ==
    /\ watch.pc = "owed"
    /\ watch' = [watch EXCEPT !.pc = "send", !.todo = {c \in DOMAIN reg : reg[c].owed}]
    /\ reg' = [c \in DOMAIN reg |-> [reg[c] EXCEPT !.owed = FALSE]]
    /\ UNCHANGED <<sess, brs, conn, view, unseen, twice, atLeft>>

WatchSends ==
    /\ watch.pc = "send"
    /\ \/ /\ watch.todo = {}
          /\ watch' = [watch EXCEPT !.pc = "wait"]
          /\ UNCHANGED <<reg, view>>
       \/ \E c \in watch.todo :
            /\ watch' = [watch EXCEPT !.todo = @ \ {c}]
            /\ SendTo(c, Repos(watch.now))
    /\ UNCHANGED <<sess, brs, conn, unseen, twice, atLeft>>

---------------------------------------------------------------------------
(* A connection's thread. *)

\* try_connect: the cap and the insertion are one lock hold; a new client is owed the set
TryConnect(c) ==
    /\ conn[c] = "none" /\ c \in atLeft.who
    /\ \A d \in atLeft.who : d < c => conn[d] # "none"
    /\ IF Cardinality(DOMAIN reg) < MaxAttached
       THEN /\ reg' = [d \in DOMAIN reg \cup {c} |->
                         IF d = c THEN [queue |-> <<>>, owed |-> TRUE] ELSE reg[d]]
            /\ view' = [view EXCEPT ![c].up = TRUE]
            /\ conn' = [conn EXCEPT ![c] = "bridges"]
       ELSE /\ conn' = [conn EXCEPT ![c] = "gone"]
            /\ UNCHANGED <<reg, view>>
    /\ UNCHANGED <<sess, brs, watch, unseen, twice, atLeft>>

InsertBridges(c) ==
    /\ conn[c] = "bridges"
    /\ brs' = [d \in DOMAIN brs \cup {c} |-> IF d = c THEN [p \in {} |-> 0] ELSE brs[d]]
    /\ conn' = [conn EXCEPT ![c] = "hello"]
    /\ UNCHANGED <<sess, reg, watch, view, unseen, twice, atLeft>>

SendHello(c) ==
    /\ conn[c] = "hello"
    /\ SendTo(c, Hello)
    /\ conn' = [conn EXCEPT ![c] = "follow"]
    /\ UNCHANGED <<sess, brs, watch, unseen, twice, atLeft>>

\* the set is read with the client's lock already held
ConnFollows(c) ==
    /\ conn[c] = "follow"
    /\ Follow(c, sess.order)
    /\ conn' = [conn EXCEPT ![c] = "serve"]
    /\ UNCHANGED <<sess, watch, unseen, twice, atLeft>>

\* handle: one request; list_repos owes the asker a set
HandleRequest(c) ==
    /\ conn[c] = "serve" /\ view[c].asked # <<>>
    /\ LET m == Head(view[c].asked)
       IN  \/ m.k = "list" /\ UNCHANGED <<sess, unseen, twice>>
              /\ reg' = IF c \in DOMAIN reg THEN [reg EXCEPT ![c].owed = TRUE] ELSE reg
           \/ /\ UNCHANGED reg
              /\ \/ m.k = "focus" /\ Changes(IF m.repo \in ToSet(sess.order)
                                             THEN [sess EXCEPT !.pref = m.repo] ELSE sess)
                 \/ m.k = "order" /\ Changes(Ordered(sess, m.ids))
                 \/ m.k = "close" /\ Changes(Closed(sess, m.repo))
    /\ view' = [view EXCEPT ![c].asked = Tail(@)]
    /\ UNCHANGED <<brs, watch, conn, atLeft>>

\* the connection ended: the bridges go, then the registration
DropBridges(c) ==
    /\ conn[c] = "serve" /\ ~view[c].up /\ view[c].asked = <<>>
    /\ brs' = [d \in DOMAIN brs \ {c} |-> brs[d]]
    /\ conn' = [conn EXCEPT ![c] = "leave"]
    /\ UNCHANGED <<sess, reg, watch, view, unseen, twice, atLeft>>

Disconnect(c) ==
    /\ conn[c] = "leave"
    /\ reg' = [d \in DOMAIN reg \ {c} |-> reg[d]]
    /\ conn' = [conn EXCEPT ![c] = "gone"]
    /\ UNCHANGED <<sess, brs, watch, view, unseen, twice, atLeft>>

---------------------------------------------------------------------------
(* The attached program. *)

Blank == [up |-> FALSE, hello |-> FALSE, ctl |-> <<>>, inbox |-> [p \in ATPaths |-> <<>>],
          tabs |-> <<>>, front |-> 0, accent |-> 0, shown |-> [p \in ATPaths |-> 0],
          asked |-> <<>>]

\* the writer, the socket and the reader: terminal traffic to its inbox, the rest to the queue
Reads(c) ==
    /\ view[c].up /\ c \in DOMAIN reg /\ reg[c].queue # <<>>
    /\ LET f == Head(reg[c].queue)
       IN  view' = CASE f.k = "hello" -> [view EXCEPT ![c].hello = TRUE]
                     [] f.k = "repos" -> [view EXCEPT ![c].ctl = Append(@, f)]
                     [] f.k = "term" -> [view EXCEPT ![c].inbox[f.repo] = Append(@, f.hub)]
    /\ reg' = [reg EXCEPT ![c].queue = Tail(@)]
    /\ UNCHANGED <<sess, brs, watch, conn, unseen, twice, atLeft>>

\* adopt: tabs that went are closed, new ones added and put in front, the order
\* taken over, the inboxes of what is not in the set dropped
Adopted(v, m) ==
    LET kept == SelectSeq(v.tabs, LAMBDA p : p \in ToSet(m.repos))
        new == SelectSeq(m.repos, LAMBDA p : p \notin ToSet(v.tabs))
        at == IndexIn(v.tabs, v.front)
        left == SelectSeq(SubSeq(v.tabs, 1, at), LAMBDA p : p \in ToSet(m.repos))
        beside == IF kept = <<>> THEN 0
                  ELSE IF Len(left) < Len(kept) THEN kept[Len(left) + 1] ELSE Last(kept)
        stays == IF v.front \in ToSet(m.repos) THEN v.front ELSE beside
    IN  [v EXCEPT !.tabs = m.repos,
                  !.front = IF m.active \in ToSet(m.repos) THEN m.active
                            ELSE IF new # <<>> THEN Last(new)
                            ELSE IF v.tabs = <<>> THEN 0 ELSE stays,
                  !.accent = m.accent,
                  !.inbox = [p \in ATPaths |-> IF p \in ToSet(m.repos) THEN @[p] ELSE <<>>],
                  !.shown = [p \in ATPaths |-> IF p \in ToSet(kept) THEN @[p] ELSE 0]]

\* sync: one message of the control queue
Sync(c) ==
    /\ view[c].up /\ view[c].hello /\ view[c].ctl # <<>>
    /\ view' = [view EXCEPT ![c] = [Adopted(@, Head(@.ctl)) EXCEPT !.ctl = Tail(@)]]
    /\ UNCHANGED <<sess, reg, brs, watch, conn, unseen, twice, atLeft>>

\* the tabs drain their inboxes: the replay of a hub puts its panes on the screen
DrainTabs(c) ==
    /\ view[c].up
    /\ LET full == {p \in ToSet(view[c].tabs) : view[c].inbox[p] # <<>>}
       IN  /\ full # {}
           /\ view' = [view EXCEPT
                ![c].inbox = [p \in ATPaths |-> IF p \in full THEN <<>> ELSE @[p]],
                ![c].shown = [p \in ATPaths |-> IF p \in full THEN Last(view[c].inbox[p]) ELSE @[p]]]
    /\ UNCHANGED <<sess, reg, brs, watch, conn, unseen, twice, atLeft>>

\* cycle_target and moved_order, from the tabs as this client shows them
Beside(tabs, front) == tabs[(IndexIn(tabs, front) % Len(tabs)) + 1]
Swapped(tabs, front) ==
    LET i == IndexIn(tabs, front) IN [tabs EXCEPT ![i] = tabs[i + 1], ![i + 1] = tabs[i]]

Requests(c) ==
    /\ view[c].up /\ atLeft.changes > 0
    /\ \E m \in (IF "list" \in atLeft.ops THEN {[k |-> "list"]} ELSE {})
             \cup (IF "focus" \in atLeft.ops /\ Len(view[c].tabs) > 1
                   THEN {[k |-> "focus", repo |-> Beside(view[c].tabs, view[c].front)]} ELSE {})
             \cup (IF "order" \in atLeft.ops /\ Len(view[c].tabs) > 1
                      /\ view[c].front # Last(view[c].tabs)
                   THEN {[k |-> "order", ids |-> Swapped(view[c].tabs, view[c].front)]} ELSE {})
             \cup (IF "close" \in atLeft.ops /\ view[c].tabs # <<>>
                   THEN {[k |-> "close", repo |-> view[c].front]} ELSE {}) :
         view' = [view EXCEPT ![c].asked = Append(@, m)]
    /\ atLeft' = [atLeft EXCEPT !.changes = @ - 1]
    /\ UNCHANGED <<sess, reg, brs, watch, conn, unseen, twice>>

\* the program ends, or its connection breaks
Leaves(c) ==
    /\ view[c].up /\ conn[c] = "serve" /\ atLeft.drops > 0
    /\ view' = [view EXCEPT ![c].up = FALSE]
    /\ atLeft' = [atLeft EXCEPT !.drops = @ - 1]
    /\ UNCHANGED <<sess, reg, brs, watch, conn, unseen, twice>>

---------------------------------------------------------------------------
ATInit ==
    /\ atLeft \in ATScripts
    /\ sess = [order |-> ATStart, made |-> Len(ATStart), pref |-> 0, accent |-> 0,
               hub |-> [p \in ATPaths |-> IF p \in ToSet(ATStart) THEN IndexIn(ATStart, p) ELSE 0]]
    /\ reg = [c \in {} |-> 0] /\ brs = [c \in {} |-> 0]
    /\ watch = [pc |-> "wait", told |-> Current, now |-> Current, repos |-> <<>>, todo |-> {}]
    /\ conn = [c \in ATClients |-> "none"]
    /\ view = [c \in ATClients |-> Blank]
    /\ unseen = {} /\ twice = {}

WatchStep == WatchReads \/ WatchReadsFocus \/ WatchFollows \/ WatchBroadcasts
                \/ WatchTakesOwed \/ WatchSends
ConnStep(c) == TryConnect(c) \/ InsertBridges(c) \/ SendHello(c) \/ ConnFollows(c)
                \/ HandleRequest(c) \/ DropBridges(c) \/ Disconnect(c)
ClientStep(c) == Reads(c) \/ Sync(c) \/ DrainTabs(c) \/ Requests(c) \/ Leaves(c)

ATNext == BrowserChanges \/ WatchStep \/ \E c \in ATClients : ConnStep(c) \/ ClientStep(c)

ATSpec == ATInit /\ [][ATNext]_atvars

---------------------------------------------------------------------------
(* Properties. *)

\* nothing is on its way: the watcher has read the session as it is, every
\* queue is read and every inbox drained
Quiet ==
    /\ watch.pc = "wait" /\ watch.told = Current
    /\ \A c \in DOMAIN reg : ~reg[c].owed /\ reg[c].queue = <<>>
    /\ \A c \in ATClients : /\ view[c].ctl = <<>> /\ view[c].asked = <<>>
                            /\ \A p \in ToSet(view[c].tabs) : view[c].inbox[p] = <<>>
                            /\ conn[c] \in {"none", "serve", "gone"}

\* the hub a client is bridged to for a path, 0 when there is no bridge
Streamed(c, p) == IF p \in DOMAIN brs[c] THEN brs[c][p] ELSE 0

Here == {c \in ATClients : view[c].up /\ conn[c] = "serve"}

\* Whenever it is quiet every attached client shows the session's tabs in its
\* order with its tab in front and its colour, whichever of opens, closes,
\* moves, attaches and requests crossed on the way (watch.rs, clients.rs,
\* session_link.rs), and a bridge streams every served repository, and no
\* other, to it from the hub that runs it, unless it was opened and closed
\* between two readings of the watcher.
ClientsConverge ==
    Quiet => \A c \in Here :
        /\ view[c].hello /\ view[c].tabs = sess.order /\ view[c].front = Active
        /\ view[c].accent = sess.accent
        /\ \A p \in ATPaths \ twice : Streamed(c, p) = sess.hub[p]

\* "so a repository that appeared is already streaming its terminals by the
\* time a client is told the tab exists" (watch.rs): every bridge is on the
\* hub that runs the repository.
BridgesCurrent ==
    Quiet => \A c \in Here : \A p \in ToSet(sess.order) : Streamed(c, p) = sess.hub[p]

\* "the replay happens only once, so dropping those would orphan panes"
\* (terminal_link.rs deliver): what a bridge replayed reaches the tab.
ReplayKept ==
    Quiet => \A c \in Here : \A p \in DOMAIN brs[c] \cap ToSet(sess.order) :
                 view[c].shown[p] = brs[c][p]
=============================================================================
