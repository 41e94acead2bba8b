---------------------------- MODULE ResizeQueue ----------------------------
(***************************************************************************)
(* One hub's latest-value resize queue (hub_layout.rs) on top of the       *)
(* session's size ownership, with the three-step departure of the          *)
(* connections that use both (hub_connect.rs). `ownership`, `state` and    *)
(* `pending_resizes` are separate mutexes, so a departure interleaves with *)
(* a claim, with an admission and with the worker between any two steps.   *)
(***************************************************************************)
EXTENDS SizeOwner

CONSTANTS
    Panes,           \* pane ids, ordered as the resize map orders them
    Sizes,           \* (rows, cols) pairs, already clamped
    FirstSize,       \* the size every pane is born with
    Contenders       \* bound: no resize is under way with more connections opened

ASSUME PaneAssumption == Panes \subseteq Nat
ASSUME SizeAssumption == FirstSize \in Sizes

VARIABLES
    clients,         \* connections in the hub's broadcast list
    phase,           \* how far each connection has come in its life
    asked,           \* resizes past the liveness check, not yet queued
    pending,         \* pending_resizes
    taken,           \* resizes the worker took and has not applied
    live,            \* panes with a process
    size             \* the size each pane's PTY has

hub == <<clients, phase, asked, pending, taken, live, size>>
rqvars == <<vars, hub>>

Request == [connection : Connections, pane : Panes, size : Sizes]
\* `moves` is the history an entry was admitted in, which the code has not.
PendingResize == [connection : Connections, pane : Panes, size : Sizes,
                  generation : Nat, moves : Nat]
Phases == {"unborn", "open", "unlisted", "left", "gone"}

----------------------------------------------------------------------------
(* Connections *)

\* The list entry, unless the replay already evicted the client.
ListClient(evicted) ==
    clients' = IF evicted THEN clients ELSE clients \cup {next_connection}

\* connect, second half: the size registration and the list entry it is
\* written into, under the state lock. A client evicted during its replay is
\* registered all the same and is no longer in the list.
Connect(viewer, evicted, full) ==
    /\ next_connection < Contenders \/ (asked = {} /\ pending = {} /\ taken = {})
    /\ Join(viewer, full)
    /\ ListClient(evicted)
    /\ phase' = [phase EXCEPT ![next_connection] = "open"]
    /\ UNCHANGED <<asked, pending, taken, live, size>>

\* Every eviction removes the client from the list and nothing else.
Evict(c) ==
    /\ c \in clients
    /\ clients' = clients \ {c}
    /\ UNCHANGED <<vars, phase, asked, pending, taken, live, size>>

\* disconnect, first step: the broadcast list, under the state lock.
Unlist(c) ==
    /\ phase[c] = "open"
    /\ phase' = [phase EXCEPT ![c] = "unlisted"]
    /\ clients' = clients \ {c}
    /\ UNCHANGED <<vars, asked, pending, taken, live, size>>

\* disconnect, second step: the ownership's lock.
LeaveOwnership(c) ==
    /\ phase[c] = "unlisted"
    /\ phase' = [phase EXCEPT ![c] = "left"]
    /\ Leave(c)
    /\ UNCHANGED <<clients, asked, pending, taken, live, size>>

\* disconnect, third step: the queue's lock.
DiscardPendingResizes(c) ==
    /\ phase[c] = "left"
    /\ phase' = [phase EXCEPT ![c] = "gone"]
    /\ pending' = {r \in pending : r.connection # c}
    /\ UNCHANGED <<vars, clients, asked, taken, live, size>>

OwnershipStep ==
    /\ \/ \E c \in Connections, full \in FullQueues : Claim(c, full)
       \/ \E full \in FullQueues : Settle(full)
       \/ Tick
    /\ UNCHANGED hub

----------------------------------------------------------------------------
(* The queue *)

\* queue_resize, up to the liveness check it makes without the queue's lock.
\* The session outlives its registration, so any phase may still ask, one
\* request at a time.
AskResize(r) ==
    /\ next_connection <= Contenders
    /\ phase[r.connection] # "unborn"
    /\ \A q \in asked : q.connection # r.connection
    /\ r.pane \in live
    /\ asked' = asked \cup {r}
    /\ UNCHANGED <<vars, clients, phase, pending, taken, live, size>>

\* Mutant: admitted without asking the ownership.
AdmitsAnyone(c) == TRUE
\* owner_generation(connection) is Some
Admits(c) == Owns(c)

\* queue_resize, under the queue's lock: the newest size per connection and
\* pane, stamped with the generation that admitted it.
QueueResize(r) ==
    /\ r \in asked
    /\ asked' = asked \ {r}
    /\ pending' =
        IF Admits(r.connection)
        THEN {q \in pending : q.connection # r.connection \/ q.pane # r.pane}
             \cup {[connection |-> r.connection, pane |-> r.pane, size |-> r.size,
                    generation |-> generation, moves |-> moves]}
        ELSE pending
    /\ UNCHANGED <<vars, clients, phase, taken, live, size>>

\* take_pending_resizes: the worker empties the map in one step.
TakePendingResizes ==
    /\ taken = {} /\ pending # {}
    /\ taken' = pending
    /\ pending' = {}
    /\ UNCHANGED <<vars, clients, phase, asked, live, size>>

\* The map's order: by connection, then by pane.
Before(q, r) ==
    \/ q.connection < r.connection
    \/ q.connection = r.connection /\ q.pane < r.pane

\* resize_pane: re-judged under the state and ownership locks, and refused in
\* silence; `failed` is the backend refusing a resize.
ResizePane(r, failed) ==
    LET admitted == /\ OwnerGeneration(r.connection, r.generation)
                    /\ r.connection \in clients
                    /\ r.pane \in live
    IN
    /\ r \in taken
    /\ \A q \in taken : ~Before(q, r)
    /\ taken' = taken \ {r}
    /\ size' = IF admitted /\ ~failed THEN [size EXCEPT ![r.pane] = r.size] ELSE size
    /\ UNCHANGED <<vars, clients, phase, asked, pending, live>>

PaneExits(p) ==
    /\ p \in live
    /\ live' = live \ {p}
    /\ UNCHANGED <<vars, clients, phase, asked, pending, taken, size>>

----------------------------------------------------------------------------
RQInit ==
    /\ Init
    /\ clients = {}
    /\ phase = [c \in Connections |-> "unborn"]
    /\ asked = {} /\ pending = {} /\ taken = {}
    /\ live = Panes
    /\ size = [p \in Panes |-> FirstSize]

RQNext ==
    \/ \E v \in Viewers, evicted \in BOOLEAN, full \in FullQueues :
            Connect(v, evicted, full)
    \/ OwnershipStep
    \/ \E c \in Connections : Evict(c)
    \/ \E c \in Connections : Unlist(c)
    \/ \E c \in Connections : LeaveOwnership(c)
    \/ \E c \in Connections : DiscardPendingResizes(c)
    \/ \E r \in Request : AskResize(r)
    \/ \E r \in asked : QueueResize(r)
    \/ TakePendingResizes
    \/ \E r \in taken, failed \in BOOLEAN : ResizePane(r, failed)
    \/ \E p \in Panes : PaneExits(p)

RQSpec == RQInit /\ [][RQNext]_rqvars

\* A running hub's worker passes at least once a second, and time passes.
RQFairSpec ==
    /\ RQSpec
    /\ WF_rqvars(Tick /\ UNCHANGED hub)
    /\ WF_rqvars((\E full \in FullQueues : Settle(full)) /\ UNCHANGED hub)

----------------------------------------------------------------------------
(* Properties *)

\* Once a departure has purged its resizes none comes back for it, although
\* the session can still dispatch: queue_resize checks ownership under the
\* queue's lock and disconnect purges only after leaving.
NoResizeAfterPurge ==
    \A r \in pending : phase[r.connection] # "gone"

\* A PTY changes size only for a listed client of the viewer that owns the
\* sizing, and only if the ownership has not moved at all since that resize
\* was queued, A -> B -> A included.
ResizeUnderOneTenure ==
    [][\A p \in Panes : size'[p] # size[p] =>
          \E r \in taken : /\ r.pane = p /\ r.size = size'[p]
                           /\ r.moves = moves
                           /\ Owns(r.connection)
                           /\ r.connection \in clients]_rqvars

=============================================================================
