----------------------------- MODULE SizeOwner -----------------------------
(***************************************************************************)
(* Which screen the session's PTYs are fitted to: the ownership state that *)
(* every terminal hub of a session shares (size_owner_state.rs). One       *)
(* action is one critical section of its mutex. Verdicts ride each         *)
(* connection's bounded queue and are dropped, never waited for, when that *)
(* queue is full.                                                          *)
(***************************************************************************)
EXTENDS Integers, FiniteSets, Sequences

CONSTANTS
    Viewers,         \* ViewerId: a browser tab or an attached TUI
    NoViewer,        \* owner = None
    Grace,           \* RELEASE_GRACE, in clock ticks
    MaxConnections,  \* bound: connections ever opened
    MaxGeneration,   \* bound: no claim is made past this generation
    MayFill          \* connections whose frame queue may be full

ASSUME ViewerAssumption == NoViewer \notin Viewers
ASSUME BoundAssumption == Grace \in Nat /\ MaxConnections \in Nat /\ MaxGeneration \in Nat

Connections == 0 .. (MaxConnections - 1)
NotAbsent == -1
FullQueues == SUBSET (MayFill \cap Connections)

VARIABLES
    present,         \* connections each viewer holds
    arrival,         \* present viewers, first-connection order
    activity,        \* viewers that took control, by last use
    owner,
    generation,
    absent,          \* ticks since the owner's last connection went
    announce,        \* viewer of every registered connection
    next_connection,
    told,            \* the last verdict each connection was sent
    moves            \* history: how often the owner has changed

vars == <<present, arrival, activity, owner, generation, absent, announce,
          next_connection, told, moves>>

----------------------------------------------------------------------------
(* Types *)

Verdicts == {"none", "owned", "released", "missed"}

\* The variables' types; `absent` counts no further than the grace.
TypeOK ==
    /\ present \in [Viewers -> Nat]
    /\ arrival \in Seq(Viewers) /\ activity \in Seq(Viewers)
    /\ owner \in Viewers \cup {NoViewer}
    /\ generation \in Nat /\ moves \in Nat
    /\ absent \in {NotAbsent} \cup (0 .. Grace)
    /\ announce \in [Connections -> Viewers \cup {NoViewer}]
    /\ next_connection \in 0 .. MaxConnections
    /\ told \in [Connections -> Verdicts]

----------------------------------------------------------------------------
(* Helpers *)

Entries(list) == {list[i] : i \in 1 .. Len(list)}

\* retain(|v| v != viewer): the lists hold a viewer at most once.
Retain(list, viewer) ==
    IF \E i \in 1 .. Len(list) : list[i] = viewer
    THEN LET at == CHOOSE i \in 1 .. Len(list) : list[i] = viewer
         IN  [k \in 1 .. (Len(list) - 1) |-> IF k < at THEN list[k] ELSE list[k + 1]]
    ELSE list

MarkActive(list, viewer) == Append(Retain(list, viewer), viewer)

Newest(list) == list[Len(list)]

\* What a tell leaves each connection in `to` knowing; a full queue (`full`)
\* drops the verdict without blocking.
Tell(verdicts, to, owned, full) ==
    [c \in Connections |->
        IF c \notin to THEN verdicts[c]
        ELSE IF c \in full THEN "missed"
        ELSE IF owned THEN "owned" ELSE "released"]

ConnectionsOf(viewer) == {c \in Connections : announce[c] = viewer}

Owns(c) == announce[c] # NoViewer /\ announce[c] = owner

\* Mutant: any resize of the current owner passes, whatever admitted it.
AnyGeneration(c, g) == Owns(c)
\* owner_generation(connection) == Some(g)
OwnerGeneration(c, g) == Owns(c) /\ generation = g

\* expire_absent_owner: whom the sizing passes to once the grace has run out.
Expired == absent # NotAbsent /\ absent >= Grace
Successor ==
    IF ~Expired THEN owner
    ELSE IF activity # <<>> THEN Newest(activity)
    ELSE IF arrival # <<>> THEN Newest(arrival)
    ELSE NoViewer
AbsentAfterExpiry == IF Expired THEN NotAbsent ELSE absent
GenerationAfterExpiry == IF Successor # owner THEN generation + 1 ELSE generation
ToldAfterExpiry(full) ==
    IF Expired /\ Successor # NoViewer
    THEN Tell(told, ConnectionsOf(Successor), TRUE, full)
    ELSE told

\* The history variable counts every change of owner a step makes.
MovesTo(viewer) ==
    moves' = moves + (IF Successor # owner THEN 1 ELSE 0)
                   + (IF viewer # Successor THEN 1 ELSE 0)

----------------------------------------------------------------------------
(* The critical sections *)

\* Mutant: an owner between two connections counts as no owner.
BootstrapsOverAbsent == Successor = NoViewer \/ absent # NotAbsent
\* A new viewer takes the sizing only of a session with no owner.
Bootstraps == Successor = NoViewer

\* Mutant: a returning owner does not stop its grace.
JoinKeepsGrace(viewer) == IF Bootstraps THEN NotAbsent ELSE AbsentAfterExpiry
\* The owner is back, or was never really gone, or is the one that just took it.
AbsentAfterJoin(viewer) ==
    IF Bootstraps \/ Successor = viewer THEN NotAbsent ELSE AbsentAfterExpiry

\* join: `connect` registers a connection once its replay is queued.
Join(viewer, full) ==
    LET c == next_connection
    IN
    /\ next_connection < MaxConnections
    /\ next_connection' = c + 1
    /\ present' = [present EXCEPT ![viewer] = @ + 1]
    /\ arrival' = IF present[viewer] = 0 THEN Append(arrival, viewer) ELSE arrival
    /\ announce' = [announce EXCEPT ![c] = viewer]
    /\ owner' = IF Bootstraps THEN viewer ELSE Successor
    /\ absent' = AbsentAfterJoin(viewer)
    /\ activity' = IF Bootstraps THEN MarkActive(activity, viewer) ELSE activity
    /\ generation' = GenerationAfterExpiry + (IF Bootstraps THEN 1 ELSE 0)
    /\ told' = Tell(ToldAfterExpiry(full),
                    IF Bootstraps THEN ConnectionsOf(viewer) \cup {c} ELSE {c},
                    owner' = viewer, full)
    /\ MovesTo(owner')

\* Mutant: a departed viewer stays in the activity list.
LeaveKeepsActivity(viewer) == activity
ActivityAfterLeave(viewer) ==
    IF present[viewer] = 1 THEN Retain(activity, viewer) ELSE activity

\* Mutant: the owner's departure does not start the grace.
LeaveStartsNoGrace(viewer) == absent
AbsentAfterLeave(viewer) ==
    IF present[viewer] = 1 /\ owner = viewer THEN 0 ELSE absent

\* leave: an unknown connection (a second disconnect) changes nothing.
Leave(c) ==
    LET viewer == announce[c]
    IN
    /\ viewer # NoViewer
    /\ announce' = [announce EXCEPT ![c] = NoViewer]
    /\ told' = [told EXCEPT ![c] = "none"]
    /\ present' = [present EXCEPT ![viewer] = @ - 1]
    /\ arrival' = IF present[viewer] = 1 THEN Retain(arrival, viewer) ELSE arrival
    /\ activity' = ActivityAfterLeave(viewer)
    /\ absent' = AbsentAfterLeave(viewer)
    /\ UNCHANGED <<owner, generation, next_connection, moves>>

\* Mutant: only the new owner is told.
TakeTellsWinnerOnly(sent, viewer, full) ==
    Tell(sent, ConnectionsOf(viewer), TRUE, full)
\* Every connection of the new owner and of the one it displaced.
ToldAfterTake(sent, viewer, full) ==
    Tell(Tell(sent, ConnectionsOf(viewer), TRUE, full),
         IF Successor = NoViewer THEN {} ELSE ConnectionsOf(Successor), FALSE, full)

\* claim, at a viewer's own request; it may arrive after its connection went.
Claim(c, full) ==
    LET viewer == announce[c]
        known == viewer # NoViewer
        takes == known /\ Successor # viewer
        sent == ToldAfterExpiry(full)
    IN
    /\ c < next_connection
    /\ generation < MaxGeneration
    /\ owner' = IF takes THEN viewer ELSE Successor
    /\ absent' = IF takes THEN NotAbsent ELSE AbsentAfterExpiry
    /\ activity' = IF known THEN MarkActive(activity, viewer) ELSE activity
    /\ generation' = GenerationAfterExpiry + (IF takes THEN 1 ELSE 0)
    /\ told' = IF takes THEN ToldAfterTake(sent, viewer, full)
               ELSE IF known THEN Tell(sent, {c}, TRUE, full) ELSE sent
    /\ MovesTo(owner')
    /\ UNCHANGED <<present, arrival, announce, next_connection>>

\* settle, from any hub worker's pass.
Settle(full) ==
    /\ Expired
    /\ owner' = Successor
    /\ absent' = AbsentAfterExpiry
    /\ generation' = GenerationAfterExpiry
    /\ told' = ToldAfterExpiry(full)
    /\ MovesTo(Successor)
    /\ UNCHANGED <<present, arrival, activity, announce, next_connection>>

\* The clock every `now` is read from, as far as the grace tells times apart.
Tick ==
    /\ absent # NotAbsent /\ absent < Grace
    /\ absent' = absent + 1
    /\ UNCHANGED <<present, arrival, activity, owner, generation, announce,
                   next_connection, told, moves>>

----------------------------------------------------------------------------
Init ==
    /\ present = [v \in Viewers |-> 0]
    /\ arrival = <<>> /\ activity = <<>>
    /\ owner = NoViewer
    /\ generation = 0 /\ moves = 0
    /\ absent = NotAbsent
    /\ announce = [c \in Connections |-> NoViewer]
    /\ next_connection = 0
    /\ told = [c \in Connections |-> "none"]

Next ==
    \/ \E v \in Viewers, full \in FullQueues : Join(v, full)
    \/ \E c \in Connections, full \in FullQueues : Claim(c, full)
    \/ \E c \in Connections : Leave(c)
    \/ \E full \in FullQueues : Settle(full)
    \/ Tick

\* A running hub's worker passes at least once a second, and time passes.
Fairness ==
    /\ WF_vars(Tick)
    /\ WF_vars(\E full \in FullQueues : Settle(full))

Spec == Init /\ [][Next]_vars /\ Fairness

----------------------------------------------------------------------------
(* Properties *)

NoRepeats(list) == \A i, j \in 1 .. Len(list) : list[i] = list[j] => i = j

\* `present` counts exactly the registered connections, the arrival list holds
\* exactly the viewers with one, and only such viewers are in the activity
\* list: the three views of who is here that join, leave and claim each update
\* by hand never drift apart.
PresenceConsistent ==
    /\ \A v \in Viewers : present[v] = Cardinality(ConnectionsOf(v))
    /\ Entries(arrival) = {v \in Viewers : present[v] > 0}
    /\ Entries(activity) \subseteq Entries(arrival)
    /\ NoRepeats(arrival) /\ NoRepeats(activity)

\* The sizing is unowned only while nobody is connected, and the grace is
\* running exactly while the owner has no connection: a session never gets
\* stuck fitted to a screen that left, nor expires one that is here.
OwnerAccounted ==
    /\ owner = NoViewer => \A v \in Viewers : present[v] = 0
    /\ absent # NotAbsent <=> (owner # NoViewer /\ present[owner] = 0)

\* Whatever a registered connection was last told about the sizing is still
\* true, unless its queue was full and the verdict was dropped.
VerdictCurrent ==
    \A c \in Connections :
        announce[c] # NoViewer =>
            told[c] \in {"missed", IF Owns(c) THEN "owned" ELSE "released"}

\* Arriving is passive: opening a connection never takes the sizing from an
\* owner, not even from one that is between two connections.
ArrivalIsPassive ==
    [][next_connection' # next_connection /\ owner # NoViewer /\ ~Expired
          => owner' = owner /\ generation' = generation]_vars

\* While someone is connected the sizing does not stay with a screen that
\* left: in the end its owner is connected, or nobody is.
SizingReachesSomeone ==
    (owner # NoViewer /\ present[owner] = 0)
        ~> (owner = NoViewer \/ present[owner] > 0)

=============================================================================
