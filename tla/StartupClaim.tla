---------------------------- MODULE StartupClaim ----------------------------
(***************************************************************************)
(* How a repository's configured terminals come up (startup.rs,            *)
(* startup_run.rs). The hub offers them to every client; the first answer  *)
(* takes the `started` flag, holds cap slots for the batch under the state *)
(* lock and queues one command for the worker. A full queue undoes all of  *)
(* it and offers again. Connection threads and the worker share only the   *)
(* flag, the state mutex (`live`, `reserved`) and the bounded queue, so    *)
(* each critical section is a step of its own here.                        *)
(*                                                                         *)
(* A client is one connection; its identity is never used again.           *)
(***************************************************************************)
EXTENDS Integers, Sequences

CONSTANTS
    Clients,       \* connections
    MaxPtys,       \* MAX_PTYS_PER_REPO
    Configured,    \* startup_count(): how many terminals are configured
    QueueDepth,    \* capacity of the command queue
    MaxCreates,    \* bound: creates the clients ever ask for
    MaxStarts      \* bound: `start` messages of one client on their way at once

ASSUME SizesAssumption ==
    /\ MaxPtys \in Nat /\ Configured \in Nat /\ Configured > 0
    /\ QueueDepth \in Nat /\ QueueDepth > 0 /\ MaxCreates \in Nat
    /\ MaxStarts \in Nat

VARIABLES
    started,       \* TerminalHub.started
    live,          \* Shared.panes.len()
    reserved,      \* Shared.reserved
    commands,      \* the worker's queue
    creates,       \* how many creates have been asked for
    stop,          \* TerminalHub.stop
    worker,        \* where the worker is, and the batch it is opening
    connection,    \* where each connection is in connect and disconnect
    offered,       \* clients holding a Pending they have not answered
    starts,        \* per client, `start` messages on their way
    claim          \* per client, where its claim_startup is and what it holds

connectionVars == <<connection, offered>>
vars == <<started, live, reserved, commands, creates, stop, worker,
          connection, offered, starts, claim>>

Create == [kind |-> "create", held |-> 0]
CreateStartup(held) == [kind |-> "startup", held |-> held]

Smaller(m, n) == IF m < n THEN m ELSE n
\* saturating_sub
Minus(m, n) == IF m > n THEN m - n ELSE 0

\* has_free_slot
HasFreeSlot == live + reserved < MaxPtys

Idle == [pc |-> "idle", left |-> 0, held |-> 0, spent |-> FALSE]
NoClaim == [pc |-> "none", held |-> 0]

----------------------------------------------------------------------------
(* Connections *)

\* connect lists the client before it decides whether to offer.
ConnectListed(c) ==
    /\ connection[c] = "new"
    /\ connection' = [connection EXCEPT ![c] = "listed"]
    /\ UNCHANGED <<started, live, reserved, commands, creates, stop, worker,
                   offered, starts, claim>>

\* connect's decision, taken outside the lock.
Offers == ~stop /\ ~started

ConnectDecides(c) ==
    /\ connection[c] = "listed"
    /\ connection' = [connection EXCEPT ![c] = IF Offers THEN "offering" ELSE "open"]
    /\ UNCHANGED <<started, live, reserved, commands, creates, stop, worker,
                   offered, starts, claim>>

ConnectOffers(c) ==
    /\ connection[c] = "offering"
    /\ connection' = [connection EXCEPT ![c] = "open"]
    /\ offered' = offered \cup {c}
    /\ UNCHANGED <<started, live, reserved, commands, creates, stop, worker,
                   starts, claim>>

\* The client's connection ends, its own claim perhaps still running.
Disconnect(c) ==
    /\ connection[c] = "open"
    /\ connection' = [connection EXCEPT ![c] = "gone"]
    /\ offered' = offered \ {c}
    /\ starts' = [starts EXCEPT ![c] = 0]
    /\ UNCHANGED <<started, live, reserved, commands, creates, stop, worker, claim>>

\* The client measures its cells, answers and forgets the offer.
Answer(c) ==
    /\ c \in offered /\ connection[c] = "open" /\ starts[c] < MaxStarts
    /\ offered' = offered \ {c}
    /\ starts' = [starts EXCEPT ![c] = @ + 1]
    /\ UNCHANGED <<started, live, reserved, commands, creates, stop, worker,
                   connection, claim>>

\* A client's `create` on the bounded queue; a full one refuses it.
AskCreate ==
    /\ creates < MaxCreates
    /\ \E c \in Clients : connection[c] = "open"
    /\ creates' = creates + 1
    /\ commands' = IF Len(commands) < QueueDepth /\ worker.pc # "gone"
                   THEN Append(commands, Create) ELSE commands
    /\ UNCHANGED <<started, live, reserved, stop, worker, connectionVars,
                   starts, claim>>

----------------------------------------------------------------------------
(* claim_startup, on the thread of the connection that answered *)

\* Mutant: the flag is set without looking at what it was.
AnyoneWins == TRUE
\* The compare_exchange: whoever finds the flag clear has the claim.
ClaimWins == ~started

ClaimFlag(c) ==
    /\ starts[c] > 0 /\ claim[c].pc = "none"
    /\ starts' = [starts EXCEPT ![c] = @ - 1]
    /\ started' = TRUE
    /\ claim' = IF ClaimWins THEN [claim EXCEPT ![c].pc = "reserve"] ELSE claim
    /\ UNCHANGED <<live, reserved, commands, creates, stop, worker, connectionVars>>

SlotsToHold == Smaller(Configured, Minus(MaxPtys, live + reserved))

ReserveSlots(c) ==
    /\ claim[c].pc = "reserve"
    /\ reserved' = reserved + SlotsToHold
    /\ claim' = [claim EXCEPT ![c] = [pc |-> "submit", held |-> SlotsToHold]]
    /\ UNCHANGED <<started, live, commands, creates, stop, worker, connectionVars, starts>>

\* One command for the whole batch, or none of it.
SubmitBatch(c) ==
    /\ claim[c].pc = "submit"
    /\ IF Len(commands) < QueueDepth /\ worker.pc # "gone"
       THEN /\ commands' = Append(commands, CreateStartup(claim[c].held))
            /\ claim' = [claim EXCEPT ![c] = NoClaim]
       ELSE /\ claim' = [claim EXCEPT ![c].pc = "release"]
            /\ UNCHANGED commands
    /\ UNCHANGED <<started, live, reserved, creates, stop, worker, connectionVars, starts>>

\* Mutant: a refused batch keeps its slots.
KeepsReservation(c) == reserved
ReservedAfterRefusal(c) == Minus(reserved, claim[c].held)

ReleaseClaim(c) ==
    /\ claim[c].pc = "release"
    /\ reserved' = ReservedAfterRefusal(c)
    /\ claim' = [claim EXCEPT ![c] = [pc |-> "hand back", held |-> 0]]
    /\ UNCHANGED <<started, live, commands, creates, stop, worker, connectionVars, starts>>

HandBack(c) ==
    /\ claim[c].pc = "hand back"
    /\ started' = FALSE
    /\ claim' = [claim EXCEPT ![c].pc = "offer again"]
    /\ UNCHANGED <<live, reserved, commands, creates, stop, worker, connectionVars, starts>>

\* Mutant: only the client whose claim was refused is offered the panes again.
ReoffersToOne(c) == {c} \cap {d \in Clients : connection[d] # "gone"}
\* Who hears broadcast_pending: every client in the list.
Reoffered(c) == {d \in Clients : connection[d] \in {"listed", "offering", "open"}}

BroadcastPending(c) ==
    /\ claim[c].pc = "offer again"
    /\ offered' = offered \cup Reoffered(c)
    /\ claim' = [claim EXCEPT ![c] = NoClaim]
    /\ UNCHANGED <<started, live, reserved, commands, creates, stop, worker,
                   connection, starts>>

----------------------------------------------------------------------------
(* The worker *)

\* Command::Create looks for a slot, then spawns outside the lock.
TakeCreate ==
    /\ worker.pc = "idle" /\ commands # <<>> /\ Head(commands).kind = "create"
    /\ commands' = Tail(commands)
    /\ worker' = IF HasFreeSlot THEN [worker EXCEPT !.pc = "creating"] ELSE worker
    /\ UNCHANGED <<started, live, reserved, creates, stop, connectionVars, starts, claim>>

\* open_pane and register_pane, or the spawn fails.
FinishCreate ==
    /\ worker.pc = "creating"
    /\ live' \in {live, live + 1}
    /\ worker' = Idle
    /\ UNCHANGED <<started, reserved, commands, creates, stop, connectionVars, starts, claim>>

TakeStartup ==
    /\ worker.pc = "idle" /\ commands # <<>> /\ Head(commands).kind = "startup"
    /\ commands' = Tail(commands)
    /\ worker' = [pc |-> "next", left |-> Configured, held |-> Head(commands).held,
                  spent |-> FALSE]
    /\ UNCHANGED <<started, live, reserved, creates, stop, connectionVars, starts, claim>>

\* The head of open_startup_panes' loop: a pane spends its own reservation,
\* if it has one, before it looks for a slot.
SpendReservation ==
    /\ worker.pc = "next" /\ worker.left > 0
    /\ LET spends == worker.held > 0 IN
        /\ reserved' = IF spends THEN Minus(reserved, 1) ELSE reserved
        /\ worker' = [pc |-> "check", left |-> worker.left - 1, spent |-> spends,
                      held |-> IF spends THEN worker.held - 1 ELSE 0]
    /\ UNCHANGED <<started, live, commands, creates, stop, connectionVars, starts, claim>>

\* Mutant: a startup pane is not held to the cap.
ChecksNothing == TRUE
StartupFits == HasFreeSlot

CheckSlot ==
    /\ worker.pc = "check"
    /\ worker' = [worker EXCEPT !.pc = IF StartupFits THEN "open" ELSE "hand back"]
    /\ UNCHANGED <<started, live, reserved, commands, creates, stop,
                   connectionVars, starts, claim>>

OpenStartupPane ==
    /\ worker.pc = "open"
    /\ live' \in {live, live + 1}
    /\ worker' = [worker EXCEPT !.pc = "next", !.spent = FALSE]
    /\ UNCHANGED <<started, reserved, commands, creates, stop, connectionVars, starts, claim>>

\* The end of the batch gives back what its panes did not spend.
FinishStartup ==
    /\ worker.pc = "hand back" \/ (worker.pc = "next" /\ worker.left = 0)
    /\ reserved' = Minus(reserved, worker.held)
    /\ worker' = Idle
    /\ UNCHANGED <<started, live, commands, creates, stop, connectionVars, starts, claim>>

\* A pane ends or is closed; the worker takes it out between commands.
PaneLeaves ==
    /\ worker.pc = "idle" /\ live > 0
    /\ live' = live - 1
    /\ UNCHANGED <<started, reserved, commands, creates, stop, worker,
                   connectionVars, starts, claim>>

Stop ==
    /\ ~stop
    /\ stop' = TRUE
    /\ UNCHANGED <<started, live, reserved, commands, creates, worker,
                   connectionVars, starts, claim>>

\* The worker leaves its loop; the queue goes with it.
WorkerEnds ==
    /\ stop /\ worker.pc = "idle"
    /\ worker' = [Idle EXCEPT !.pc = "gone"]
    /\ live' = 0
    /\ commands' = <<>>
    /\ UNCHANGED <<started, reserved, creates, stop, connectionVars, starts, claim>>

----------------------------------------------------------------------------
Init ==
    /\ started = FALSE /\ live = 0 /\ reserved = 0 /\ commands = <<>>
    /\ creates = 0 /\ stop = FALSE /\ worker = Idle
    /\ connection = [c \in Clients |-> "new"] /\ offered = {}
    /\ starts = [c \in Clients |-> 0]
    /\ claim = [c \in Clients |-> NoClaim]

ClaimStep(c) ==
    \/ ClaimFlag(c) \/ ReserveSlots(c) \/ SubmitBatch(c)
    \/ ReleaseClaim(c) \/ HandBack(c) \/ BroadcastPending(c)

ConnectStep(c) == ConnectDecides(c) \/ ConnectOffers(c)

WorkerStep ==
    \/ TakeCreate \/ FinishCreate \/ TakeStartup \/ SpendReservation
    \/ CheckSlot \/ OpenStartupPane \/ FinishStartup \/ WorkerEnds

Next ==
    \/ \E c \in Clients : ConnectListed(c) \/ Disconnect(c) \/ Answer(c)
    \/ \E c \in Clients : ConnectStep(c)
    \/ \E c \in Clients : ClaimStep(c)
    \/ AskCreate \/ PaneLeaves \/ Stop
    \/ WorkerStep

Spec == Init /\ [][Next]_vars

----------------------------------------------------------------------------
(* Properties *)

Commands == [kind : {"create", "startup"}, held : Nat]
Workers == [pc : {"idle", "creating", "next", "check", "open", "hand back", "gone"},
            left : Nat, held : Nat, spent : BOOLEAN]
Claims == [pc : {"none", "reserve", "submit", "release", "hand back", "offer again"},
           held : Nat]
FlagsOK == started \in BOOLEAN /\ stop \in BOOLEAN

\* The variables' types.
TypeOK ==
    /\ FlagsOK
    /\ live \in Nat /\ reserved \in Nat /\ creates \in Nat
    /\ commands \in Seq(Commands)
    /\ worker \in Workers
    /\ connection \in [Clients -> {"new", "listed", "offering", "open", "gone"}]
    /\ offered \subseteq Clients
    /\ starts \in [Clients -> Nat]
    /\ claim \in [Clients -> Claims]

\* The terminals of a repository never outnumber the cap, whatever creates,
\* claims and startup batches race for the last slot.
CapHolds == live <= MaxPtys

\* Whoever holds reserved slots: a running claim, the queued batch, the worker.
Claimants == {c \in Clients : claim[c].held > 0}
Batches == {i \in DOMAIN commands : commands[i].kind = "startup"}

\* `reserved` is exactly what the one claim under way holds, wherever it is:
\* slots are neither leaked, which would lower the cap for good, nor given
\* back twice.
ReservedAccounted ==
    worker.pc # "gone" =>
        /\ \A c \in Claimants : reserved = claim[c].held
        /\ \A i \in Batches : reserved = commands[i].held
        /\ worker.held > 0 => reserved = worker.held
        /\ Claimants = {} /\ Batches = {} /\ worker.held = 0 => reserved = 0

\* The worker is somewhere inside open_startup_panes.
OpeningBatch == worker.pc \in {"next", "check", "open", "hand back"}

\* The configured terminals exist once: there is never a second batch, queued or
\* being opened, and none while the flag says that nobody claimed it.
BatchUnique ==
    /\ \A i, j \in Batches : i = j
    /\ Batches # {} => ~OpeningBatch
    /\ Batches # {} \/ OpeningBatch => started

\* The worker has the batch, or has opened it.
TakenUp == started /\ Batches = {} /\ \A c \in Clients : claim[c].pc = "none"

\* A client that is offered the terminals sees them taken up by the worker, by
\* its own answer or another's, unless it leaves or the hub stops.
StartupHappens ==
    \A c \in Clients : c \in offered ~> (TakenUp \/ connection[c] = "gone" \/ stop)

=============================================================================
