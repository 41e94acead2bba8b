--------------------------- MODULE TerminalProofs ---------------------------
(***************************************************************************)
(* Three of the terminals' queues, each for any size.                      *)
(*                                                                         *)
(* StartupClaim: the pane cap, the account of reserved slots and the       *)
(* uniqueness of the startup batch.  TermRouter: the ceilings of an attach *)
(* connection's inboxes and the order in every one of them.  TermSocket:   *)
(* the frames and messages of a terminal socket, its batch and its         *)
(* silence.  The last two say what a queue carries by replacing every      *)
(* entry by a list and flattening the lists; the lemmas on that stand      *)
(* before them.                                                            *)
(***************************************************************************)
EXTENDS StartupClaim, TermRouter, TermSocket, SequenceTheorems, WellFoundedInduction, TLAPS

\* A slot the worker found free is still below the cap when it takes it: only
\* the worker opens panes.
CapInv ==
    /\ live <= MaxPtys
    /\ worker.pc \in {"creating", "open"} => live < MaxPtys

\* The connection's thread holds the `started` flag.
Busy(c) == claim[c].pc \in {"reserve", "submit", "release", "hand back"}

\* The claim is in one place at a time: a connection's thread, the queue or the
\* worker; and each place holds slots only where the code says so.
ClaimInv ==
    /\ \A c, d \in Clients : Busy(c) /\ Busy(d) => c = d
    /\ \A c \in Clients : Busy(c) => started /\ Batches = {} /\ ~OpeningBatch
    /\ BatchUnique
    /\ \A c \in Clients : claim[c].pc \notin {"submit", "release"} => claim[c].held = 0
    /\ ~OpeningBatch => worker.held = 0

\* What `reserved` counts, by where the claim is.
ReservedInv ==
    worker.pc # "gone" =>
        /\ \A c \in Clients : Busy(c) => reserved = claim[c].held
        /\ \A i \in Batches : reserved = commands[i].held
        /\ OpeningBatch => reserved = worker.held
        /\ (\A c \in Clients : ~Busy(c)) /\ Batches = {} /\ ~OpeningBatch => reserved = 0

IInv == TypeOK /\ CapInv /\ ClaimInv /\ ReservedInv

----------------------------------------------------------------------------
(* The queue *)

\* Queueing a create adds no batch.
LEMMA AppendCreate ==
    ASSUME commands \in Seq(Commands), commands' = Append(commands, Create)
    PROVE  /\ commands' \in Seq(Commands)
           /\ Batches' = Batches
           /\ \A i \in Batches : commands'[i] = commands[i]
BY DEF Commands, Create, Batches

\* Queueing a batch where there is none makes it the only one.
LEMMA AppendStartup ==
    ASSUME commands \in Seq(Commands), NEW held \in Nat, Batches = {},
           commands' = Append(commands, CreateStartup(held))
    PROVE  /\ commands' \in Seq(Commands)
           /\ Batches' = {Len(commands) + 1}
           /\ \A i \in Batches' : commands'[i].held = held
BY DEF Commands, CreateStartup, Batches

\* Taking the first command leaves the others one place further on.
LEMMA TakeFirst ==
    ASSUME commands \in Seq(Commands), commands # <<>>, commands' = Tail(commands)
    PROVE  /\ commands' \in Seq(Commands)
           /\ \A i \in Batches' : i + 1 \in Batches /\ commands'[i] = commands[i + 1]
           /\ \A i \in Batches : i # 1 => i - 1 \in Batches'
BY DEF Commands, Batches

\* Nothing that the invariant reads has changed.
LEMMA Unaffected ==
    ASSUME IInv, TypeOK', UNCHANGED <<started, live, reserved, commands, worker, claim>>
    PROVE  IInv'
BY DEF IInv, CapInv, ClaimInv, ReservedInv, Busy, Batches, OpeningBatch, BatchUnique

----------------------------------------------------------------------------
(* The connections *)

\* Attaching, leaving and answering touch neither slots nor batch.
LEMMA ConnectionsStep ==
    ASSUME IInv, NEW c \in Clients,
           ConnectListed(c) \/ Disconnect(c) \/ Answer(c) \/ ConnectStep(c)
    PROVE  IInv'
<1>1. TypeOK'
  <2>1. FlagsOK'
    BY DEF IInv, TypeOK, FlagsOK, ConnectListed, Disconnect, Answer, ConnectStep,
           ConnectDecides, ConnectOffers
  <2>2. CASE ConnectListed(c) \/ ConnectStep(c)
    BY <2>1, <2>2 DEF IInv, TypeOK, ConnectListed, ConnectStep, ConnectDecides, ConnectOffers
  <2>3. CASE Disconnect(c)
    BY <2>1, <2>3 DEF IInv, TypeOK, Disconnect
  <2>4. CASE Answer(c)
    <3>1. starts' \in [Clients -> Nat]
      BY <2>4 DEF IInv, TypeOK, Answer
    <3> QED BY <2>1, <2>4, <3>1 DEF IInv, TypeOK, Answer
  <2> QED BY <2>2, <2>3, <2>4
<1>2. UNCHANGED <<started, live, reserved, commands, worker, claim>>
  BY DEF ConnectListed, Disconnect, Answer, ConnectStep, ConnectDecides, ConnectOffers
<1> QED BY <1>1, <1>2, Unaffected

\* The stop flag touches neither slots nor batch.
LEMMA StopStep ==
    ASSUME IInv, Stop
    PROVE  IInv'
<1>1. TypeOK'
  <2>1. FlagsOK'
    BY DEF IInv, TypeOK, FlagsOK, Stop
  <2> QED BY <2>1 DEF IInv, TypeOK, Stop, connectionVars
<1> QED BY <1>1, Unaffected DEF Stop

\* A create that is queued holds no slots.
LEMMA AskCreateStep ==
    ASSUME IInv, AskCreate
    PROVE  IInv'
<1>1. CASE UNCHANGED commands
  <2>1. TypeOK'
    BY <1>1 DEF IInv, TypeOK, FlagsOK, AskCreate, connectionVars
  <2> QED BY <1>1, <2>1, Unaffected DEF AskCreate
<1>2. CASE commands' = Append(commands, Create)
  <2>1. commands \in Seq(Commands)
    BY DEF IInv, TypeOK, Commands
  <2>2. /\ commands' \in Seq(Commands) /\ Batches' = Batches
        /\ \A i \in Batches : commands'[i] = commands[i]
    BY <1>2, <2>1, AppendCreate
  <2>3. UNCHANGED <<started, live, reserved, worker, claim>>
    BY DEF AskCreate
  <2>4. TypeOK'
    BY <2>2 DEF IInv, TypeOK, FlagsOK, AskCreate, connectionVars
  <2>5. CapInv'
    BY <2>3 DEF IInv, CapInv
  <2>6. ClaimInv'
    BY <2>2, <2>3 DEF IInv, ClaimInv, Busy, OpeningBatch, BatchUnique
  <2>7. ReservedInv'
    BY <2>2, <2>3 DEF IInv, ReservedInv, Busy, OpeningBatch
  <2> QED BY <2>4, <2>5, <2>6, <2>7 DEF IInv
<1> QED BY <1>1, <1>2 DEF AskCreate

----------------------------------------------------------------------------
(* claim_startup *)

\* One connection at a time gets past the flag.
LEMMA ClaimFlagStep ==
    ASSUME IInv, NEW c \in Clients, ClaimFlag(c)
    PROVE  IInv'
<1> USE DEF ClaimFlag, ClaimWins
<1>1. TypeOK'
  <2>1. FlagsOK'
    BY DEF IInv, TypeOK, FlagsOK
  <2>2. claim' \in [Clients -> Claims]
    BY DEF IInv, TypeOK, Claims
  <2> QED BY <2>1, <2>2 DEF IInv, TypeOK, connectionVars
<1>2. UNCHANGED <<live, reserved, commands, worker>> /\ Batches' = Batches
  BY DEF Batches
<1>3. CapInv'
  BY <1>2 DEF IInv, CapInv
<1>4. ClaimInv' /\ ReservedInv'
  <2>1. CASE started
    BY <1>2, <2>1 DEF IInv, ClaimInv, ReservedInv, Busy, OpeningBatch, BatchUnique
  <2>2. CASE ~started
    <3>1. (\A d \in Clients : ~Busy(d)) /\ Batches = {} /\ ~OpeningBatch
      BY <2>2 DEF IInv, ClaimInv, BatchUnique
    <3>2. claim'[c].pc = "reserve" /\ claim'[c].held = 0
      BY <2>2 DEF IInv, TypeOK, ClaimInv, Claims
    <3>3. \A d \in Clients : d # c => claim'[d] = claim[d]
      BY <2>2 DEF IInv, TypeOK
    <3>4. worker.pc # "gone" => reserved = 0
      BY <3>1 DEF IInv, ReservedInv
    <3>5. started' /\ Batches' = {} /\ ~OpeningBatch'
      BY <3>1, <1>2 DEF OpeningBatch
    <3>6. \A d \in Clients : Busy(d)' => d = c
      BY <3>1, <3>3 DEF Busy
    <3>7. ClaimInv'
      <4>1. BatchUnique'
        BY <3>5 DEF BatchUnique
      <4>2. ~OpeningBatch' => worker'.held = 0
        BY <1>2 DEF IInv, ClaimInv, OpeningBatch
      <4>3. \A d \in Clients : claim'[d].pc \notin {"submit", "release"} => claim'[d].held = 0
        BY <3>2, <3>3 DEF IInv, ClaimInv
      <4> QED BY <3>5, <3>6, <4>1, <4>2, <4>3 DEF ClaimInv
    <3>8. ReservedInv'
      BY <1>2, <3>2, <3>4, <3>5, <3>6 DEF ReservedInv, Busy
    <3> QED BY <3>7, <3>8
  <2> QED BY <2>1, <2>2
<1> QED BY <1>1, <1>3, <1>4 DEF IInv

\* The slots held for a batch are a natural number.
LEMMA SlotsToHoldType ==
    ASSUME TypeOK
    PROVE  SlotsToHold \in Nat
BY SizesAssumption DEF TypeOK, SlotsToHold, Smaller, Minus

\* A step of the claim that leaves it with its connection's thread.
LEMMA ClaimStays ==
    ASSUME IInv, TypeOK', NEW c \in Clients, Busy(c), Busy(c)',
           UNCHANGED <<started, live, commands, worker>>,
           \A d \in Clients \ {c} : claim'[d] = claim[d],
           claim'[c].pc \notin {"submit", "release"} => claim'[c].held = 0,
           worker.pc # "gone" => reserved' = claim'[c].held
    PROVE  IInv'
<1>1. started /\ Batches = {} /\ ~OpeningBatch
  BY DEF IInv, ClaimInv
<1>2. started' /\ Batches' = {} /\ ~OpeningBatch'
  BY <1>1 DEF Batches, OpeningBatch
<1>3. \A d \in Clients : Busy(d)' => d = c
  BY DEF IInv, ClaimInv, Busy
<1>4. ClaimInv'
  <2>1. BatchUnique'
    BY <1>2 DEF BatchUnique
  <2>2. ~OpeningBatch' => worker'.held = 0
    BY DEF IInv, ClaimInv, OpeningBatch
  <2>3. \A d \in Clients : claim'[d].pc \notin {"submit", "release"} => claim'[d].held = 0
    BY DEF IInv, ClaimInv
  <2> QED BY <1>2, <1>3, <2>1, <2>2, <2>3 DEF ClaimInv
<1>5. ReservedInv'
  BY <1>2, <1>3 DEF ReservedInv
<1>6. CapInv'
  BY DEF IInv, CapInv
<1> QED BY <1>4, <1>5, <1>6 DEF IInv

\* What is added to `reserved` is what the claim holds.
LEMMA ReserveSlotsStep ==
    ASSUME IInv, NEW c \in Clients, ReserveSlots(c)
    PROVE  IInv'
<1> USE DEF ReserveSlots
<1>1. SlotsToHold \in Nat
  BY SlotsToHoldType DEF IInv
<1>2. TypeOK'
  <2>1. claim' \in [Clients -> Claims]
    BY <1>1 DEF IInv, TypeOK, Claims
  <2> QED BY <1>1, <2>1 DEF IInv, TypeOK, FlagsOK, connectionVars
<1>3. claim'[c] = [pc |-> "submit", held |-> SlotsToHold]
  BY DEF IInv, TypeOK
<1>4. \A d \in Clients \ {c} : claim'[d] = claim[d]
  BY DEF IInv, TypeOK
<1>5. Busy(c) /\ Busy(c)'
  <2>1. claim[c].pc = "reserve" /\ claim'[c].pc = "submit"
    BY <1>3
  <2> QED BY <2>1 DEF Busy
<1>6. worker.pc # "gone" => reserved' = claim'[c].held
  <2>1. claim[c].held = 0
    BY DEF IInv, ClaimInv
  <2>2. worker.pc # "gone" => reserved = 0
    BY <1>5, <2>1 DEF IInv, ReservedInv
  <2> QED BY <1>1, <1>3, <2>2
<1> HIDE DEF ReserveSlots
<1>7. UNCHANGED <<started, live, commands, worker>>
  BY DEF ReserveSlots
<1> QED BY <1>2, <1>3, <1>4, <1>5, <1>6, <1>7, ClaimStays

\* The claim moves into the queue with its slots, or is refused with them.
LEMMA SubmitBatchStep ==
    ASSUME IInv, NEW c \in Clients, SubmitBatch(c)
    PROVE  IInv'
<1>1. claim[c].pc = "submit" /\ Busy(c)
  BY DEF SubmitBatch, Busy
<1>2. UNCHANGED <<started, live, reserved, worker>>
  BY DEF SubmitBatch
<1>3. started /\ Batches = {} /\ ~OpeningBatch /\ claim[c].held \in Nat
  BY <1>1 DEF IInv, ClaimInv, TypeOK, Claims
<1>4. \A d \in Clients \ {c} : ~Busy(d)
  BY <1>1 DEF IInv, ClaimInv
<1>5. CASE /\ commands' = Append(commands, CreateStartup(claim[c].held))
           /\ claim' = [claim EXCEPT ![c] = NoClaim] /\ worker.pc # "gone"
  <2>1. /\ commands' \in Seq(Commands) /\ Batches' = {Len(commands) + 1}
        /\ \A i \in Batches' : commands'[i].held = claim[c].held
    BY <1>3, <1>5, AppendStartup DEF IInv, TypeOK
  <2>2. claim' \in [Clients -> Claims]
    BY <1>5 DEF IInv, TypeOK, Claims, NoClaim
  <2>3. TypeOK'
    BY <2>1, <2>2 DEF IInv, TypeOK, FlagsOK, SubmitBatch, connectionVars
  <2>4. claim'[c].pc = "none" /\ claim'[c].held = 0
    BY <1>5 DEF IInv, TypeOK, NoClaim
  <2>5. \A d \in Clients \ {c} : claim'[d] = claim[d]
    BY <1>5 DEF IInv, TypeOK
  <2>6. \A d \in Clients : ~Busy(d)'
    BY <1>4, <2>4, <2>5 DEF Busy
  <2>7. ~OpeningBatch' /\ started'
    BY <1>2, <1>3 DEF OpeningBatch
  <2>8. ClaimInv'
    <3>1. BatchUnique'
      BY <2>1, <2>7 DEF BatchUnique
    <3>2. \A d \in Clients : claim'[d].pc \notin {"submit", "release"} => claim'[d].held = 0
      BY <2>4, <2>5 DEF IInv, ClaimInv
    <3>3. ~OpeningBatch' => worker'.held = 0
      BY <1>2, <1>3 DEF IInv, ClaimInv
    <3> QED BY <2>6, <3>1, <3>2, <3>3 DEF ClaimInv
  <2>9. ReservedInv'
    <3>1. reserved' = claim[c].held
      BY <1>1, <1>2, <1>5 DEF IInv, ReservedInv
    <3>2. Batches' # {}
      BY <2>1
    <3> QED BY <2>1, <2>6, <2>7, <3>1, <3>2 DEF ReservedInv
  <2>10. CapInv'
    BY <1>2 DEF IInv, CapInv
  <2> QED BY <2>3, <2>8, <2>9, <2>10 DEF IInv
<1>6. CASE claim' = [claim EXCEPT ![c].pc = "release"] /\ UNCHANGED commands
  <2>1. claim' \in [Clients -> Claims]
    BY <1>6 DEF IInv, TypeOK, Claims
  <2>2. TypeOK'
    BY <1>6, <2>1 DEF IInv, TypeOK, FlagsOK, SubmitBatch, connectionVars
  <2>3. claim'[c].pc = "release" /\ claim'[c].held = claim[c].held
    BY <1>6 DEF IInv, TypeOK, Claims
  <2>4. \A d \in Clients \ {c} : claim'[d] = claim[d]
    BY <1>6 DEF IInv, TypeOK
  <2>5. Busy(c)'
    BY <2>3 DEF Busy
  <2>6. worker.pc # "gone" => reserved' = claim'[c].held
    BY <1>1, <1>2, <2>3 DEF IInv, ReservedInv
  <2> QED BY <1>1, <1>2, <1>6, <2>2, <2>3, <2>4, <2>5, <2>6, ClaimStays
<1> QED BY <1>5, <1>6 DEF SubmitBatch

\* What a saturating subtraction leaves.
LEMMA MinusFacts ==
    ASSUME NEW m \in Nat, NEW n \in Nat
    PROVE  /\ Minus(m, n) \in Nat
           /\ m = n => Minus(m, n) = 0
           /\ n = 1 /\ m > 0 => Minus(m, n) = m - 1
BY DEF Minus

\* A refused claim gives back what it held.
LEMMA ReleaseClaimStep ==
    ASSUME IInv, NEW c \in Clients, ReleaseClaim(c)
    PROVE  IInv'
<1>1. claim[c].pc = "release" /\ Busy(c)
  BY DEF ReleaseClaim, Busy
<1>2. UNCHANGED <<started, live, commands, worker>>
  BY DEF ReleaseClaim
<1>3. claim[c].held \in Nat /\ reserved \in Nat
  BY DEF IInv, TypeOK, Claims
<1>4. reserved' = Minus(reserved, claim[c].held) /\ reserved' \in Nat
  BY <1>3, MinusFacts DEF ReleaseClaim, ReservedAfterRefusal
<1>5. claim' \in [Clients -> Claims]
  BY DEF IInv, TypeOK, Claims, ReleaseClaim
<1>6. TypeOK'
  BY <1>4, <1>5 DEF IInv, TypeOK, FlagsOK, ReleaseClaim, connectionVars
<1>7. claim'[c].pc = "hand back" /\ claim'[c].held = 0
  BY DEF IInv, TypeOK, ReleaseClaim
<1>8. \A d \in Clients \ {c} : claim'[d] = claim[d]
  BY DEF IInv, TypeOK, ReleaseClaim
<1>9. Busy(c)'
  BY <1>7 DEF Busy
<1>10. worker.pc # "gone" => reserved' = claim'[c].held
  BY <1>1, <1>3, <1>4, <1>7, MinusFacts DEF IInv, ReservedInv
<1> QED BY <1>1, <1>2, <1>6, <1>7, <1>8, <1>9, <1>10, ClaimStays

\* The flag is cleared only when the claim holds nothing.
LEMMA HandBackStep ==
    ASSUME IInv, NEW c \in Clients, HandBack(c)
    PROVE  IInv'
<1>1. claim[c].pc = "hand back" /\ Busy(c) /\ claim[c].held = 0
  <2>1. claim[c].pc = "hand back"
    BY DEF HandBack
  <2> QED BY <2>1 DEF Busy, IInv, ClaimInv
<1>2. UNCHANGED <<live, reserved, commands, worker>> /\ Batches' = Batches
  BY DEF HandBack, Batches
<1>3. claim' \in [Clients -> Claims]
  BY DEF IInv, TypeOK, Claims, HandBack
<1>4. FlagsOK'
  BY DEF IInv, TypeOK, FlagsOK, HandBack
<1>5. TypeOK'
  BY <1>3, <1>4 DEF IInv, TypeOK, HandBack, connectionVars
<1>6. claim'[c].pc = "offer again" /\ claim'[c].held = 0
  BY <1>1 DEF IInv, TypeOK, Claims, HandBack
<1>7. \A d \in Clients \ {c} : claim'[d] = claim[d]
  BY DEF IInv, TypeOK, HandBack
<1>8. \A d \in Clients : ~Busy(d)'
  BY <1>1, <1>6, <1>7 DEF IInv, ClaimInv, Busy
<1>9. Batches' = {} /\ ~OpeningBatch'
  BY <1>1, <1>2 DEF IInv, ClaimInv, OpeningBatch
<1>10. ClaimInv'
  <2>1. BatchUnique'
    BY <1>9 DEF BatchUnique
  <2>2. \A d \in Clients : claim'[d].pc \notin {"submit", "release"} => claim'[d].held = 0
    BY <1>6, <1>7 DEF IInv, ClaimInv
  <2>3. ~OpeningBatch' => worker'.held = 0
    BY <1>2 DEF IInv, ClaimInv, OpeningBatch
  <2> QED BY <1>8, <2>1, <2>2, <2>3 DEF ClaimInv
<1>11. ReservedInv'
  <2>1. worker.pc # "gone" => reserved = 0
    BY <1>1 DEF IInv, ReservedInv
  <2> QED BY <1>2, <1>8, <1>9, <2>1 DEF ReservedInv
<1>12. CapInv'
  BY <1>2 DEF IInv, CapInv
<1> QED BY <1>5, <1>10, <1>11, <1>12 DEF IInv

\* Offering the terminals again touches neither slots nor batch.
LEMMA BroadcastStep ==
    ASSUME IInv, NEW c \in Clients, BroadcastPending(c)
    PROVE  IInv'
<1>1. claim[c].pc = "offer again"
  BY DEF BroadcastPending
<1>2. UNCHANGED <<started, live, reserved, commands, worker>> /\ Batches' = Batches
  BY DEF BroadcastPending, Batches
<1>3. claim' \in [Clients -> Claims]
  BY DEF IInv, TypeOK, Claims, BroadcastPending, NoClaim
<1>4. TypeOK'
  BY <1>3 DEF IInv, TypeOK, FlagsOK, BroadcastPending, Reoffered
<1>5. claim'[c].pc = "none" /\ claim'[c].held = 0
  BY DEF IInv, TypeOK, BroadcastPending, NoClaim
<1>6. \A d \in Clients \ {c} : claim'[d] = claim[d]
  BY DEF IInv, TypeOK, BroadcastPending
<1>7. \A d \in Clients : Busy(d)' <=> Busy(d)
  BY <1>1, <1>5, <1>6 DEF Busy
<1>8. OpeningBatch' <=> OpeningBatch
  BY <1>2 DEF OpeningBatch
<1>9. ClaimInv'
  <2>1. \A d \in Clients : claim'[d].pc \notin {"submit", "release"} => claim'[d].held = 0
    BY <1>5, <1>6 DEF IInv, ClaimInv
  <2> QED BY <1>2, <1>7, <1>8, <2>1 DEF IInv, ClaimInv, BatchUnique
<1>10. ReservedInv'
  <2>1. \A d \in Clients : Busy(d) => claim'[d] = claim[d]
    BY <1>1, <1>6 DEF Busy
  <2> QED BY <1>2, <1>7, <1>8, <2>1 DEF IInv, ReservedInv
<1>11. CapInv'
  BY <1>2 DEF IInv, CapInv
<1> QED BY <1>4, <1>9, <1>10, <1>11 DEF IInv

----------------------------------------------------------------------------
(* The worker *)

\* A step of the worker that is neither in the batch before nor after it and
\* touches neither the slots nor the batches of the queue.
LEMMA WorkerOutsideBatch ==
    ASSUME IInv, TypeOK', CapInv',
           UNCHANGED <<started, reserved, claim>>, Batches' = Batches,
           \A i \in Batches : commands'[i] = commands[i],
           ~OpeningBatch, ~OpeningBatch', worker'.held = 0, worker.pc # "gone"
    PROVE  IInv'
<1>1. \A d \in Clients : Busy(d)' <=> Busy(d)
  BY DEF Busy
<1>2. ClaimInv'
  BY <1>1 DEF IInv, ClaimInv, BatchUnique
<1>3. ReservedInv'
  BY <1>1 DEF IInv, ReservedInv
<1> QED BY <1>2, <1>3 DEF IInv

\* A step of the worker inside the batch.
LEMMA WorkerInBatch ==
    ASSUME IInv, TypeOK', CapInv', UNCHANGED <<started, claim, commands>>,
           OpeningBatch, OpeningBatch', reserved' = worker'.held
    PROVE  IInv'
<1>1. \A d \in Clients : ~Busy(d) /\ ~Busy(d)'
  BY DEF IInv, ClaimInv, Busy
<1>2. Batches = {} /\ started
  BY DEF IInv, ClaimInv, BatchUnique
<1>3. Batches' = {} /\ started'
  BY <1>2 DEF Batches
<1>4. ClaimInv'
  BY <1>1, <1>3 DEF IInv, ClaimInv, BatchUnique
<1>5. ReservedInv'
  BY <1>1, <1>3 DEF ReservedInv
<1> QED BY <1>4, <1>5 DEF IInv

\* What the invariant says of a worker inside the batch.
LEMMA BatchSlots ==
    ASSUME IInv, OpeningBatch
    PROVE  reserved = worker.held /\ worker.held \in Nat /\ live \in Nat
<1>1. worker.pc # "gone"
  BY DEF OpeningBatch
<1> QED BY <1>1 DEF IInv, ReservedInv, TypeOK, Workers

\* A create goes on only where a slot is free.
LEMMA TakeCreateStep ==
    ASSUME IInv, TakeCreate
    PROVE  IInv'
<1>1. commands # <<>> /\ commands \in Seq(Commands) /\ commands' = Tail(commands)
  BY DEF TakeCreate, IInv, TypeOK
<1>2. /\ commands' \in Seq(Commands)
      /\ \A i \in Batches' : i + 1 \in Batches /\ commands'[i] = commands[i + 1]
      /\ \A i \in Batches : i # 1 => i - 1 \in Batches'
  BY <1>1, TakeFirst
<1>3. 1 \notin Batches
  BY <1>1 DEF TakeCreate, Batches
<1>4. worker' \in Workers
  BY DEF TakeCreate, IInv, TypeOK, Workers
<1>5. TypeOK'
  BY <1>2, <1>4 DEF TakeCreate, IInv, TypeOK, FlagsOK, connectionVars
<1>6. worker'.held = worker.held /\ worker'.pc \in {"idle", "creating"}
  BY DEF TakeCreate, IInv, TypeOK, Workers
<1>7. worker.pc = "idle" /\ UNCHANGED <<started, live, reserved, claim>>
  BY DEF TakeCreate
<1>8. ~OpeningBatch /\ ~OpeningBatch'
  BY <1>6, <1>7 DEF OpeningBatch
<1>9. CapInv'
  <2>1. CASE HasFreeSlot
    BY <1>7, <2>1, SizesAssumption DEF IInv, CapInv, HasFreeSlot, TypeOK
  <2>2. CASE ~HasFreeSlot
    BY <1>7, <2>2 DEF IInv, CapInv, TakeCreate
  <2> QED BY <2>1, <2>2
<1>10. ClaimInv'
  <2>1. \A d \in Clients : Busy(d)' <=> Busy(d)
    BY <1>7 DEF Busy
  <2>2. \A i, j \in Batches' : i = j
    <3> SUFFICES ASSUME NEW i \in Batches', NEW j \in Batches' PROVE i = j
      OBVIOUS
    <3>1. i + 1 = j + 1
      BY <1>2 DEF IInv, ClaimInv, BatchUnique
    <3>2. i \in Nat /\ j \in Nat
      BY <1>2 DEF Batches
    <3> QED BY <3>1, <3>2
  <2>3. Batches' # {} => Batches # {}
    BY <1>2
  <2>4. BatchUnique'
    BY <1>7, <1>8, <2>2, <2>3 DEF BatchUnique, IInv, ClaimInv
  <2> QED BY <1>6, <1>7, <1>8, <2>1, <2>3, <2>4 DEF IInv, ClaimInv
<1>11. ReservedInv'
  <2>1. \A d \in Clients : Busy(d)' <=> Busy(d)
    BY <1>7 DEF Busy
  <2>2. Batches' = {} => Batches = {}
    BY <1>2, <1>3
  <2>3. worker.pc # "gone"
    BY <1>7
  <2> QED BY <1>2, <1>7, <1>8, <2>1, <2>2, <2>3 DEF IInv, ReservedInv
<1> QED BY <1>5, <1>9, <1>10, <1>11 DEF IInv

\* The slot that was free is still free when the pane is registered.
LEMMA FinishCreateStep ==
    ASSUME IInv, FinishCreate
    PROVE  IInv'
<1>1. worker.pc = "creating" /\ worker' = Idle /\ UNCHANGED <<started, reserved, commands, claim>>
  BY DEF FinishCreate
<1>2. worker' \in Workers /\ worker'.held = 0 /\ worker'.pc = "idle"
  BY <1>1 DEF Workers, Idle
<1>3. TypeOK'
  BY <1>2 DEF FinishCreate, IInv, TypeOK, FlagsOK, connectionVars
<1>4. CapInv'
  BY <1>1, <1>2, SizesAssumption DEF FinishCreate, IInv, CapInv, TypeOK
<1>5. ~OpeningBatch /\ ~OpeningBatch' /\ worker.pc # "gone"
  BY <1>1, <1>2 DEF OpeningBatch
<1>6. Batches' = Batches
  BY <1>1 DEF Batches
<1> QED BY <1>1, <1>2, <1>3, <1>4, <1>5, <1>6, WorkerOutsideBatch

\* A pane that leaves frees a slot.
LEMMA PaneLeavesStep ==
    ASSUME IInv, PaneLeaves
    PROVE  IInv'
<1>1. worker.pc = "idle" /\ UNCHANGED <<started, reserved, commands, claim, worker>>
  BY DEF PaneLeaves
<1>2. TypeOK'
  BY DEF PaneLeaves, IInv, TypeOK, FlagsOK, connectionVars
<1>3. CapInv'
  BY SizesAssumption DEF PaneLeaves, IInv, CapInv, TypeOK
<1>4. ~OpeningBatch /\ ~OpeningBatch' /\ worker.pc # "gone"
  BY <1>1 DEF OpeningBatch
<1>5. Batches' = Batches /\ worker'.held = 0
  BY <1>1, <1>4 DEF Batches, IInv, ClaimInv
<1> QED BY <1>1, <1>2, <1>3, <1>4, <1>5, WorkerOutsideBatch

\* The batch moves from the queue to the worker with its slots.
LEMMA TakeStartupStep ==
    ASSUME IInv, TakeStartup
    PROVE  IInv'
<1>1. commands # <<>> /\ commands \in Seq(Commands) /\ commands' = Tail(commands)
  BY DEF TakeStartup, IInv, TypeOK
<1>2. /\ commands' \in Seq(Commands)
      /\ \A i \in Batches' : i + 1 \in Batches
  BY <1>1, TakeFirst
<1>3. 1 \in Batches /\ commands[1].held \in Nat
  <2>1. 1 \in DOMAIN commands /\ Head(commands) = commands[1] /\ commands[1] \in Commands
    BY <1>1
  <2> QED BY <2>1 DEF TakeStartup, Batches, Commands
<1>4. Batches' = {}
  <2> SUFFICES ASSUME NEW i \in Batches' PROVE FALSE
    OBVIOUS
  <2>1. i + 1 = 1
    BY <1>2, <1>3 DEF IInv, ClaimInv, BatchUnique
  <2>2. i \in Nat /\ i > 0
    BY <1>2 DEF Batches
  <2> QED BY <2>1, <2>2
<1>5. worker' \in Workers /\ worker'.held = commands[1].held /\ worker'.pc = "next"
  BY <1>1, <1>3, SizesAssumption DEF TakeStartup, Workers
<1>6. TypeOK'
  BY <1>2, <1>5 DEF TakeStartup, IInv, TypeOK, FlagsOK, connectionVars
<1>7. UNCHANGED <<started, live, reserved, claim>> /\ worker.pc = "idle"
  BY DEF TakeStartup
<1>8. OpeningBatch' /\ started'
  BY <1>3, <1>5, <1>7 DEF OpeningBatch, IInv, ClaimInv, BatchUnique
<1>9. \A d \in Clients : ~Busy(d)'
  BY <1>3, <1>7 DEF IInv, ClaimInv, Busy
<1>10. CapInv'
  BY <1>5, <1>7 DEF IInv, CapInv
<1>11. ClaimInv'
  <2>1. \A d \in Clients : claim'[d].pc \notin {"submit", "release"} => claim'[d].held = 0
    BY <1>7 DEF IInv, ClaimInv
  <2> QED BY <1>4, <1>8, <1>9, <2>1 DEF ClaimInv, BatchUnique
<1>12. ReservedInv'
  <2>1. reserved = commands[1].held
    BY <1>3, <1>7 DEF IInv, ReservedInv
  <2> QED BY <1>4, <1>5, <1>7, <1>8, <1>9, <2>1 DEF ReservedInv
<1> QED BY <1>6, <1>10, <1>11, <1>12 DEF IInv

\* A slot of the batch is given back just before its pane is opened.
LEMMA SpendReservationStep ==
    ASSUME IInv, SpendReservation
    PROVE  IInv'
<1>1. OpeningBatch
  BY DEF SpendReservation, OpeningBatch
<1>2. reserved = worker.held /\ worker.held \in Nat /\ live \in Nat
  BY <1>1, BatchSlots
<1>3. worker'.pc = "check" /\ UNCHANGED <<started, live, claim, commands>>
  BY DEF SpendReservation
<1>4. reserved' = worker'.held /\ reserved' \in Nat /\ worker'.held \in Nat
  BY <1>2 DEF SpendReservation, Minus
<1>5. worker' \in Workers
  <2>1. worker.left \in Nat /\ worker.left > 0
    BY DEF SpendReservation, Workers, IInv, TypeOK
  <2>2. worker.left - 1 \in Nat /\ (worker.held > 0) \in BOOLEAN
    BY <2>1
  <2> QED BY <1>2, <2>2 DEF SpendReservation, Workers
<1>6. TypeOK'
  BY <1>4, <1>5 DEF SpendReservation, IInv, TypeOK, FlagsOK, connectionVars
<1>7. CapInv' /\ OpeningBatch'
  BY <1>3 DEF IInv, CapInv, OpeningBatch
<1> QED BY <1>1, <1>3, <1>4, <1>6, <1>7, WorkerInBatch

\* A pane of the batch is opened only below the cap.
LEMMA CheckSlotStep ==
    ASSUME IInv, CheckSlot
    PROVE  IInv'
<1>1. OpeningBatch
  BY DEF CheckSlot, OpeningBatch
<1>2. reserved = worker.held /\ worker.held \in Nat /\ live \in Nat
  BY <1>1, BatchSlots
<1>3. UNCHANGED <<started, live, claim, commands, reserved>>
  BY DEF CheckSlot
<1>4. worker' \in Workers /\ worker'.held = worker.held
      /\ worker'.pc = IF StartupFits THEN "open" ELSE "hand back"
  BY DEF CheckSlot, Workers, IInv, TypeOK
<1>5. TypeOK'
  BY <1>4 DEF CheckSlot, IInv, TypeOK, FlagsOK, connectionVars
<1>6. CapInv'
  <2>1. CASE StartupFits
    BY <1>2, <1>3, <2>1, SizesAssumption DEF IInv, CapInv, StartupFits, HasFreeSlot
  <2>2. CASE ~StartupFits
    BY <1>3, <1>4, <2>2 DEF IInv, CapInv
  <2> QED BY <2>1, <2>2
<1>7. OpeningBatch'
  BY <1>4 DEF OpeningBatch
<1> QED BY <1>1, <1>2, <1>3, <1>4, <1>5, <1>6, <1>7, WorkerInBatch

\* The slot found below the cap is still there when the pane is registered.
LEMMA OpenStartupPaneStep ==
    ASSUME IInv, OpenStartupPane
    PROVE  IInv'
<1>1. OpeningBatch
  BY DEF OpenStartupPane, OpeningBatch
<1>2. reserved = worker.held /\ worker.held \in Nat /\ live \in Nat
  BY <1>1, BatchSlots
<1>3. UNCHANGED <<started, claim, commands, reserved>>
  BY DEF OpenStartupPane
<1>4. worker' \in Workers /\ worker'.held = worker.held /\ worker'.pc = "next"
  BY DEF OpenStartupPane, Workers, IInv, TypeOK
<1>5. TypeOK'
  BY <1>2, <1>4 DEF OpenStartupPane, IInv, TypeOK, FlagsOK, connectionVars
<1>6. CapInv'
  BY <1>2, <1>4, SizesAssumption DEF OpenStartupPane, IInv, CapInv
<1>7. OpeningBatch'
  BY <1>4 DEF OpeningBatch
<1> QED BY <1>1, <1>2, <1>3, <1>4, <1>5, <1>6, <1>7, WorkerInBatch

\* A batch that is through holds nothing.
LEMMA FinishStartupStep ==
    ASSUME IInv, FinishStartup
    PROVE  IInv'
<1>1. OpeningBatch
  BY DEF FinishStartup, OpeningBatch
<1>2. reserved = worker.held /\ worker.held \in Nat /\ live \in Nat
  BY <1>1, BatchSlots
<1>3. UNCHANGED <<started, live, claim, commands>>
  BY DEF FinishStartup
<1>4. reserved' = 0
  BY <1>2, MinusFacts DEF FinishStartup
<1>5. worker' \in Workers /\ worker'.held = 0 /\ worker'.pc = "idle"
  BY DEF FinishStartup, Workers, Idle
<1>6. TypeOK'
  <2>1. UNCHANGED <<started, live, commands, creates, stop, connection, offered, starts, claim>>
    BY DEF FinishStartup, connectionVars
  <2> QED BY <1>4, <1>5, <2>1 DEF IInv, TypeOK, FlagsOK
<1>7. CapInv' /\ ~OpeningBatch'
  BY <1>3, <1>5 DEF IInv, CapInv, OpeningBatch
<1>8. Batches' = {} /\ \A d \in Clients : ~Busy(d)'
  <2>1. Batches = {} /\ \A d \in Clients : ~Busy(d)
    BY <1>1 DEF IInv, ClaimInv, BatchUnique
  <2> QED BY <1>3, <2>1 DEF Batches, Busy
<1>9. ClaimInv'
  <2>1. \A d \in Clients : claim'[d].pc \notin {"submit", "release"} => claim'[d].held = 0
    BY <1>3 DEF IInv, ClaimInv
  <2> QED BY <1>5, <1>7, <1>8, <2>1 DEF ClaimInv, BatchUnique
<1>10. ReservedInv'
  BY <1>4, <1>7, <1>8 DEF ReservedInv
<1> QED BY <1>6, <1>7, <1>9, <1>10 DEF IInv

\* A worker that is gone opens nothing more.
LEMMA WorkerEndsStep ==
    ASSUME IInv, WorkerEnds
    PROVE  IInv'
<1>1. UNCHANGED <<started, reserved, claim>> /\ commands' = <<>> /\ live' = 0
  BY DEF WorkerEnds
<1>2. worker' \in Workers /\ worker'.held = 0 /\ worker'.pc = "gone"
  BY DEF WorkerEnds, Workers, Idle
<1>3. TypeOK'
  BY <1>1, <1>2 DEF WorkerEnds, IInv, TypeOK, FlagsOK, connectionVars
<1>4. CapInv' /\ ReservedInv' /\ ~OpeningBatch'
  BY <1>1, <1>2, SizesAssumption DEF CapInv, ReservedInv, OpeningBatch
<1>5. Batches' = {}
  BY <1>1 DEF Batches
<1>6. ClaimInv'
  <2>1. \A d \in Clients : Busy(d)' <=> Busy(d)
    BY <1>1 DEF Busy
  <2> QED BY <1>1, <1>2, <1>4, <1>5, <2>1 DEF IInv, ClaimInv, BatchUnique
<1> QED BY <1>3, <1>4, <1>6 DEF IInv

----------------------------------------------------------------------------
(* The theorems *)

\* IInv is an inductive invariant of the startup claim.
THEOREM Inductive == Spec => []IInv
<1>1. Init => IInv
  <2> SUFFICES ASSUME Init PROVE IInv
    OBVIOUS
  <2>1. worker \in Workers /\ worker.pc = "idle" /\ worker.held = 0
    BY DEF Init, Idle, Workers
  <2>2. claim \in [Clients -> Claims]
    BY DEF Init, NoClaim, Claims
  <2>3. \A c \in Clients : claim[c].pc = "none" /\ claim[c].held = 0
    BY DEF Init, NoClaim
  <2>4. commands \in Seq(Commands) /\ Batches = {}
    BY DEF Init, Batches
  <2>5. TypeOK
    BY <2>1, <2>2, <2>4 DEF Init, TypeOK, FlagsOK
  <2>6. CapInv /\ ~OpeningBatch
    BY <2>1, SizesAssumption DEF Init, CapInv, OpeningBatch
  <2>7. ClaimInv /\ ReservedInv
    BY <2>1, <2>3, <2>4, <2>6 DEF Init, ClaimInv, ReservedInv, BatchUnique, Busy
  <2> QED BY <2>5, <2>6, <2>7 DEF IInv
<1>2. IInv /\ [Next]_vars => IInv'
  <2> SUFFICES ASSUME IInv, [Next]_vars PROVE IInv'
    OBVIOUS
  <2>1. CASE \E c \in Clients : ConnectListed(c) \/ Disconnect(c) \/ Answer(c) \/ ConnectStep(c)
    BY <2>1, ConnectionsStep
  <2>2. CASE \E c \in Clients : ClaimStep(c)
    BY <2>2, ClaimFlagStep, ReserveSlotsStep, SubmitBatchStep, ReleaseClaimStep,
       HandBackStep, BroadcastStep DEF ClaimStep
  <2>3. CASE AskCreate \/ PaneLeaves \/ Stop
    BY <2>3, AskCreateStep, PaneLeavesStep, StopStep
  <2>4. CASE WorkerStep
    BY <2>4, TakeCreateStep, FinishCreateStep, TakeStartupStep, SpendReservationStep,
       CheckSlotStep, OpenStartupPaneStep, FinishStartupStep, WorkerEndsStep DEF WorkerStep
  <2>5. CASE UNCHANGED vars
    <3>1. TypeOK'
      BY <2>5 DEF vars, IInv, TypeOK, FlagsOK
    <3> QED BY <2>5, <3>1, Unaffected DEF vars
  <2> QED BY <2>1, <2>2, <2>3, <2>4, <2>5 DEF Next
<1> QED BY <1>1, <1>2, PTL DEF Spec

\* has_free_slot and register_pane are two critical sections, yet the worker
\* never opens a pane past the cap.
THEOREM CapIsKept == Spec => []CapHolds
<1>1. IInv => CapHolds
  BY DEF IInv, CapInv, CapHolds
<1> QED BY <1>1, Inductive, PTL

\* However a claim ends, `reserved` counts exactly the slots still held.
THEOREM ReservedIsAccountedFor == Spec => []ReservedAccounted
<1>1. IInv => ReservedAccounted
  <2> SUFFICES ASSUME IInv, worker.pc # "gone" PROVE ReservedAccounted
    BY DEF ReservedAccounted
  <2> DEFINE Held == \A c \in Clients : claim[c].held \in Nat
  <2>0. Held /\ worker.held \in Nat
    BY DEF IInv, TypeOK, Claims, Workers
  <2>1. \A c \in Claimants : reserved = claim[c].held
    <3> SUFFICES ASSUME NEW c \in Clients, claim[c].held > 0 PROVE reserved = claim[c].held
      BY DEF Claimants
    <3>1. claim[c].pc \in {"submit", "release"}
      BY DEF IInv, ClaimInv
    <3> QED BY <3>1 DEF Busy, IInv, ReservedInv
  <2>2. \A i \in Batches : reserved = commands[i].held
    BY DEF IInv, ReservedInv
  <2>3. worker.held > 0 => reserved = worker.held
    BY <2>0 DEF IInv, ClaimInv, ReservedInv
  <2>4. Claimants = {} /\ Batches = {} /\ worker.held = 0 => reserved = 0
    <3> SUFFICES ASSUME Claimants = {}, Batches = {}, worker.held = 0 PROVE reserved = 0
      OBVIOUS
    <3>1. \A c \in Clients : claim[c].held = 0
      <4> SUFFICES ASSUME NEW c \in Clients PROVE claim[c].held = 0
        OBVIOUS
      <4>1. c \notin Claimants
        OBVIOUS
      <4>2. ~(claim[c].held > 0)
        BY <4>1 DEF Claimants
      <4> QED BY <2>0, <4>2
    <3>2. CASE \E c \in Clients : Busy(c)
      BY <3>1, <3>2 DEF IInv, ReservedInv
    <3>3. CASE OpeningBatch
      BY <3>3 DEF IInv, ReservedInv
    <3>4. CASE (\A c \in Clients : ~Busy(c)) /\ ~OpeningBatch
      BY <3>4 DEF IInv, ReservedInv
    <3> QED BY <3>2, <3>3, <3>4
  <2> QED BY <2>1, <2>2, <2>3, <2>4 DEF ReservedAccounted
<1> QED BY <1>1, Inductive, PTL

\* Two clients answering at once, or a claim refused and taken again, never
\* produce a second batch of startup terminals.
THEOREM BatchIsUnique == Spec => []BatchUnique
<1>1. IInv => BatchUnique
  BY DEF IInv, ClaimInv
<1> QED BY <1>1, Inductive, PTL


----------------------------------------------------------------------------
(* Sequences of sequences, flattened. *)

\* A set of naturals that is not empty has a least element.
LEMMA LeastOf ==
    ASSUME NEW T, T \subseteq Nat, T # {}
    PROVE  \E x \in T : \A y \in T : x =< y
<1> DEFINE R == OpToRel(<, Nat)
<1>1. IsWellFoundedOn(R, Nat)
  BY NatLessThanWellFounded
<1>2. \A x, y \in Nat : y < x => <<y, x>> \in R
  BY DEF OpToRel
<1> HIDE DEF R
<1>3. PICK x \in T : \A y \in T : ~ (<<y, x>> \in R)
  BY <1>1, WFMin
<1>4. ASSUME NEW y \in T PROVE x =< y
  <2>1. x \in Nat /\ y \in Nat
    OBVIOUS
  <2>2. ~(y < x)
    BY <1>2, <1>3, <2>1
  <2> QED BY <2>1, <2>2
<1> QED BY <1>4

\* What holds of the empty list and is kept by one more entry holds of all lists.
LEMMA ListInduction ==
    ASSUME NEW S, NEW G, <<>> \in G,
           \A s \in Seq(S), e \in S : s \in G => Append(s, e) \in G
    PROVE  \A s \in Seq(S) : s \in G
<1> SUFFICES ASSUME NEW z \in Seq(S), z \notin G PROVE FALSE
  OBVIOUS
<1> DEFINE B == {s \in Seq(S) : s \notin G}
           T == {Len(s) : s \in B}
<1>1. T \subseteq Nat /\ T # {}
  OBVIOUS
<1>2. PICK n \in T : \A m \in T : n =< m
  BY <1>1, LeastOf
<1>3. PICK s \in B : n = Len(s)
  OBVIOUS
<1>4. s \in Seq(S) /\ s # <<>>
  OBVIOUS
<1>5. PICK t \in Seq(S), e \in S : s = Append(t, e)
  BY <1>4, SequenceEmptyOrAppend
<1>6. Len(t) < Len(s) /\ Len(t) \in Nat
  BY <1>5
<1>7. t \in G
  <2> SUFFICES ASSUME t \notin G PROVE FALSE
    OBVIOUS
  <2>1. t \in B
    OBVIOUS
  <2>2. Len(t) \in T
    BY <2>1
  <2> HIDE DEF T, B
  <2> QED BY <1>1, <1>2, <1>3, <1>6, <2>2
<1> QED BY <1>3, <1>5, <1>7

\* The beginnings of a list of lists, each flattened.
Flats(ss, f) == f = [i \in 1 .. Len(ss) |-> IF i = 1 THEN ss[i] ELSE f[i - 1] \o ss[i]]

\* Flattening ends with the last of the beginnings.
LEMMA FlatIs ==
    ASSUME NEW S, NEW ss \in Seq(Seq(S)), Len(ss) # 0
    PROVE  FlattenSeq(ss) = (CHOOSE f : Flats(ss, f))[Len(ss)]
BY Zenon DEF FlattenSeq, Flats

\* There is one list of beginnings.
LEMMA OneFlat ==
    ASSUME NEW S, NEW ss \in Seq(Seq(S)), NEW f, NEW g, Flats(ss, f), Flats(ss, g)
    PROVE  f = g
<1> DEFINE n == Len(ss)
           T == {i \in 1 .. n : f[i] # g[i]}
<1>1. n \in Nat /\ f = [i \in 1 .. n |-> f[i]] /\ g = [i \in 1 .. n |-> g[i]]
  BY Zenon, LenProperties DEF Flats
<1>2. \A i \in 1 .. n : f[i] = IF i = 1 THEN ss[i] ELSE f[i - 1] \o ss[i]
  BY DEF Flats
<1>3. \A i \in 1 .. n : g[i] = IF i = 1 THEN ss[i] ELSE g[i - 1] \o ss[i]
  BY DEF Flats
<1> HIDE DEF n
<1>4. CASE T = {}
  <2>1. \A i \in 1 .. n : f[i] = g[i]
    BY <1>4
  <2> HIDE DEF T
  <2> QED BY <1>1, <2>1
<1>5. CASE T # {}
  <2>1. T \subseteq Nat
    BY <1>1
  <2>2. PICK k \in T : \A m \in T : k =< m
    BY <1>5, <2>1, LeastOf
  <2>3. k \in 1 .. n /\ f[k] # g[k]
    OBVIOUS
  <2>4. k # 1
    BY <1>2, <1>3, <2>3
  <2>5. k - 1 \in 1 .. n /\ k - 1 \notin T
    BY <1>1, <2>2, <2>3, <2>4
  <2>6. f[k - 1] = g[k - 1]
    BY <2>5
  <2> HIDE DEF T
  <2>7. f[k] = f[k - 1] \o ss[k] /\ g[k] = g[k - 1] \o ss[k]
    BY <1>2, <1>3, <2>3, <2>4
  <2> QED BY <2>3, <2>6, <2>7
<1> QED BY <1>4, <1>5

\* One list more, one beginning more.
LEMMA FlatsGrow ==
    ASSUME NEW S, NEW ss \in Seq(Seq(S)), NEW s \in Seq(S), NEW f, Flats(ss, f)
    PROVE  \E g : /\ Flats(Append(ss, s), g)
                  /\ g[Len(ss) + 1] = IF ss = <<>> THEN s ELSE f[Len(ss)] \o s
<1> DEFINE n == Len(ss)
           more == Append(ss, s)
           g == [i \in 1 .. n + 1 |-> IF i = n + 1 THEN IF n = 0 THEN s ELSE f[n] \o s ELSE f[i]]
<1>1. /\ n \in Nat /\ Len(more) = n + 1 /\ more[n + 1] = s /\ (\A i \in 1 .. n : more[i] = ss[i])
      /\ (ss = <<>> <=> n = 0)
  BY DEF n, more
<1>2. \A i \in 1 .. n : f[i] = IF i = 1 THEN ss[i] ELSE f[i - 1] \o ss[i]
  BY DEF Flats
<1> HIDE DEF n, more
<1>3. g[n + 1] = (IF n = 0 THEN s ELSE f[n] \o s) /\ \A i \in 1 .. n : g[i] = f[i]
  BY <1>1
<1>4. g = [i \in 1 .. n + 1 |-> g[i]]
  OBVIOUS
<1> HIDE DEF g
<1>5. ASSUME NEW i \in 1 .. n + 1 PROVE g[i] = IF i = 1 THEN more[i] ELSE g[i - 1] \o more[i]
  <2>1. CASE i = n + 1 /\ n = 0
    BY <1>1, <1>3, <2>1
  <2>2. CASE i = n + 1 /\ n # 0
    <3>1. i # 1 /\ i - 1 = n /\ n \in 1 .. n
      BY <1>1, <2>2
    <3>2. g[n] = f[n] /\ g[i] = f[n] \o s /\ more[i] = s
      BY <1>1, <1>3, <2>2, <3>1
    <3> QED BY <3>1, <3>2
  <2>3. CASE i \in 1 .. n /\ i = 1
    BY <1>1, <1>2, <1>3, <2>3
  <2>4. CASE i \in 1 .. n /\ i # 1
    <3>1. i - 1 \in 1 .. n
      BY <1>1, <2>4
    <3>2. g[i] = f[i - 1] \o ss[i] /\ g[i - 1] = f[i - 1] /\ more[i] = ss[i]
      BY <1>1, <1>2, <1>3, <2>4, <3>1
    <3> QED BY <2>4, <3>2
  <2>5. i = n + 1 \/ i \in 1 .. n
    BY <1>1
  <2> QED BY <2>1, <2>2, <2>3, <2>4, <2>5
<1>6. Flats(more, g)
  BY <1>1, <1>4, <1>5 DEF Flats
<1> QED BY <1>1, <1>3, <1>6 DEF n, more

\* Every list of lists has its beginnings.
LEMMA FlatsExist == ASSUME NEW S, NEW ss \in Seq(Seq(S)) PROVE \E f : Flats(ss, f)
<1> DEFINE G == {t \in Seq(Seq(S)) : \E f : Flats(t, f)}
<1>1. <<>> \in G
  <2> DEFINE f == [i \in 1 .. 0 |-> <<>>]
  <2>1. Flats(<<>>, f)
    BY DEF Flats
  <2> HIDE DEF f
  <2> QED BY <2>1
<1>2. ASSUME NEW t \in Seq(Seq(S)), NEW e \in Seq(S), t \in G PROVE Append(t, e) \in G
  <2>1. PICK f : Flats(t, f)
    BY <1>2
  <2>2. Append(t, e) \in Seq(Seq(S))
    OBVIOUS
  <2> QED BY <2>1, <2>2, FlatsGrow
<1> HIDE DEF G
<1>3. ss \in G
  BY <1>1, <1>2, ListInduction
<1> QED BY <1>3 DEF G

\* Nothing flattened is nothing.
LEMMA FlatEmpty == FlattenSeq(<<>>) = <<>>
BY DEF FlattenSeq

\* A list more at the end is joined at the end.
LEMMA FlatMore ==
    ASSUME NEW S, NEW ss \in Seq(Seq(S)), NEW s \in Seq(S)
    PROVE  FlattenSeq(Append(ss, s)) = FlattenSeq(ss) \o s
<1> DEFINE f == CHOOSE g : Flats(ss, g)
           h == CHOOSE g : Flats(Append(ss, s), g)
<1>1. /\ Append(ss, s) \in Seq(Seq(S)) /\ Len(Append(ss, s)) = Len(ss) + 1
      /\ Len(Append(ss, s)) # 0 /\ (Len(ss) = 0 <=> ss = <<>>)
  OBVIOUS
<1>2. Flats(ss, f) /\ Flats(Append(ss, s), h)
  BY <1>1, FlatsExist
<1>3. FlattenSeq(Append(ss, s)) = h[Len(ss) + 1] /\ (ss # <<>> => FlattenSeq(ss) = f[Len(ss)])
  BY <1>1, FlatIs
<1> HIDE DEF f, h
<1>4. PICK g : /\ Flats(Append(ss, s), g)
               /\ g[Len(ss) + 1] = IF ss = <<>> THEN s ELSE f[Len(ss)] \o s
  BY <1>2, FlatsGrow
<1>5. g = h
  BY <1>1, <1>2, <1>4, OneFlat
<1>6. <<>> \o s = s
  BY ConcatEmptySeq
<1> QED BY <1>3, <1>4, <1>5, <1>6, FlatEmpty

\* Flattening gives a list of the same things.
LEMMA FlatType == ASSUME NEW S, NEW ss \in Seq(Seq(S)) PROVE FlattenSeq(ss) \in Seq(S)
<1> DEFINE G == {t \in Seq(Seq(S)) : FlattenSeq(t) \in Seq(S)}
<1>1. <<>> \in G
  <2>1. <<>> \in Seq(Seq(S)) /\ <<>> \in Seq(S)
    OBVIOUS
  <2> QED BY <2>1, FlatEmpty
<1>2. ASSUME NEW t \in Seq(Seq(S)), NEW e \in Seq(S), t \in G PROVE Append(t, e) \in G
  <2>1. Append(t, e) \in Seq(Seq(S))
    OBVIOUS
  <2>2. FlattenSeq(t) \o e \in Seq(S)
    BY <1>2, ConcatProperties
  <2> QED BY <2>1, <2>2, FlatMore
<1> HIDE DEF G
<1>3. ss \in G
  BY <1>1, <1>2, ListInduction
<1> QED BY <1>3 DEF G

\* Flattening two rows of lists joins what each gives.
LEMMA FlatConcat ==
    ASSUME NEW S, NEW a \in Seq(Seq(S)), NEW b \in Seq(Seq(S))
    PROVE  FlattenSeq(a \o b) = FlattenSeq(a) \o FlattenSeq(b)
<1> DEFINE G == {t \in Seq(Seq(S)) : FlattenSeq(a \o t) = FlattenSeq(a) \o FlattenSeq(t)}
<1>1. <<>> \in G
  <2>1. a \o <<>> = a /\ <<>> \in Seq(Seq(S))
    BY ConcatEmptySeq
  <2>2. FlattenSeq(a) \o <<>> = FlattenSeq(a)
    BY FlatType, ConcatEmptySeq
  <2> QED BY <2>1, <2>2, FlatEmpty
<1>2. ASSUME NEW t \in Seq(Seq(S)), NEW e \in Seq(S), t \in G PROVE Append(t, e) \in G
  <2>1. Append(t, e) \in Seq(Seq(S)) /\ a \o t \in Seq(Seq(S)) /\ a \o Append(t, e) = Append(a \o t, e)
    OBVIOUS
  <2>2. FlattenSeq(a) \in Seq(S) /\ FlattenSeq(t) \in Seq(S)
    BY FlatType
  <2>3. FlattenSeq(a \o Append(t, e)) = (FlattenSeq(a) \o FlattenSeq(t)) \o e
    BY <1>2, <2>1, FlatMore
  <2>4. FlattenSeq(Append(t, e)) = FlattenSeq(t) \o e
    BY FlatMore
  <2>5. (FlattenSeq(a) \o FlattenSeq(t)) \o e = FlattenSeq(a) \o (FlattenSeq(t) \o e)
    BY <2>2, ConcatAssociative, SMTT(30)
  <2> QED BY <2>1, <2>3, <2>4, <2>5
<1> HIDE DEF G
<1>3. b \in G
  BY <1>1, <1>2, ListInduction
<1> QED BY <1>3 DEF G

\* One list alone is itself.
LEMMA FlatOne == ASSUME NEW S, NEW s \in Seq(S) PROVE FlattenSeq(<<s>>) = s
<1>1. <<>> \in Seq(Seq(S)) /\ <<s>> = Append(<<>>, s)
  OBVIOUS
<1>2. FlattenSeq(<<s>>) = FlattenSeq(<<>>) \o s
  BY <1>1, FlatMore
<1> QED BY <1>2, FlatEmpty, ConcatEmptySeq

\* A list of one.
LEMMA OneType == ASSUME NEW M, NEW m \in M PROVE <<m>> \in Seq(M) /\ Len(<<m>>) = 1 /\ <<m>>[1] = m
OBVIOUS

\* Appending is joining a list of one.
LEMMA OneMore == ASSUME NEW M, NEW q \in Seq(M), NEW m \in M PROVE Append(q, m) = q \o <<m>>
BY AppendIsConcat

\* An entry replaced: what stands before and behind it stays.
LEMMA Around ==
    ASSUME NEW M, NEW q \in Seq(M), NEW r \in 1 .. Len(q), NEW m \in M
    PROVE  [q EXCEPT ![r] = m] = (SubSeq(q, 1, r - 1) \o <<m>>) \o SubSeq(q, r + 1, Len(q))
<1> DEFINE n == Len(q)
           front == SubSeq(q, 1, r - 1)
           back == SubSeq(q, r + 1, n)
           one == <<m>>
           ahead == front \o one
           all == ahead \o back
           new == [q EXCEPT ![r] = m]
<1>1. /\ n \in Nat /\ r \in 1 .. n /\ front \in Seq(M) /\ Len(front) = r - 1
      /\ back \in Seq(M) /\ Len(back) = n - r
      /\ (\A i \in 1 .. r - 1 : front[i] = q[i]) /\ (\A i \in 1 .. n - r : back[i] = q[r + i])
  OBVIOUS
<1>2. new \in Seq(M) /\ Len(new) = n /\ new[r] = m /\ \A i \in 1 .. n : i # r => new[i] = q[i]
  OBVIOUS
<1>3. one \in Seq(M) /\ Len(one) = 1 /\ one[1] = m
  BY OneType
<1>4. front \in Seq(M) /\ back \in Seq(M) /\ one \in Seq(M)
  BY <1>1, <1>3
<1> HIDE DEF n, front, back, new, one
<1>5. /\ ahead \in Seq(M) /\ Len(ahead) = Len(front) + Len(one)
      /\ (\A i \in 1 .. Len(front) : ahead[i] = front[i])
      /\ \A i \in 1 .. Len(one) : ahead[Len(front) + i] = one[i]
  BY ONLY <1>4 DEF ahead
<1>6. ahead \in Seq(M)
  BY <1>5
<1> HIDE DEF ahead
<1>7. /\ all \in Seq(M) /\ Len(all) = Len(ahead) + Len(back)
      /\ (\A i \in 1 .. Len(ahead) : all[i] = ahead[i])
      /\ \A i \in 1 .. Len(back) : all[Len(ahead) + i] = back[i]
  BY ONLY <1>4, <1>6 DEF all
<1>8. Len(ahead) = r /\ Len(all) = n
  BY <1>1, <1>3, <1>5, <1>7
<1> HIDE DEF all
<1>9. ASSUME NEW i \in 1 .. n PROVE all[i] = new[i]
  <2>1. CASE i \in 1 .. r - 1
    <3>1. i \in 1 .. Len(front) /\ i \in 1 .. Len(ahead) /\ i # r
      BY <1>1, <1>8, <2>1
    <3>2. all[i] = ahead[i] /\ ahead[i] = front[i]
      BY <1>5, <1>7, <3>1
    <3> QED BY <1>1, <1>2, <2>1, <3>1, <3>2
  <2>2. CASE i = r
    <3>1. 1 \in 1 .. Len(one) /\ Len(front) + 1 = r
      BY <1>1, <1>3
    <3>2. ahead[r] = m
      BY <1>3, <1>5, <3>1
    <3> QED BY <1>1, <1>2, <1>7, <1>8, <2>2, <3>2
  <2>3. CASE i \in r + 1 .. n
    <3>1. i - r \in 1 .. n - r /\ r + (i - r) = i
      BY <1>1, <2>3
    <3>2. back[i - r] = q[r + (i - r)]
      BY <1>1, <3>1
    <3>3. all[Len(ahead) + (i - r)] = back[i - r] /\ Len(ahead) + (i - r) = i
      BY <1>1, <1>7, <1>8, <3>1
    <3>4. new[i] = q[i]
      BY <1>1, <1>2, <2>3
    <3> QED BY <3>1, <3>2, <3>3, <3>4
  <2> QED BY <1>1, <2>1, <2>2, <2>3
<1>10. all = new
  BY <1>2, <1>7, <1>8, <1>9, SeqEqual
<1> QED BY <1>10 DEF n, front, back, one, ahead, all, new

\* A list cut in two.
LEMMA CutInTwo ==
    ASSUME NEW M, NEW q \in Seq(M), NEW n \in 0 .. Len(q)
    PROVE  /\ SubSeq(q, 1, n) \in Seq(M) /\ SubSeq(q, n + 1, Len(q)) \in Seq(M)
           /\ Len(SubSeq(q, 1, n)) = n /\ Len(SubSeq(q, n + 1, Len(q))) = Len(q) - n
           /\ q = SubSeq(q, 1, n) \o SubSeq(q, n + 1, Len(q))
<1> DEFINE k == Len(q)
           a == SubSeq(q, 1, n)
           b == SubSeq(q, n + 1, k)
<1>1. /\ k \in Nat /\ n \in 0 .. k /\ a \in Seq(M) /\ b \in Seq(M) /\ Len(a) = n /\ Len(b) = k - n
      /\ (\A i \in 1 .. n : a[i] = q[i]) /\ \A i \in 1 .. k - n : b[i] = q[n + i]
  OBVIOUS
<1>2. a \in Seq(M) /\ b \in Seq(M)
  BY <1>1
<1> HIDE DEF a, b
<1>3. /\ a \o b \in Seq(M) /\ Len(a \o b) = Len(a) + Len(b)
      /\ \A i \in 1 .. Len(a) : (a \o b)[i] = a[i]
      /\ \A i \in 1 .. Len(b) : (a \o b)[Len(a) + i] = b[i]
  BY ONLY <1>2
<1> DEFINE c == a \o b
<1>4. c \in Seq(M) /\ Len(c) = Len(q)
  BY <1>1, <1>3
<1> HIDE DEF k
<1>5. ASSUME NEW i \in 1 .. k PROVE c[i] = q[i]
  <2>1. CASE i \in 1 .. n
    BY <1>1, <1>3, <2>1
  <2>2. CASE i \in n + 1 .. k
    <3>1. i - n \in 1 .. k - n /\ n + (i - n) = i
      BY <1>1, <2>2
    <3>2. b[i - n] = q[i]
      BY <1>1, <3>1
    <3>3. c[n + (i - n)] = b[i - n]
      BY <1>1, <1>3, <3>1
    <3> QED BY <3>1, <3>2, <3>3
  <2> QED BY <1>1, <2>1, <2>2
<1> HIDE DEF c
<1>6. c = q
  BY <1>4, <1>5, SeqEqual DEF k
<1> QED BY <1>1, <1>6 DEF a, b, c, k

\* The same for a list of lists, flattened.
Before(ss, r) == FlattenSeq(SubSeq(ss, 1, r - 1))
Behind(ss, r) == FlattenSeq(SubSeq(ss, r + 1, Len(ss)))
Put(ss, r, s) == [ss EXCEPT ![r] = s]

\* One list of a row replaced: what the row says before and behind it stays.
LEMMA FlatAround ==
    ASSUME NEW S, NEW ss \in Seq(Seq(S)), NEW r \in 1 .. Len(ss), NEW s \in Seq(S)
    PROVE  /\ Before(ss, r) \in Seq(S) /\ Behind(ss, r) \in Seq(S)
           /\ FlattenSeq(ss) = (Before(ss, r) \o ss[r]) \o Behind(ss, r)
           /\ FlattenSeq(Put(ss, r, s)) = (Before(ss, r) \o s) \o Behind(ss, r)
<1> DEFINE front == SubSeq(ss, 1, r - 1)
           back == SubSeq(ss, r + 1, Len(ss))
<1>1. front \in Seq(Seq(S)) /\ back \in Seq(Seq(S)) /\ ss[r] \in Seq(S)
  OBVIOUS
<1>2. ss = (front \o <<ss[r]>>) \o back
  <2>1. [ss EXCEPT ![r] = ss[r]] = (front \o <<ss[r]>>) \o back
    BY <1>1, Around
  <2>2. [ss EXCEPT ![r] = ss[r]] = ss
    OBVIOUS
  <2> QED BY Zenon, <2>1, <2>2
<1>3. [ss EXCEPT ![r] = s] = (front \o <<s>>) \o back
  <2> DEFINE M == Seq(S)
  <2>1. ss \in Seq(M) /\ r \in 1 .. Len(ss) /\ s \in M
    OBVIOUS
  <2> HIDE DEF M
  <2> QED BY ONLY <2>1, Around
<1> HIDE DEF front, back
<1>4. ASSUME NEW t \in Seq(S)
      PROVE  FlattenSeq((front \o <<t>>) \o back) = (FlattenSeq(front) \o t) \o FlattenSeq(back)
  <2> DEFINE one == <<t>>
  <2>1. one \in Seq(Seq(S)) /\ FlattenSeq(one) = t
    BY OneType, FlatOne
  <2> HIDE DEF one
  <2>2. front \o one \in Seq(Seq(S))
    BY <1>1, <2>1
  <2>3. FlattenSeq(front \o one) = FlattenSeq(front) \o t
    BY <1>1, <2>1, FlatConcat
  <2>4. FlattenSeq((front \o one) \o back) = (FlattenSeq(front) \o t) \o FlattenSeq(back)
    BY <1>1, <2>2, <2>3, FlatConcat
  <2> QED BY <2>4 DEF one
<1>5. FlattenSeq(front) \in Seq(S) /\ FlattenSeq(back) \in Seq(S)
  BY <1>1, FlatType
<1>6. FlattenSeq(ss) = (FlattenSeq(front) \o ss[r]) \o FlattenSeq(back)
  BY <1>1, <1>2, <1>4
<1>7. FlattenSeq([ss EXCEPT ![r] = s]) = (FlattenSeq(front) \o s) \o FlattenSeq(back)
  BY <1>3, <1>4
<1> QED BY Zenon, <1>5, <1>6, <1>7 DEF front, back, Before, Behind, Put

\* Every entry replaced by a list, and the lists flattened.
Spread(f, q) == FlattenSeq([i \in DOMAIN q |-> f[q[i]]])
Spreads(M, S, f) == f \in [M -> Seq(S)]

\* Of no entries, nothing.
LEMMA SpreadEmpty == ASSUME NEW f PROVE Spread(f, <<>>) = <<>>
<1>1. [i \in DOMAIN <<>> |-> f[<<>>[i]]] = <<>>
  OBVIOUS
<1> QED BY <1>1, FlatEmpty DEF Spread

\* The lists the entries are replaced by.
LEMMA MapType ==
    ASSUME NEW M, NEW S, NEW f, Spreads(M, S, f), NEW q \in Seq(M)
    PROVE  [i \in DOMAIN q |-> f[q[i]]] \in Seq(Seq(S))
<1>1. DOMAIN q = 1 .. Len(q) /\ Len(q) \in Nat /\ \A i \in 1 .. Len(q) : q[i] \in M
  OBVIOUS
<1>2. [i \in 1 .. Len(q) |-> f[q[i]]] \in [1 .. Len(q) -> Seq(S)]
  BY <1>1 DEF Spreads
<1> QED BY <1>1, <1>2

\* The result is a list of what the entries stand for.
LEMMA SpreadType ==
    ASSUME NEW M, NEW S, NEW f, Spreads(M, S, f), NEW q \in Seq(M)
    PROVE  Spread(f, q) \in Seq(S)
<1>1. [i \in DOMAIN q |-> f[q[i]]] \in Seq(Seq(S))
  BY MapType
<1> QED BY <1>1, FlatType DEF Spread

\* Two lists in a row are replaced one after the other.
LEMMA SpreadConcat ==
    ASSUME NEW M, NEW S, NEW f, Spreads(M, S, f), NEW a \in Seq(M), NEW b \in Seq(M)
    PROVE  Spread(f, a \o b) = Spread(f, a) \o Spread(f, b)
<1> DEFINE A == [i \in DOMAIN a |-> f[a[i]]]
           B == [i \in DOMAIN b |-> f[b[i]]]
           C == [i \in DOMAIN (a \o b) |-> f[(a \o b)[i]]]
<1>1. A \in Seq(Seq(S)) /\ B \in Seq(Seq(S))
  BY MapType
<1>2. C \in Seq(Seq(S))
  <2>1. a \o b \in Seq(M)
    OBVIOUS
  <2> QED BY <2>1, MapType
<1>3. Len(A) = Len(a) /\ Len(B) = Len(b) /\ Len(C) = Len(a) + Len(b)
  <2>1. /\ DOMAIN a = 1 .. Len(a) /\ DOMAIN b = 1 .. Len(b)
        /\ DOMAIN (a \o b) = 1 .. (Len(a) + Len(b))
    OBVIOUS
  <2> QED BY <1>1, <1>2, <2>1
<1>4. ASSUME NEW i \in 1 .. Len(a) + Len(b) PROVE C[i] = (A \o B)[i]
  <2>1. C[i] = f[(a \o b)[i]]
    OBVIOUS
  <2>2. CASE i \in 1 .. Len(a)
    <3>1. (a \o b)[i] = a[i] /\ A[i] = f[a[i]]
      BY <2>2
    <3> HIDE DEF A, B, C
    <3>2. (A \o B)[i] = A[i]
      BY <1>1, <1>3, <2>2
    <3> QED BY <2>1, <3>1, <3>2
  <2>3. CASE i \notin 1 .. Len(a)
    <3>1. i - Len(a) \in 1 .. Len(b)
      BY <2>3
    <3>2. (a \o b)[i] = b[i - Len(a)] /\ B[i - Len(a)] = f[b[i - Len(a)]]
      BY <2>3, <3>1
    <3> HIDE DEF A, B, C
    <3>3. (A \o B)[i] = B[i - Len(a)]
      BY <1>1, <1>3, <2>3, <3>1
    <3> QED BY <2>1, <3>2, <3>3
  <2> QED BY <2>2, <2>3
<1> HIDE DEF A, B, C
<1>5. C = A \o B
  <2>1. A \o B \in Seq(Seq(S)) /\ Len(A \o B) = Len(A) + Len(B)
    BY Zenon, <1>1, ConcatProperties
  <2>2. Len(A \o B) = Len(a) + Len(b)
    BY <1>3, <2>1
  <2> QED BY <1>2, <1>3, <1>4, <2>1, <2>2, SeqEqual
<1>6. FlattenSeq(C) = FlattenSeq(A) \o FlattenSeq(B)
  BY <1>1, <1>5, FlatConcat
<1> QED BY <1>6 DEF Spread, A, B, C

\* A single entry is replaced by its list.
LEMMA SpreadOne ==
    ASSUME NEW M, NEW S, NEW f, Spreads(M, S, f), NEW m \in M
    PROVE  Spread(f, <<m>>) = f[m]
<1> DEFINE s == f[m]
<1>1. [i \in DOMAIN <<m>> |-> f[<<m>>[i]]] = <<s>>
  OBVIOUS
<1>2. s \in Seq(S)
  BY DEF Spreads
<1> HIDE DEF s
<1>3. FlattenSeq(<<s>>) = s
  BY <1>2, FlatOne
<1> QED BY Zenon, <1>1, <1>3 DEF Spread, s

\* An entry more is its list more.
LEMMA SpreadMore ==
    ASSUME NEW M, NEW S, NEW f, Spreads(M, S, f), NEW q \in Seq(M), NEW m \in M
    PROVE  Spread(f, Append(q, m)) = Spread(f, q) \o f[m]
<1> DEFINE one == <<m>>
<1>1. one \in Seq(M)
  BY OneType
<1>2. Spread(f, one) = f[m] /\ Append(q, m) = q \o one
  BY OneMore, SpreadOne
<1> HIDE DEF one
<1>3. Spread(f, q \o one) = Spread(f, q) \o Spread(f, one)
  BY <1>1, SpreadConcat
<1> QED BY Zenon, <1>2, <1>3

----------------------------------------------------------------------------
(* The router's inboxes. *)

Messages == [pane : RouterPanes \cup {0}, data : Seq(Nat)]
Speech == Nat \X Nat

DataOf == [m \in Messages |-> m.data]
SaidOf == [m \in Messages |-> Said(m)]

\* A message says bytes of its pane, or that an event came.
LEMMA SaidType == ASSUME NEW m \in Messages PROVE Said(m) \in Seq(Speech)
<1>1. m.pane \in Nat /\ m.data \in Seq(Nat)
  <2> DEFINE p == m.pane
  <2>1. p \in RouterPanes \cup {0} /\ m.data \in Seq(Nat)
    BY DEF Messages
  <2> HIDE DEF p
  <2>2. p \in Nat
    BY <2>1, RouterAssumption
  <2> QED BY <2>1, <2>2 DEF p
<1>2. CASE m.pane = 0
  BY <1>2 DEF Said, Speech
<1>3. CASE m.pane # 0
  <2>1. Said(m) = [j \in 1 .. Len(m.data) |-> <<m.pane, m.data[j]>>]
    BY <1>1, <1>3 DEF Said
  <2>2. \A j \in 1 .. Len(m.data) : m.data[j] \in Nat
    BY <1>1
  <2>3. Said(m) \in [1 .. Len(m.data) -> Speech]
    BY <1>1, <2>1, <2>2 DEF Speech
  <2>4. Len(m.data) \in Nat
    BY <1>1
  <2> QED BY <2>3, <2>4
<1> QED BY <1>2, <1>3

\* Both what a queue says and what it weighs are entries replaced by lists.
LEMMA AsSpread ==
    /\ Spreads(Messages, Nat, DataOf) /\ Spreads(Messages, Speech, SaidOf)
    /\ \A q \in Seq(Messages) : QueueBytes(q) = Len(Spread(DataOf, q)) /\ Spoken(q) = Spread(SaidOf, q)
<1>1. Spreads(Messages, Nat, DataOf)
  BY DEF Spreads, DataOf, Messages
<1>2. Spreads(Messages, Speech, SaidOf)
  BY SaidType DEF Spreads, SaidOf
<1>3. ASSUME NEW q \in Seq(Messages)
      PROVE  QueueBytes(q) = Len(Spread(DataOf, q)) /\ Spoken(q) = Spread(SaidOf, q)
  <2>1. \A i \in DOMAIN q : q[i] \in Messages
    OBVIOUS
  <2>2. [i \in DOMAIN q |-> DataOf[q[i]]] = [i \in DOMAIN q |-> q[i].data]
    BY <2>1 DEF DataOf
  <2>3. [i \in DOMAIN q |-> SaidOf[q[i]]] = [i \in DOMAIN q |-> Said(q[i])]
    BY <2>1 DEF SaidOf
  <2> QED BY Zenon, <2>2, <2>3 DEF QueueBytes, Spoken, Spread
<1> QED BY <1>1, <1>2, <1>3

\* output_bytes of an empty queue, of one message more, of two queues in a row.
LEMMA BytesAdd ==
    /\ QueueBytes(<<>>) = 0
    /\ \A q \in Seq(Messages) : QueueBytes(q) \in Nat
    /\ \A q \in Seq(Messages), m \in Messages : QueueBytes(Append(q, m)) = QueueBytes(q) + Len(m.data)
    /\ \A a, b \in Seq(Messages) : QueueBytes(a \o b) = QueueBytes(a) + QueueBytes(b)
<1>1. <<>> \in Seq(Messages)
  OBVIOUS
<1>2. Len(<<>>) = 0
  OBVIOUS
<1>3. QueueBytes(<<>>) = 0
  BY <1>1, <1>2, AsSpread, SpreadEmpty
<1>4. ASSUME NEW q \in Seq(Messages) PROVE Spread(DataOf, q) \in Seq(Nat)
  BY AsSpread, SpreadType
<1>5. ASSUME NEW q \in Seq(Messages) PROVE QueueBytes(q) \in Nat
  BY <1>4, AsSpread
<1>6. ASSUME NEW q \in Seq(Messages), NEW m \in Messages
      PROVE  QueueBytes(Append(q, m)) = QueueBytes(q) + Len(m.data)
  <2>1. Append(q, m) \in Seq(Messages)
    OBVIOUS
  <2>2. DataOf[m] = m.data /\ m.data \in Seq(Nat)
    BY DEF DataOf, Messages
  <2>3. Spread(DataOf, Append(q, m)) = Spread(DataOf, q) \o DataOf[m]
    BY AsSpread, SpreadMore
  <2>4. Len(Spread(DataOf, q) \o DataOf[m]) = Len(Spread(DataOf, q)) + Len(m.data)
    BY <1>4, <2>2
  <2> QED BY <2>1, <2>3, <2>4, AsSpread
<1>7. ASSUME NEW a \in Seq(Messages), NEW b \in Seq(Messages)
      PROVE  QueueBytes(a \o b) = QueueBytes(a) + QueueBytes(b)
  <2>1. a \o b \in Seq(Messages)
    OBVIOUS
  <2>2. Spread(DataOf, a \o b) = Spread(DataOf, a) \o Spread(DataOf, b)
    BY AsSpread, SpreadConcat
  <2>3. Len(Spread(DataOf, a) \o Spread(DataOf, b)) = Len(Spread(DataOf, a)) + Len(Spread(DataOf, b))
    BY <1>4
  <2> QED BY <2>1, <2>2, <2>3, AsSpread
<1> QED BY <1>3, <1>5, <1>6, <1>7

\* A queue has a weight and a length.
LEMMA BytesNat == ASSUME NEW q \in Seq(Messages) PROVE QueueBytes(q) \in Nat /\ Len(q) \in Nat
<1>1. QueueBytes(q) \in Nat
  BY BytesAdd
<1> QED BY <1>1

\* The same of what a queue says.
LEMMA SpokenJoins ==
    /\ Spoken(<<>>) = <<>>
    /\ \A q \in Seq(Messages) : Spoken(q) \in Seq(Speech)
    /\ \A q \in Seq(Messages), m \in Messages : Spoken(Append(q, m)) = Spoken(q) \o Said(m)
    /\ \A m \in Messages : Spoken(<<m>>) = Said(m)
    /\ \A a, b \in Seq(Messages) : Spoken(a \o b) = Spoken(a) \o Spoken(b)
<1>1. <<>> \in Seq(Messages)
  OBVIOUS
<1>2. Spoken(<<>>) = <<>>
  BY <1>1, AsSpread, SpreadEmpty
<1>3. ASSUME NEW q \in Seq(Messages) PROVE Spoken(q) \in Seq(Speech)
  BY AsSpread, SpreadType
<1>4. ASSUME NEW q \in Seq(Messages), NEW m \in Messages PROVE Spoken(Append(q, m)) = Spoken(q) \o Said(m)
  <2>1. Append(q, m) \in Seq(Messages)
    OBVIOUS
  <2>2. Spread(SaidOf, Append(q, m)) = Spread(SaidOf, q) \o SaidOf[m]
    BY AsSpread, SpreadMore
  <2>3. SaidOf[m] = Said(m)
    BY DEF SaidOf
  <2> QED BY <2>1, <2>2, <2>3, AsSpread
<1>5. ASSUME NEW m \in Messages PROVE Spoken(<<m>>) = Said(m)
  <2>1. <<m>> \in Seq(Messages)
    BY OneType
  <2>2. Spread(SaidOf, <<m>>) = SaidOf[m]
    BY AsSpread, SpreadOne
  <2>3. SaidOf[m] = Said(m)
    BY DEF SaidOf
  <2> QED BY <2>1, <2>2, <2>3, AsSpread
<1>6. ASSUME NEW a \in Seq(Messages), NEW b \in Seq(Messages)
      PROVE  Spoken(a \o b) = Spoken(a) \o Spoken(b)
  <2>1. a \o b \in Seq(Messages)
    OBVIOUS
  <2>2. Spread(SaidOf, a \o b) = Spread(SaidOf, a) \o Spread(SaidOf, b)
    BY AsSpread, SpreadConcat
  <2> QED BY <2>1, <2>2, AsSpread
<1> QED BY <1>2, <1>3, <1>4, <1>5, <1>6

\* The totals when one inbox is exchanged.
LEMMA TotalsMove ==
    ASSUME NEW ss \in Seq(Seq(Messages)), NEW r \in 1 .. Len(ss), NEW q \in Seq(Messages)
    PROVE  LET new == [ss EXCEPT ![r] = q] IN
           /\ QueueBytes(FlattenSeq(new)) = QueueBytes(FlattenSeq(ss)) - QueueBytes(ss[r]) + QueueBytes(q)
           /\ Len(FlattenSeq(new)) = Len(FlattenSeq(ss)) - Len(ss[r]) + Len(q)
<1> DEFINE old == ss[r]
           new == [ss EXCEPT ![r] = q]
<1>1. old \in Seq(Messages)
  OBVIOUS
<1>2. PICK a, b \in Seq(Messages) : /\ FlattenSeq(ss) = (a \o old) \o b
                                    /\ FlattenSeq(new) = (a \o q) \o b
  <2>1. /\ Before(ss, r) \in Seq(Messages) /\ Behind(ss, r) \in Seq(Messages)
        /\ FlattenSeq(ss) = (Before(ss, r) \o old) \o Behind(ss, r)
        /\ FlattenSeq(new) = (Before(ss, r) \o q) \o Behind(ss, r)
    <3> DEFINE M == Messages
    <3>1. ss \in Seq(Seq(M)) /\ r \in 1 .. Len(ss) /\ q \in Seq(M)
      OBVIOUS
    <3> HIDE DEF M
    <3>2. /\ Before(ss, r) \in Seq(M) /\ Behind(ss, r) \in Seq(M)
          /\ FlattenSeq(ss) = (Before(ss, r) \o ss[r]) \o Behind(ss, r)
          /\ FlattenSeq(Put(ss, r, q)) = (Before(ss, r) \o q) \o Behind(ss, r)
      BY ONLY <3>1, FlatAround
    <3> QED BY ONLY Zenon, <3>2 DEF M, old, new, Put
  <2> HIDE DEF old, new
  <2> QED BY Zenon, <2>1
<1> HIDE DEF old, new
<1>3. ASSUME NEW s \in Seq(Messages)
      PROVE  /\ QueueBytes((a \o s) \o b) = QueueBytes(a) + QueueBytes(s) + QueueBytes(b)
             /\ Len((a \o s) \o b) = Len(a) + Len(s) + Len(b)
  <2>1. a \o s \in Seq(Messages)
    OBVIOUS
  <2>2. QueueBytes((a \o s) \o b) = QueueBytes(a) + QueueBytes(s) + QueueBytes(b)
    BY <2>1, BytesAdd
  <2>3. Len((a \o s) \o b) = Len(a) + Len(s) + Len(b)
    OBVIOUS
  <2> QED BY <2>2, <2>3
<1>4. /\ QueueBytes(a) \in Nat /\ QueueBytes(b) \in Nat /\ QueueBytes(q) \in Nat /\ QueueBytes(old) \in Nat
      /\ Len(a) \in Nat /\ Len(b) \in Nat /\ Len(q) \in Nat /\ Len(old) \in Nat
  BY <1>1, BytesNat
<1>5. /\ QueueBytes(FlattenSeq(ss)) = QueueBytes(a) + QueueBytes(old) + QueueBytes(b)
      /\ Len(FlattenSeq(ss)) = Len(a) + Len(old) + Len(b)
  BY Zenon, <1>1, <1>2, <1>3
<1>6. /\ QueueBytes(FlattenSeq(new)) = QueueBytes(a) + QueueBytes(q) + QueueBytes(b)
      /\ Len(FlattenSeq(new)) = Len(a) + Len(q) + Len(b)
  BY Zenon, <1>2, <1>3
<1>7. /\ QueueBytes(FlattenSeq(new)) = QueueBytes(FlattenSeq(ss)) - QueueBytes(old) + QueueBytes(q)
      /\ Len(FlattenSeq(new)) = Len(FlattenSeq(ss)) - Len(old) + Len(q)
  BY <1>4, <1>5, <1>6, SMTT(30)
<1> QED BY <1>7 DEF old, new

\* What is kept and what is forgotten are everything, message by message.
Kept(ss, open) == [r \in DOMAIN ss |-> IF r \in open THEN ss[r] ELSE <<>>]
Gone(ss, open) == [r \in DOMAIN ss |-> IF r \in open THEN <<>> ELSE ss[r]]

\* Both halves are rows of queues.
LEMMA KeptType ==
    ASSUME NEW ss \in Seq(Seq(Messages)), NEW open
    PROVE  Kept(ss, open) \in Seq(Seq(Messages)) /\ Gone(ss, open) \in Seq(Seq(Messages))
<1>1. DOMAIN ss = 1 .. Len(ss) /\ Len(ss) \in Nat /\ \A r \in 1 .. Len(ss) : ss[r] \in Seq(Messages)
  OBVIOUS
<1>2. <<>> \in Seq(Messages)
  OBVIOUS
<1>3. Kept(ss, open) \in [1 .. Len(ss) -> Seq(Messages)]
  BY <1>1, <1>2 DEF Kept
<1>4. Gone(ss, open) \in [1 .. Len(ss) -> Seq(Messages)]
  BY <1>1, <1>2 DEF Gone
<1>5. \A n \in Nat : [1 .. n -> Seq(Messages)] \subseteq Seq(Seq(Messages))
  OBVIOUS
<1> QED BY <1>1, <1>3, <1>4, <1>5

\* One inbox more falls to one of the two halves.
LEMMA KeptMore ==
    ASSUME NEW ss \in Seq(Seq(Messages)), NEW open, NEW q \in Seq(Messages)
    PROVE  /\ Kept(Append(ss, q), open) = Append(Kept(ss, open), IF Len(ss) + 1 \in open THEN q ELSE <<>>)
           /\ Gone(Append(ss, q), open) = Append(Gone(ss, open), IF Len(ss) + 1 \in open THEN <<>> ELSE q)
<1> DEFINE n == Len(ss)
           more == Append(ss, q)
<1>1. /\ n \in Nat /\ DOMAIN ss = 1 .. n /\ DOMAIN more = 1 .. n + 1 /\ more[n + 1] = q
      /\ \A i \in 1 .. n : more[i] = ss[i]
  OBVIOUS
<1>2. <<>> \in Seq(Messages) /\ Kept(ss, open) \in Seq(Seq(Messages)) /\ Gone(ss, open) \in Seq(Seq(Messages))
  BY KeptType
<1> HIDE DEF n, more
<1>3. Kept(more, open) = Append(Kept(ss, open), IF n + 1 \in open THEN q ELSE <<>>)
  BY <1>1, <1>2 DEF Kept
<1>4. Gone(more, open) = Append(Gone(ss, open), IF n + 1 \in open THEN <<>> ELSE q)
  BY <1>1, <1>2 DEF Gone
<1> QED BY <1>3, <1>4 DEF n, more

\* The totals of what is kept and of what is forgotten add up.
LEMMA KeptAndGone ==
    ASSUME NEW ss \in Seq(Seq(Messages)), NEW open
    PROVE  /\ QueueBytes(FlattenSeq(ss))
                = QueueBytes(FlattenSeq(Kept(ss, open))) + QueueBytes(FlattenSeq(Gone(ss, open)))
           /\ Len(FlattenSeq(ss)) = Len(FlattenSeq(Kept(ss, open))) + Len(FlattenSeq(Gone(ss, open)))
<1> DEFINE Splits(t) ==
             /\ QueueBytes(FlattenSeq(t))
                  = QueueBytes(FlattenSeq(Kept(t, open))) + QueueBytes(FlattenSeq(Gone(t, open)))
             /\ Len(FlattenSeq(t)) = Len(FlattenSeq(Kept(t, open))) + Len(FlattenSeq(Gone(t, open)))
           G == {t \in Seq(Seq(Messages)) : Splits(t)}
<1>1. <<>> \in G
  <2>1. Kept(<<>>, open) = <<>> /\ Gone(<<>>, open) = <<>> /\ <<>> \in Seq(Seq(Messages)) /\ Len(<<>>) = 0
    BY DEF Kept, Gone
  <2> QED BY <2>1, FlatEmpty, BytesAdd
<1>2. ASSUME NEW t \in Seq(Seq(Messages)), NEW q \in Seq(Messages), t \in G PROVE Append(t, q) \in G
  <2> DEFINE k == Kept(t, open)
             g == Gone(t, open)
             all == FlattenSeq(t)
             kept == FlattenSeq(k)
             gone == FlattenSeq(g)
  <2>1. k \in Seq(Seq(Messages)) /\ g \in Seq(Seq(Messages)) /\ <<>> \in Seq(Messages) /\ Len(<<>>) = 0
    BY KeptType
  <2>2. all \in Seq(Messages) /\ kept \in Seq(Messages) /\ gone \in Seq(Messages)
    BY <2>1, FlatType
  <2>3. QueueBytes(all) = QueueBytes(kept) + QueueBytes(gone) /\ Len(all) = Len(kept) + Len(gone)
    BY <1>2
  <2>4. FlattenSeq(Append(t, q)) = all \o q
    BY FlatMore
  <2>5. QueueBytes(all \o q) = QueueBytes(all) + QueueBytes(q) /\ Len(all \o q) = Len(all) + Len(q)
    BY <2>2, BytesAdd
  <2>6. CASE Len(t) + 1 \in open
    <3>1. Kept(Append(t, q), open) = Append(k, q) /\ Gone(Append(t, q), open) = Append(g, <<>>)
      BY <2>6, KeptMore
    <3>2. FlattenSeq(Append(k, q)) = kept \o q /\ FlattenSeq(Append(g, <<>>)) = gone \o <<>>
      BY <2>1, FlatMore
    <3> HIDE DEF k, g, all, kept, gone
    <3>3. gone \o <<>> = gone
      BY <2>2
    <3>4. QueueBytes(kept \o q) = QueueBytes(kept) + QueueBytes(q) /\ Len(kept \o q) = Len(kept) + Len(q)
      BY <2>2, BytesAdd
    <3>5. /\ QueueBytes(kept) \in Nat /\ QueueBytes(gone) \in Nat /\ QueueBytes(q) \in Nat
          /\ Len(kept) \in Nat /\ Len(gone) \in Nat /\ Len(q) \in Nat
      BY <2>2, BytesNat
    <3>6. Append(t, q) \in Seq(Seq(Messages))
      OBVIOUS
    <3>7. Splits(Append(t, q))
      BY <2>3, <2>4, <2>5, <3>1, <3>2, <3>3, <3>4, <3>5
    <3> QED BY <3>6, <3>7
  <2>7. CASE Len(t) + 1 \notin open
    <3>1. Kept(Append(t, q), open) = Append(k, <<>>) /\ Gone(Append(t, q), open) = Append(g, q)
      BY <2>7, KeptMore
    <3>2. FlattenSeq(Append(g, q)) = gone \o q /\ FlattenSeq(Append(k, <<>>)) = kept \o <<>>
      BY <2>1, FlatMore
    <3> HIDE DEF k, g, all, kept, gone
    <3>3. kept \o <<>> = kept
      BY <2>2
    <3>4. QueueBytes(gone \o q) = QueueBytes(gone) + QueueBytes(q) /\ Len(gone \o q) = Len(gone) + Len(q)
      BY <2>2, BytesAdd
    <3>5. /\ QueueBytes(kept) \in Nat /\ QueueBytes(gone) \in Nat /\ QueueBytes(q) \in Nat
          /\ Len(kept) \in Nat /\ Len(gone) \in Nat /\ Len(q) \in Nat
      BY <2>2, BytesNat
    <3>6. Append(t, q) \in Seq(Seq(Messages))
      OBVIOUS
    <3>7. Splits(Append(t, q))
      BY <2>3, <2>4, <2>5, <3>1, <3>2, <3>3, <3>4, <3>5
    <3> QED BY <3>6, <3>7
  <2> QED BY <2>6, <2>7
<1>3. ss \in G
  <2> HIDE DEF G
  <2> QED BY <1>1, <1>2, ListInduction
<1> QED BY <1>3

\* Output of the same pane joins the last message and says the same.
LEMMA JoinsLast ==
    ASSUME NEW q \in Seq(Messages), q # <<>>, NEW m \in Messages, m.pane # 0, Last(q).pane = m.pane
    PROVE  LET new == Coalesced(q, m) IN
           /\ new \in Seq(Messages) /\ Len(new) = Len(q)
           /\ QueueBytes(new) = QueueBytes(q) + Len(m.data)
           /\ Spoken(new) = Spoken(q) \o Said(m)
<1> DEFINE k == Len(q)
           last == q[k]
           joined == last.data \o m.data
           longer == [last EXCEPT !.data = joined]
           front == SubSeq(q, 1, k - 1)
           new == [q EXCEPT ![k].data = @ \o m.data]
<1>1. k \in Nat /\ k \in 1 .. k /\ last \in Messages /\ front \in Seq(Messages)
  OBVIOUS
<1>2. last.data \in Seq(Nat) /\ m.data \in Seq(Nat) /\ last.pane = m.pane
  BY <1>1 DEF Messages, Last
<1>3. /\ longer \in Messages /\ longer.pane = m.pane /\ longer.data = last.data \o m.data
  <2>1. joined \in Seq(Nat) /\ last.pane \in RouterPanes \cup {0}
    BY <1>1, <1>2 DEF Messages
  <2> HIDE DEF last, joined
  <2>2. longer \in Messages
    BY <1>1, <2>1 DEF Messages
  <2>3. longer.pane = last.pane
    BY <1>1 DEF Messages
  <2>4. longer.data = joined
    BY <1>1 DEF Messages
  <2> QED BY <1>2, <2>2, <2>3, <2>4 DEF joined
<1>4. new = [q EXCEPT ![k] = longer] /\ q = [q EXCEPT ![k] = last]
  BY <1>1
<1>5. new \in Seq(Messages) /\ Len(new) = k
  BY <1>1, <1>3, <1>4
<1>6. SubSeq(q, k + 1, k) = <<>>
  BY <1>1
<1> HIDE DEF k, last, longer, front, new
<1>7. ASSUME NEW x \in Messages PROVE [q EXCEPT ![k] = x] = Append(front, x)
  <2>1. [q EXCEPT ![k] = x] = (front \o <<x>>) \o <<>>
    BY <1>1, <1>6, Around DEF k, front
  <2>2. Append(front, x) = front \o <<x>> /\ Append(front, x) \in Seq(Messages)
    BY <1>1, OneMore
  <2>3. Append(front, x) \o <<>> = Append(front, x)
    BY <2>2
  <2> QED BY Zenon, <2>1, <2>2, <2>3
<1>8. new = Append(front, longer) /\ q = Append(front, last)
  BY <1>1, <1>3, <1>4, <1>7
<1>9. QueueBytes(new) = QueueBytes(q) + Len(m.data)
  <2>1. QueueBytes(Append(front, longer)) = QueueBytes(front) + Len(longer.data)
    BY <1>1, <1>3, BytesAdd
  <2>2. QueueBytes(Append(front, last)) = QueueBytes(front) + Len(last.data)
    BY <1>1, BytesAdd
  <2>3. Len(longer.data) = Len(last.data) + Len(m.data) /\ Len(last.data) \in Nat /\ Len(m.data) \in Nat
    BY <1>2, <1>3
  <2>4. QueueBytes(front) \in Nat
    BY <1>1, BytesNat
  <2>5. /\ QueueBytes(new) = QueueBytes(front) + Len(longer.data)
        /\ QueueBytes(q) = QueueBytes(front) + Len(last.data)
    BY Zenon, <1>8, <2>1, <2>2
  <2>6. \A x, y, z \in Nat : x + (y + z) = (x + y) + z
    OBVIOUS
  <2>7. QueueBytes(new) = QueueBytes(front) + (Len(last.data) + Len(m.data))
    BY Zenon, <2>3, <2>5
  <2>8. QueueBytes(front) + (Len(last.data) + Len(m.data)) = (QueueBytes(front) + Len(last.data)) + Len(m.data)
    BY Zenon, <2>3, <2>4, <2>6
  <2> QED BY Zenon, <2>5, <2>7, <2>8
<1>10. Said(longer) = Said(last) \o Said(m)
  <2> DEFINE a == last.data
             b == m.data
             p == m.pane
             c == a \o b
             saidA == [j \in 1 .. Len(a) |-> <<p, a[j]>>]
             saidB == [j \in 1 .. Len(b) |-> <<p, b[j]>>]
             saidC == [j \in 1 .. Len(c) |-> <<p, c[j]>>]
  <2>1. Said(longer) = saidC /\ Said(last) = saidA /\ Said(m) = saidB
    <3>1. DOMAIN a = 1 .. Len(a) /\ DOMAIN b = 1 .. Len(b) /\ DOMAIN c = 1 .. Len(c)
      BY <1>2
    <3> QED BY <1>2, <1>3, <3>1 DEF Said
  <2>2. Said(longer) \in Seq(Speech) /\ Said(last) \in Seq(Speech) /\ Said(m) \in Seq(Speech)
    BY <1>1, <1>3, SaidType
  <2>3. a \in Seq(Nat) /\ b \in Seq(Nat)
    BY <1>2
  <2> HIDE DEF a, b, p
  <2>4. Len(c) = Len(a) + Len(b) /\ Len(a) \in Nat /\ Len(b) \in Nat
    BY <2>3
  <2>5. (\A j \in 1 .. Len(a) : c[j] = a[j]) /\ \A j \in Len(a) + 1 .. Len(c) : c[j] = b[j - Len(a)]
    BY <2>3
  <2>6. saidA \in Seq(Speech) /\ saidB \in Seq(Speech) /\ saidC \in Seq(Speech)
    BY <2>1, <2>2
  <2>7. Len(saidA) = Len(a) /\ Len(saidB) = Len(b) /\ Len(saidC) = Len(c)
    BY <2>4, <2>6
  <2>8. saidA \o saidB \in Seq(Speech) /\ Len(saidA \o saidB) = Len(c)
    BY <2>4, <2>6, <2>7
  <2>9. ASSUME NEW j \in 1 .. Len(c) PROVE saidC[j] = (saidA \o saidB)[j]
    <3>1. CASE j \in 1 .. Len(a)
      <4>1. saidC[j] = saidA[j]
        BY <2>5, <3>1
      <4> HIDE DEF saidA, saidB, saidC
      <4>2. (saidA \o saidB)[j] = saidA[j]
        BY <2>4, <2>6, <2>7, <3>1
      <4> QED BY <4>1, <4>2
    <3>2. CASE j \in Len(a) + 1 .. Len(c)
      <4>1. j - Len(a) \in 1 .. Len(b)
        BY <2>4, <3>2
      <4>2. saidC[j] = saidB[j - Len(a)]
        BY <2>5, <3>2, <4>1
      <4> HIDE DEF saidA, saidB, saidC
      <4>3. (saidA \o saidB)[j] = saidB[j - Len(a)]
        BY <2>4, <2>6, <2>7, <3>2, <4>1
      <4> QED BY <4>2, <4>3
    <3> QED BY <2>4, <3>1, <3>2
  <2> HIDE DEF c, saidA, saidB, saidC
  <2>10. saidC = saidA \o saidB
    BY <2>6, <2>7, <2>8, <2>9, SeqEqual
  <2> QED BY <2>1, <2>10
<1>11. Spoken(new) = Spoken(q) \o Said(m)
  <2>1. Spoken(new) = Spoken(front) \o Said(longer)
    BY <1>1, <1>3, <1>8, SpokenJoins
  <2>2. Spoken(q) = Spoken(front) \o Said(last)
    BY <1>1, <1>8, SpokenJoins
  <2>3. Spoken(front) \in Seq(Speech) /\ Said(last) \in Seq(Speech) /\ Said(m) \in Seq(Speech)
    BY <1>1, SpokenJoins, SaidType
  <2>4. (Spoken(front) \o Said(last)) \o Said(m) = Spoken(front) \o (Said(last) \o Said(m))
    BY <2>3
  <2> QED BY Zenon, <1>10, <2>1, <2>2, <2>4
<1> QED BY <1>5, <1>9, <1>11 DEF k, new, Coalesced

\* A drain takes a beginning of the queue.
LEMMA DrainLengthIn ==
    ASSUME NEW queue \in Seq(Messages)
    PROVE  DrainLength(queue) \in 0 .. Len(queue)
<1> DEFINE n == Len(queue)
           W(i) == i =< DrainMessages /\ (i =< 1 \/ QueueBytes(SubSeq(queue, 1, i)) =< DrainBytes)
           T == {n - i : i \in {j \in 0 .. n : W(j)}}
<1>1. n \in Nat /\ 0 \in 0 .. n
  OBVIOUS
<1>2. W(0)
  BY RouterAssumption
<1>3. T \subseteq Nat /\ T # {}
  <2> HIDE DEF W
  <2> QED BY <1>1, <1>2
<1>4. PICK x \in T : \A y \in T : x =< y
  BY <1>3, LeastOf
<1>5. PICK i \in 0 .. n : W(i) /\ x = n - i
  OBVIOUS
<1>6. ASSUME NEW j \in 0 .. n, W(j) PROVE j =< i
  <2>1. n - j \in T
    BY <1>6
  <2>2. n - i =< n - j
    BY <1>4, <1>5, <2>1
  <2> QED BY <1>1, <1>5, <2>2
<1>7. \E k \in 0 .. n : W(k) /\ \A m \in 0 .. n : W(m) => m =< k
  BY <1>5, <1>6
<1> QED BY <1>7 DEF DrainLength

RouterType ==
    /\ inboxes \in [Inboxes -> Seq(Messages)]
    /\ queuedBytes \in Nat /\ queuedMessages \in Nat /\ overflowed \in BOOLEAN /\ frames \in Nat
    /\ filed \in [Inboxes -> Seq(Speech)] /\ taken \in [Inboxes -> Seq(Speech)]

RouterInv == RouterType /\ RouterExact

\* The inboxes are a row, one for each repository.
LEMMA InboxesList ==
    ASSUME NEW x \in [Inboxes -> Seq(Messages)]
    PROVE  x \in Seq(Seq(Messages)) /\ Len(x) = NumInboxes /\ DOMAIN x = Inboxes /\ Inboxes = 1 .. Len(x)
<1>1. NumInboxes \in Nat
  BY RouterAssumption
<1>2. x \in [1 .. NumInboxes -> Seq(Messages)]
  BY DEF Inboxes
<1>3. x \in Seq(Seq(Messages)) /\ Len(x) = NumInboxes
  BY <1>1, <1>2
<1> QED BY <1>2, <1>3 DEF Inboxes

\* What one inbox gains or loses, the totals gain or lose.
LEMMA InboxMoves ==
    ASSUME RouterInv, NEW r \in Inboxes, NEW q \in Seq(Messages)
    PROVE  LET new == [inboxes EXCEPT ![r] = q] IN
           /\ new \in [Inboxes -> Seq(Messages)] /\ inboxes[r] \in Seq(Messages)
           /\ QueueBytes(FlattenSeq(new)) = queuedBytes - QueueBytes(inboxes[r]) + QueueBytes(q)
           /\ Len(FlattenSeq(new)) = queuedMessages - Len(inboxes[r]) + Len(q)
           /\ QueueBytes(FlattenSeq(new)) \in Nat /\ Len(FlattenSeq(new)) \in Nat
<1> DEFINE new == [inboxes EXCEPT ![r] = q]
<1>1. new \in [Inboxes -> Seq(Messages)] /\ inboxes[r] \in Seq(Messages)
  BY DEF RouterInv, RouterType
<1>2. inboxes \in Seq(Seq(Messages)) /\ r \in 1 .. Len(inboxes)
  BY InboxesList DEF RouterInv, RouterType
<1>3. /\ QueueBytes(FlattenSeq(new))
           = QueueBytes(FlattenSeq(inboxes)) - QueueBytes(inboxes[r]) + QueueBytes(q)
      /\ Len(FlattenSeq(new)) = Len(FlattenSeq(inboxes)) - Len(inboxes[r]) + Len(q)
  BY <1>2, TotalsMove
<1>4. queuedBytes = QueueBytes(FlattenSeq(inboxes)) /\ queuedMessages = Len(FlattenSeq(inboxes))
  BY DEF RouterInv, RouterExact
<1>5. new \in Seq(Seq(Messages))
  BY <1>1, InboxesList
<1>6. FlattenSeq(new) \in Seq(Messages)
  BY <1>5, FlatType
<1>7. QueueBytes(FlattenSeq(new)) \in Nat /\ Len(FlattenSeq(new)) \in Nat
  BY <1>6, BytesNat
<1> HIDE DEF new
<1>8. /\ QueueBytes(FlattenSeq(new)) = queuedBytes - QueueBytes(inboxes[r]) + QueueBytes(q)
      /\ Len(FlattenSeq(new)) = queuedMessages - Len(inboxes[r]) + Len(q)
  BY Zenon, <1>3, <1>4
<1> QED BY <1>1, <1>7, <1>8 DEF new

\* A router that was just made holds nothing and counts nothing.
LEMMA RouterStarts == ASSUME RTInit PROVE RouterInv
<1> DEFINE none == [r \in Inboxes |-> <<>>]
<1>1. <<>> \in Seq(Messages) /\ <<>> \in Seq(Speech)
  OBVIOUS
<1>2. RouterType
  BY <1>1 DEF RTInit, RouterType
<1>3. none \in [Inboxes -> Seq(Messages)] /\ \A r \in Inboxes : none[r] = <<>>
  BY <1>1
<1>4. none \in Seq(Seq(Messages)) /\ Kept(none, {}) = none /\ Gone(none, {}) = none
  <2>1. none \in Seq(Seq(Messages)) /\ DOMAIN none = Inboxes
    BY <1>3, InboxesList
  <2> QED BY <2>1 DEF Kept, Gone
<1>5. FlattenSeq(none) \in Seq(Messages)
  BY <1>4, FlatType
<1> HIDE DEF none
<1>6. /\ QueueBytes(FlattenSeq(none)) = QueueBytes(FlattenSeq(none)) + QueueBytes(FlattenSeq(none))
      /\ Len(FlattenSeq(none)) = Len(FlattenSeq(none)) + Len(FlattenSeq(none))
  BY <1>4, KeptAndGone
<1>7. QueueBytes(FlattenSeq(none)) \in Nat /\ Len(FlattenSeq(none)) \in Nat
  BY <1>5, BytesNat
<1>8. QueueBytes(FlattenSeq(none)) = 0 /\ Len(FlattenSeq(none)) = 0
  BY <1>6, <1>7
<1>9. inboxes = none /\ queuedBytes = 0 /\ queuedMessages = 0
  BY DEF RTInit, none
<1>10. ASSUME NEW r \in Inboxes PROVE taken[r] \o Spoken(inboxes[r]) = filed[r]
  <2>1. taken[r] = <<>> /\ filed[r] = <<>> /\ inboxes[r] = <<>>
    BY DEF RTInit
  <2>2. <<>> \o <<>> = <<>>
    OBVIOUS
  <2> QED BY Zenon, <2>1, <2>2, SpokenJoins
<1> QED BY Zenon, <1>2, <1>8, <1>9, <1>10 DEF RouterInv, RouterExact

\* A frame is filed: appended, or joined to the last message of its inbox.
LEMMA FilingKeeps ==
    ASSUME RouterInv, NEW r \in Inboxes, NEW m \in Messages, FileFrame(r, m),
           frames' \in Nat, UNCHANGED taken
    PROVE  RouterInv'
<1> DEFINE q == inboxes[r]
           joins == Coalesces(q, m)
           new == IF joins THEN Coalesced(q, m) ELSE Append(q, m)
           fits == /\ queuedBytes + Len(m.data) =< ByteLimit
                   /\ joins \/ queuedMessages < MessageLimit
<1>1. q \in Seq(Messages) /\ m.data \in Seq(Nat) /\ r \in DOMAIN inboxes /\ r \in DOMAIN filed
  BY DEF RouterInv, RouterType, Messages
<1>2. CASE ~fits
  <2>1. UNCHANGED <<inboxes, queuedBytes, queuedMessages, filed, taken>> /\ overflowed' \in BOOLEAN
    BY <1>2 DEF FileFrame
  <2>2. RouterType'
    BY <2>1 DEF RouterInv, RouterType
  <2>3. RouterExact'
    BY Zenon, <2>1 DEF RouterInv, RouterExact
  <2> QED BY <2>2, <2>3 DEF RouterInv
<1>3. CASE fits
  <2>1. /\ queuedBytes' = queuedBytes + Len(m.data)
        /\ queuedMessages' = queuedMessages + (IF joins THEN 0 ELSE 1)
        /\ overflowed' = overflowed
    BY <1>3 DEF FileFrame
  <2>2. inboxes' = [inboxes EXCEPT ![r] = new]
    BY <1>3 DEF FileFrame
  <2>3. filed' = [filed EXCEPT ![r] = filed[r] \o Spoken(<<m>>)]
    BY <1>3 DEF FileFrame
  <2>4. /\ new \in Seq(Messages) /\ QueueBytes(new) = QueueBytes(q) + Len(m.data)
        /\ Len(new) = Len(q) + (IF joins THEN 0 ELSE 1)
        /\ Spoken(new) = Spoken(q) \o Said(m)
    <3>1. CASE joins
      <4>1. q # <<>> /\ m.pane # 0 /\ Last(q).pane = m.pane
        BY <3>1 DEF Coalesces
      <4>2. new = Coalesced(q, m)
        BY <3>1
      <4> HIDE DEF q, joins, new
      <4>3. Len(q) = Len(q) + 0
        BY <1>1
      <4>4. /\ new \in Seq(Messages) /\ Len(new) = Len(q) /\ QueueBytes(new) = QueueBytes(q) + Len(m.data)
            /\ Spoken(new) = Spoken(q) \o Said(m)
        BY <1>1, <4>1, <4>2, JoinsLast
      <4> QED BY Zenon, <3>1, <4>3, <4>4
    <3>2. CASE ~joins
      <4>1. new = Append(q, m)
        BY <3>2
      <4> HIDE DEF q, joins, new
      <4>2. new \in Seq(Messages) /\ Len(new) = Len(q) + 1
        BY <1>1, <4>1
      <4>3. QueueBytes(new) = QueueBytes(q) + Len(m.data) /\ Spoken(new) = Spoken(q) \o Said(m)
        BY <1>1, <4>1, BytesAdd, SpokenJoins
      <4> QED BY Zenon, <3>2, <4>2, <4>3
    <3> QED BY <3>1, <3>2
  <2> HIDE DEF fits, joins, new
  <2>5. /\ [inboxes EXCEPT ![r] = new] \in [Inboxes -> Seq(Messages)]
        /\ QueueBytes(FlattenSeq([inboxes EXCEPT ![r] = new])) = queuedBytes - QueueBytes(q) + QueueBytes(new)
        /\ Len(FlattenSeq([inboxes EXCEPT ![r] = new])) = queuedMessages - Len(q) + Len(new)
    BY <2>4, InboxMoves
  <2>6. /\ QueueBytes(q) \in Nat /\ Len(q) \in Nat /\ Len(m.data) \in Nat
        /\ queuedBytes \in Nat /\ queuedMessages \in Nat
    BY <1>1, BytesNat DEF RouterInv, RouterType
  <2> HIDE DEF q
  <2>7. /\ queuedBytes' = QueueBytes(FlattenSeq(inboxes')) /\ queuedBytes' \in Nat
        /\ queuedMessages' = Len(FlattenSeq(inboxes')) /\ queuedMessages' \in Nat
    <3>1. /\ queuedBytes + Len(m.data) = queuedBytes - QueueBytes(q) + QueueBytes(new)
          /\ queuedMessages + (IF joins THEN 0 ELSE 1) = queuedMessages - Len(q) + Len(new)
          /\ queuedBytes + Len(m.data) \in Nat /\ queuedMessages + (IF joins THEN 0 ELSE 1) \in Nat
      BY <2>4, <2>6
    <3> QED BY Zenon, <2>1, <2>2, <2>5, <3>1
  <2>8. Spoken(<<m>>) = Said(m) /\ Said(m) \in Seq(Speech) /\ filed[r] \in Seq(Speech)
    BY SpokenJoins, SaidType DEF RouterInv, RouterType
  <2>9. filed[r] \o Said(m) \in Seq(Speech)
    BY <2>8
  <2>10. filed' = [filed EXCEPT ![r] = filed[r] \o Said(m)]
    BY Zenon, <2>3, <2>8
  <2>11. filed' \in [Inboxes -> Seq(Speech)]
    BY <2>9, <2>10 DEF RouterInv, RouterType
  <2>12. RouterType'
    BY <2>1, <2>2, <2>5, <2>7, <2>11 DEF RouterInv, RouterType
  <2>13. ASSUME NEW s \in Inboxes PROVE taken'[s] \o Spoken(inboxes'[s]) = filed'[s]
    <3>1. taken[s] \o Spoken(inboxes[s]) = filed[s] /\ taken' = taken
      BY DEF RouterInv, RouterExact
    <3>2. CASE s # r
      <4>1. inboxes'[s] = inboxes[s] /\ filed'[s] = filed[s]
        BY <2>2, <2>10, <3>2 DEF RouterInv, RouterType
      <4> QED BY Zenon, <3>1, <4>1
    <3>3. CASE s = r
      <4>1. inboxes'[s] = new /\ filed'[s] = filed[r] \o Said(m)
        BY <1>1, <2>2, <2>10, <3>3
      <4>2. taken[r] \in Seq(Speech) /\ Spoken(q) \in Seq(Speech)
        BY <1>1, SpokenJoins DEF RouterInv, RouterType
      <4>3. taken[r] \o (Spoken(q) \o Said(m)) = (taken[r] \o Spoken(q)) \o Said(m)
        <5> DEFINE x == taken[r]
                   y == Spoken(q)
                   z == Said(m)
        <5>1. x \in Seq(Speech) /\ y \in Seq(Speech) /\ z \in Seq(Speech)
          BY <2>8, <4>2
        <5> HIDE DEF x, y, z
        <5>2. (x \o y) \o z = x \o (y \o z)
          BY <5>1, ConcatAssociative
        <5> QED BY <5>2 DEF x, y, z
      <4>4. taken[r] \o Spoken(q) = filed[r]
        BY <3>1, <3>3 DEF q
      <4> QED BY Zenon, <2>4, <3>1, <3>3, <4>1, <4>3, <4>4
    <3> QED BY <3>2, <3>3
  <2>14. RouterExact'
    BY Zenon, <2>7, <2>13 DEF RouterExact
  <2> QED BY <2>12, <2>14 DEF RouterInv
<1> QED BY <1>2, <1>3

\* pump: whatever the reader is handed, filing it keeps the invariant.
LEMMA ReaderFilesKeeps == ASSUME RouterInv, ReaderFiles PROVE RouterInv'
<1>1. PICK r \in Inboxes, p \in RouterPanes \cup {0}, n \in 0 .. LargestFrame :
          FileFrame(r, [pane |-> p, data |-> [i \in 1 .. n |-> 10 * frames + i]])
  BY DEF ReaderFiles
<1> DEFINE data == [i \in 1 .. n |-> 10 * frames + i]
           m == [pane |-> p, data |-> data]
<1>2. frames \in Nat /\ frames' = frames + 1 /\ taken' = taken
  BY DEF ReaderFiles, RouterInv, RouterType
<1>3. LargestFrame \in Nat
  BY RouterAssumption
<1>4. n \in Nat /\ \A i \in 1 .. n : 10 * frames + i \in Nat
  BY <1>2, <1>3
<1>5. data \in Seq(Nat)
  <2>1. data \in [1 .. n -> Nat]
    BY <1>4
  <2> QED BY <1>4, <2>1
<1>6. FileFrame(r, m)
  BY <1>1
<1> HIDE DEF data
<1>7. m \in Messages
  BY <1>5 DEF Messages
<1>8. frames' \in Nat
  BY <1>2
<1> HIDE DEF m
<1> QED BY <1>2, <1>6, <1>7, <1>8, FilingKeeps

\* A backend takes a beginning of its inbox.
LEMMA DrainKeeps == ASSUME RouterInv, NEW r \in Inboxes, Drain(r) PROVE RouterInv'
<1> DEFINE q == inboxes[r]
           n == DrainLength(q)
           head == SubSeq(q, 1, n)
           rest == SubSeq(q, n + 1, Len(q))
<1>1. q \in Seq(Messages) /\ Len(q) \in Nat /\ r \in DOMAIN inboxes /\ r \in DOMAIN taken
  BY DEF RouterInv, RouterType
<1>2. n \in 0 .. Len(q)
  BY <1>1, DrainLengthIn
<1>3. /\ inboxes' = [inboxes EXCEPT ![r] = rest]
      /\ queuedBytes' = queuedBytes - QueueBytes(head)
      /\ queuedMessages' = queuedMessages - n
      /\ overflowed' = overflowed /\ filed' = filed /\ frames' = frames
  BY <1>1 DEF Drain
<1>4. taken' = [taken EXCEPT ![r] = taken[r] \o Spoken(head)]
  BY <1>1 DEF Drain
<1> HIDE DEF q, n
<1>5. head \in Seq(Messages) /\ rest \in Seq(Messages) /\ Len(head) = n /\ Len(rest) = Len(q) - n
  BY <1>1, <1>2, CutInTwo
<1>6. q = head \o rest
  BY <1>1, <1>2, CutInTwo
<1> HIDE DEF head, rest
<1>7. QueueBytes(q) = QueueBytes(head) + QueueBytes(rest) /\ Spoken(q) = Spoken(head) \o Spoken(rest)
  BY <1>5, <1>6, BytesAdd, SpokenJoins
<1>8. /\ [inboxes EXCEPT ![r] = rest] \in [Inboxes -> Seq(Messages)]
      /\ QueueBytes(FlattenSeq([inboxes EXCEPT ![r] = rest])) = queuedBytes - QueueBytes(q) + QueueBytes(rest)
      /\ Len(FlattenSeq([inboxes EXCEPT ![r] = rest])) = queuedMessages - Len(q) + Len(rest)
      /\ QueueBytes(FlattenSeq([inboxes EXCEPT ![r] = rest])) \in Nat
      /\ Len(FlattenSeq([inboxes EXCEPT ![r] = rest])) \in Nat
  BY <1>5, InboxMoves DEF q
<1>9. /\ QueueBytes(head) \in Nat /\ QueueBytes(rest) \in Nat /\ n \in Nat
      /\ queuedBytes \in Nat /\ queuedMessages \in Nat
  BY <1>1, <1>2, <1>5, BytesNat DEF RouterInv, RouterType
<1>10. /\ queuedBytes' = QueueBytes(FlattenSeq(inboxes')) /\ queuedBytes' \in Nat
       /\ queuedMessages' = Len(FlattenSeq(inboxes')) /\ queuedMessages' \in Nat
  <2>1. /\ queuedBytes - QueueBytes(head) = queuedBytes - QueueBytes(q) + QueueBytes(rest)
        /\ queuedMessages - n = queuedMessages - Len(q) + Len(rest)
    BY <1>1, <1>5, <1>7, <1>9
  <2> QED BY Zenon, <1>3, <1>8, <2>1
<1>11. /\ taken[r] \in Seq(Speech) /\ Spoken(head) \in Seq(Speech) /\ Spoken(rest) \in Seq(Speech)
  BY <1>5, SpokenJoins DEF RouterInv, RouterType
<1>12. taken[r] \o Spoken(head) \in Seq(Speech)
  BY <1>11
<1>13. taken' \in [Inboxes -> Seq(Speech)]
  BY <1>4, <1>12 DEF RouterInv, RouterType
<1>14. RouterType'
  BY <1>3, <1>8, <1>10, <1>13 DEF RouterInv, RouterType
<1>15. ASSUME NEW s \in Inboxes PROVE taken'[s] \o Spoken(inboxes'[s]) = filed'[s]
  <2>1. taken[s] \o Spoken(inboxes[s]) = filed[s]
    BY DEF RouterInv, RouterExact
  <2>2. CASE s # r
    <3>1. inboxes'[s] = inboxes[s] /\ taken'[s] = taken[s]
      BY <1>3, <1>4, <2>2 DEF RouterInv, RouterType
    <3> QED BY Zenon, <1>3, <2>1, <3>1
  <2>3. CASE s = r
    <3>1. inboxes'[s] = rest /\ taken'[s] = taken[r] \o Spoken(head)
      BY <1>1, <1>3, <1>4, <2>3
    <3>2. (taken[r] \o Spoken(head)) \o Spoken(rest) = taken[r] \o (Spoken(head) \o Spoken(rest))
      <4> DEFINE x == taken[r]
                 y == Spoken(head)
                 z == Spoken(rest)
      <4>1. x \in Seq(Speech) /\ y \in Seq(Speech) /\ z \in Seq(Speech)
        BY <1>11
      <4> HIDE DEF x, y, z
      <4>2. (x \o y) \o z = x \o (y \o z)
        BY <4>1, ConcatAssociative
      <4> QED BY <4>2 DEF x, y, z
    <3>3. taken[r] \o Spoken(q) = filed[r]
      BY <2>1, <2>3 DEF q
    <3> QED BY Zenon, <1>3, <1>7, <2>3, <3>1, <3>2, <3>3
  <2> QED BY <2>2, <2>3
<1>16. RouterExact'
  BY Zenon, <1>10, <1>15 DEF RouterExact
<1> QED BY <1>14, <1>16 DEF RouterInv

\* The inboxes of repositories that are not open are forgotten.
LEMMA RetainKeeps == ASSUME RouterInv, NEW open \in SUBSET Inboxes, Retain(open) PROVE RouterInv'
<1> DEFINE kept == Kept(inboxes, open)
           gone == Gone(inboxes, open)
<1>1. inboxes \in Seq(Seq(Messages)) /\ DOMAIN inboxes = Inboxes
  BY InboxesList DEF RouterInv, RouterType
<1>2. kept \in Seq(Seq(Messages)) /\ gone \in Seq(Seq(Messages))
  BY <1>1, KeptType
<1>3. inboxes' = kept /\ FlattenSeq(gone) = Forgotten(open)
  BY <1>1 DEF Retain, Kept, Gone, Forgotten
<1>4. /\ QueueBytes(FlattenSeq(inboxes)) = QueueBytes(FlattenSeq(kept)) + QueueBytes(FlattenSeq(gone))
      /\ Len(FlattenSeq(inboxes)) = Len(FlattenSeq(kept)) + Len(FlattenSeq(gone))
  BY <1>1, KeptAndGone
<1>5. FlattenSeq(kept) \in Seq(Messages) /\ FlattenSeq(gone) \in Seq(Messages)
  BY <1>2, FlatType
<1> HIDE DEF kept, gone
<1>6. /\ QueueBytes(FlattenSeq(kept)) \in Nat /\ QueueBytes(FlattenSeq(gone)) \in Nat
      /\ Len(FlattenSeq(kept)) \in Nat /\ Len(FlattenSeq(gone)) \in Nat
  BY <1>5, BytesNat
<1>7. /\ queuedBytes' = queuedBytes - QueueBytes(FlattenSeq(gone))
      /\ queuedMessages' = queuedMessages - Len(FlattenSeq(gone))
      /\ overflowed' = overflowed /\ frames' = frames
  BY Zenon, <1>3 DEF Retain, RetainedBytes
<1>8. queuedBytes = QueueBytes(FlattenSeq(inboxes)) /\ queuedMessages = Len(FlattenSeq(inboxes))
  BY DEF RouterInv, RouterExact
<1>9. queuedBytes' = QueueBytes(FlattenSeq(kept)) /\ queuedMessages' = Len(FlattenSeq(kept))
  BY <1>4, <1>6, <1>7, <1>8
<1>10. <<>> \in Seq(Messages) /\ <<>> \in Seq(Speech)
  OBVIOUS
<1>11. /\ inboxes' = [r \in Inboxes |-> IF r \in open THEN inboxes[r] ELSE <<>>]
       /\ filed' = [r \in Inboxes |-> IF r \in open THEN filed[r] ELSE <<>>]
       /\ taken' = [r \in Inboxes |-> IF r \in open THEN taken[r] ELSE <<>>]
  BY DEF Retain
<1>12. /\ inboxes' \in [Inboxes -> Seq(Messages)]
       /\ filed' \in [Inboxes -> Seq(Speech)] /\ taken' \in [Inboxes -> Seq(Speech)]
  BY <1>10, <1>11 DEF RouterInv, RouterType
<1>13. RouterType'
  BY <1>6, <1>7, <1>9, <1>12 DEF RouterInv, RouterType
<1>14. ASSUME NEW s \in Inboxes PROVE taken'[s] \o Spoken(inboxes'[s]) = filed'[s]
  <2>1. CASE s \in open
    <3>1. inboxes'[s] = inboxes[s] /\ filed'[s] = filed[s] /\ taken'[s] = taken[s]
      BY <1>11, <2>1
    <3>2. taken[s] \o Spoken(inboxes[s]) = filed[s]
      BY DEF RouterInv, RouterExact
    <3> QED BY Zenon, <3>1, <3>2
  <2>2. CASE s \notin open
    <3>1. inboxes'[s] = <<>> /\ filed'[s] = <<>> /\ taken'[s] = <<>>
      BY <1>11, <2>2
    <3>2. <<>> \o <<>> = <<>>
      OBVIOUS
    <3> QED BY Zenon, <3>1, <3>2, SpokenJoins
  <2> QED BY <2>1, <2>2
<1>15. RouterExact'
  BY Zenon, <1>3, <1>9, <1>14 DEF RouterExact
<1> QED BY <1>13, <1>15 DEF RouterInv

\* The counts and the order in every inbox survive every filing, drain and
\* change of the open repositories (terminal_link.rs deliver, drain, retain).
THEOREM RouterInductive == RTSpec => []RouterInv
<1>1. RTInit => RouterInv
  BY RouterStarts
<1>2. RouterInv /\ [RTNext]_rtvars => RouterInv'
  <2> SUFFICES ASSUME RouterInv, [RTNext]_rtvars PROVE RouterInv'
    OBVIOUS
  <2>1. CASE ReaderFiles
    BY <2>1, ReaderFilesKeeps
  <2>2. ASSUME NEW r \in Inboxes, Drain(r) PROVE RouterInv'
    BY <2>2, DrainKeeps
  <2>3. ASSUME NEW open \in SUBSET Inboxes, Retain(open) PROVE RouterInv'
    BY <2>3, RetainKeeps
  <2>4. CASE UNCHANGED rtvars
    <3>1. RouterType'
      BY <2>4 DEF RouterInv, RouterType, rtvars
    <3>2. RouterExact'
      BY Zenon, <2>4 DEF RouterInv, RouterExact, rtvars
    <3> QED BY <3>1, <3>2 DEF RouterInv
  <2> QED BY <2>1, <2>2, <2>3, <2>4 DEF RTNext
<1> QED BY <1>1, <1>2, PTL DEF RTSpec

\* TERMINAL_INBOX_BYTES and TERMINAL_INBOX_MESSAGES are checked against what is
\* really queued, and every backend gets what was filed for it, whole and in
\* order, for any number of repositories and panes and any ceilings: coalescing,
\* a drain that stops at its allowance and a forgotten inbox never miscount.
THEOREM RouterIsExact == RTSpec => []RouterExact
<1>1. RouterInv => RouterExact
  BY DEF RouterInv
<1> QED BY <1>1, RouterInductive, PTL

----------------------------------------------------------------------------
(* The terminal socket. *)

Count(n) == [i \in 1 .. n |-> i]

\* The page's messages among what it sent: not its pongs, not its close.
Words(s) == FlattenSeq([i \in DOMAIN s |-> IF s[i] > 0 THEN <<s[i]>> ELSE <<>>])

Inputs == Nat \cup {Close}
Events == {e \in [k : {"frame", "bytes", "gone"}, n : Inputs] : e.k = "frame" => e.n > 0}

Hubs == [queue : Seq(Nat \ {0}), listed : BOOLEAN, sent : Nat, max : Nat]
Readers == [pc : {"none", "top", "read", "send", "gone", "done"}, n : Inputs]
Framers == {t \in [pc : {"none", "take", "send", "done"}, n : Nat] : t.pc = "send" => t.n > 0}
Channels == [events : Seq(Events), dropped : BOOLEAN]
Writers ==
    [pc : Serving \cup {"open", "cut", "drop", "release", "shut", "forget", "join", "done"},
     buffer : Seq(Nat), unflushed : BOOLEAN, batch : Nat,
     why : {"none", "page", "hub", "failed", "silent", "panic"}]
Sockets == [up : BOOLEAN, out : Seq(Nat), in : Seq(Inputs)]
Pages == [mode : {"reads", "sleeps", "left", "gone"}, slept : BOOLEAN,
          shown : Seq(Nat), sent : Nat, max : Nat]

SocketType ==
    /\ hubQ \in Hubs /\ reader \in Readers /\ framer \in Framers /\ chan \in Channels
    /\ writer \in Writers /\ sock \in Sockets /\ quiet \in [heard : Nat, asked : Nat]
    /\ page \in Pages /\ heard \in Seq(Nat) /\ linkStop \in BOOLEAN

\* The channel is given up only when the writer has done with it, and before
\* Link::open there are no threads.
PlacesKept ==
    /\ writer.pc = "open" => reader.pc = "none" /\ framer.pc = "none"
    /\ chan.dropped => chan.events = <<>> /\ writer.pc \in {"join", "done"}
    /\ writer.pc = "done" => ~hubQ.listed
    /\ page.mode = "sleeps" => page.slept

\* Every frame is on its way while the writer serves.
\* (Cat and Row are concatenation, named for the provers.)
Cat(a, b) == a \o b
Row(a, b, c, d) == Cat(Cat(Cat(a, b), c), d)
OnTheWay == Cat(Cat(page.shown, sock.out), writer.buffer)
FramesKept ==
    writer.pc \in Serving \cup {"open"} =>
        Row(OnlyFrames(OnTheWay), InChannel("frame"), InHand(framer), hubQ.queue) = Count(hubQ.sent)

\* So is every message of the page, while the channel has a receiver.
MessagesOnTheWay ==
    Row(heard, Words(InChannel("bytes")), Words(InHand(reader)), Words(sock.in))
WordsKept ==
    /\ ~chan.dropped => MessagesOnTheWay = Count(page.sent)
    /\ IsPrefix(heard, Count(page.sent))

\* What waits in the library's buffer is what was queued since a flush that
\* went through; after one that did not, nothing more is queued.
BatchKept ==
    /\ writer.batch =< FlushFrames
    /\ Len(OnlyFrames(writer.buffer)) =< FlushFrames
    /\ ~writer.unflushed => Len(writer.buffer) =< writer.batch
    /\ writer.pc = "drain" => writer.batch < FlushFrames
    /\ writer.pc \in {"open", "live", "wait"} => writer.batch = 0

\* A ping, or the pong it drew, or a message of the page, on its way.
Has(s, X) == \E i \in DOMAIN s : s[i] \in X
Asked ==
    \/ Has(writer.buffer, {0}) \/ Has(sock.out, {0})
    \/ Has(sock.in, Nat) \/ Has(InHand(reader), Nat) \/ Has(InChannel("bytes"), Nat)

Awake == page.mode = "reads" /\ ~page.slept /\ hubQ.listed

\* A page that was never asked was heard as lately as it was asked.
AwakeKept ==
    /\ Awake /\ writer.pc \in Serving \cup {"open"} =>
         /\ sock.up
         /\ quiet.asked =< PingAfter /\ quiet.heard =< PingAfter
         /\ quiet.heard = quiet.asked \/ Asked
    /\ writer.why = "silent" => ~Awake
    /\ Len(sock.out) =< WireSize

SocketInv ==
    /\ SocketType /\ PlacesKept /\ FramesKept /\ WordsKept /\ BatchKept /\ AwakeKept

\* Joining lists of numbers.
LEMMA CatIs ==
    ASSUME NEW a \in Seq(Nat), NEW b \in Seq(Nat), NEW c \in Seq(Nat)
    PROVE  /\ Cat(a, b) \in Seq(Nat)
           /\ Cat(Cat(a, b), c) = Cat(a, Cat(b, c))
           /\ Cat(a, <<>>) = a /\ Cat(<<>>, a) = a
<1>1. a \o b \in Seq(Nat)
  BY ConcatProperties
<1>2. (a \o b) \o c = a \o (b \o c)
  BY ConcatAssociative, SMTT(30)
<1>3. a \o <<>> = a /\ <<>> \o a = a
  BY ConcatEmptySeq
<1> QED BY Zenon, <1>1, <1>2, <1>3 DEF Cat

\* The ways an entry passes from one queue of a row to the next.
\* The head of the last queue is taken in hand.
LEMMA TakenFromLast ==
    ASSUME NEW x \in Seq(Nat), NEW d \in Seq(Nat), NEW f \in Seq(Nat), f # <<>>
    PROVE  Row(x, d, <<>>, f) = Row(x, d, <<Head(f)>>, Tail(f))
<1> DEFINE h == <<Head(f)>>
           t == Tail(f)
<1>1. f = h \o t /\ h \in Seq(Nat) /\ t \in Seq(Nat)
  OBVIOUS
<1> HIDE DEF h, t
<1>2. f = Cat(h, t)
  BY Zenon, <1>1 DEF Cat
<1>3. Cat(x, d) \in Seq(Nat)
  BY CatIs
<1>4. Cat(Cat(x, d), <<>>) = Cat(x, d)
  BY <1>3, CatIs
<1>5. Cat(Cat(Cat(x, d), h), t) = Cat(Cat(x, d), Cat(h, t))
  BY <1>1, <1>3, CatIs
<1> QED BY Zenon, <1>2, <1>4, <1>5 DEF Row, h, t

\* What is in hand goes to the end of the queue ahead.
LEMMA PassedToNext ==
    ASSUME NEW x \in Seq(Nat), NEW d \in Seq(Nat), NEW e \in Seq(Nat), NEW f
    PROVE  Row(x, d, e, f) = Row(x, Cat(d, e), <<>>, f)
<1>1. Cat(d, e) \in Seq(Nat) /\ Cat(Cat(x, d), e) = Cat(x, Cat(d, e))
  BY CatIs
<1>2. Cat(x, Cat(d, e)) \in Seq(Nat)
  BY <1>1, CatIs
<1>3. Cat(Cat(x, Cat(d, e)), <<>>) = Cat(x, Cat(d, e))
  BY <1>2, CatIs
<1> QED BY Zenon, <1>1, <1>3 DEF Row

\* Something new stands behind everything.
LEMMA AddedAtEnd ==
    ASSUME NEW x \in Seq(Nat), NEW d \in Seq(Nat), NEW e \in Seq(Nat), NEW f \in Seq(Nat), NEW t \in Seq(Nat)
    PROVE  Row(x, d, e, Cat(f, t)) = Cat(Row(x, d, e, f), t)
<1>1. Cat(x, d) \in Seq(Nat)
  BY CatIs
<1>2. Cat(Cat(x, d), e) \in Seq(Nat)
  BY <1>1, CatIs
<1>3. Cat(Cat(Cat(Cat(x, d), e), f), t) = Cat(Cat(Cat(x, d), e), Cat(f, t))
  BY <1>2, CatIs
<1> QED BY Zenon, <1>3 DEF Row

\* The head of a queue joins what has arrived.
LEMMA MovedToFront ==
    ASSUME NEW x \in Seq(Nat), NEW c \in Seq(Nat), NEW d \in Seq(Nat), NEW e, NEW f
    PROVE  Row(x, Cat(c, d), e, f) = Row(Cat(x, c), d, e, f)
<1>1. Cat(x, Cat(c, d)) = Cat(Cat(x, c), d)
  BY CatIs
<1> QED BY Zenon, <1>1 DEF Row

\* A queue is its head and the rest.
LEMMA HeadAndTail ==
    ASSUME NEW M, NEW q \in Seq(M), q # <<>>
    PROVE  Head(q) \in M /\ Tail(q) \in Seq(M) /\ q = <<Head(q)>> \o Tail(q)
OBVIOUS

\* Counting one further.
LEMMA CountMore ==
    ASSUME NEW n \in Nat
    PROVE  /\ Count(n) \in Seq(Nat) /\ Len(Count(n)) = n
           /\ Count(n + 1) = Append(Count(n), n + 1)
<1>1. Count(n) \in [1 .. n -> Nat] /\ Count(n + 1) \in [1 .. n + 1 -> Nat]
  BY DEF Count
<1>2. Count(n) \in Seq(Nat) /\ Count(n + 1) \in Seq(Nat) /\ Len(Count(n)) = n /\ Len(Count(n + 1)) = n + 1
  BY <1>1
<1>3. (\A i \in 1 .. n : Count(n)[i] = i) /\ \A i \in 1 .. n + 1 : Count(n + 1)[i] = i
  BY DEF Count
<1>4. Append(Count(n), n + 1) \in Seq(Nat) /\ Len(Append(Count(n), n + 1)) = n + 1
  BY <1>2
<1>5. ASSUME NEW i \in 1 .. n + 1 PROVE Count(n + 1)[i] = Append(Count(n), n + 1)[i]
  BY <1>2, <1>3
<1>6. Count(n + 1) = Append(Count(n), n + 1)
  BY <1>2, <1>4, <1>5, SeqEqual
<1> QED BY <1>2, <1>6

\* A beginning of the count stays one; whatever a row begins with is one.
LEMMA PrefixKeeps ==
    ASSUME NEW s \in Seq(Nat), NEW n \in Nat, IsPrefix(s, Count(n))
    PROVE  IsPrefix(s, Count(n + 1))
<1>1. Len(s) =< n /\ SubSeq(s, 1, Len(s)) = SubSeq(Count(n), 1, Len(s))
  BY CountMore DEF IsPrefix
<1>2. SubSeq(Count(n), 1, Len(s)) = SubSeq(Count(n + 1), 1, Len(s))
  <2> DEFINE k == Len(s)
             c == Count(n)
             d == Count(n + 1)
             a == SubSeq(c, 1, k)
             b == SubSeq(d, 1, k)
  <2>1. k \in Nat /\ k =< n /\ \A i \in 1 .. k : c[i] = i /\ d[i] = i
    BY <1>1 DEF Count
  <2>2. c \in Seq(Nat) /\ d \in Seq(Nat) /\ Len(c) = n /\ Len(d) = n + 1
    BY CountMore
  <2> HIDE DEF k, c, d
  <2>3. a \in Seq(Nat) /\ Len(a) = k /\ \A i \in 1 .. k : a[i] = c[i]
    BY <2>1, <2>2
  <2>4. b \in Seq(Nat) /\ Len(b) = k /\ \A i \in 1 .. k : b[i] = d[i]
    BY <2>1, <2>2
  <2> HIDE DEF a, b
  <2>5. \A i \in 1 .. k : a[i] = b[i]
    BY <2>1, <2>3, <2>4
  <2>6. a = b
    BY <2>3, <2>4, <2>5, SeqEqual
  <2> QED BY <2>6 DEF a, b, c, d, k
<1>3. Len(Count(n + 1)) = n + 1
  BY CountMore
<1> QED BY <1>1, <1>2, <1>3 DEF IsPrefix

\* Whatever a row begins with is a beginning of it.
LEMMA BeginsIt ==
    ASSUME NEW S, NEW a \in Seq(S), NEW b \in Seq(S)
    PROVE  IsPrefix(a, a \o b)
<1>1. Len(a) =< Len(a \o b)
  OBVIOUS
<1>2. SubSeq(a, 1, Len(a)) = a /\ SubSeq(a \o b, 1, Len(a)) = a
  <2>1. SubSeq(a, 1, Len(a)) = a
    BY SubSeqFull
  <2> DEFINE c == SubSeq(a \o b, 1, Len(a))
  <2>2. c \in Seq(S) /\ Len(c) = Len(a) /\ \A i \in 1 .. Len(a) : c[i] = a[i]
    OBVIOUS
  <2> HIDE DEF c
  <2>3. c = a
    BY <2>2, SeqEqual
  <2> QED BY <2>1, <2>3 DEF c
<1> QED BY <1>1, <1>2 DEF IsPrefix

\* Frames among what is written; what the channel carries of a kind; words.
FrameOf == [n \in Nat |-> IF n = 0 THEN <<>> ELSE <<n>>]
WordOf == [n \in Inputs |-> IF n > 0 THEN <<n>> ELSE <<>>]
CarriedOf(k) == [e \in Events |-> IF e.k = k THEN <<e.n>> ELSE <<>>]
Carried(k, es) == Spread(CarriedOf(k), es)

\* The frames among what is written, by parts.
LEMMA OnlyFramesJoin ==
    /\ OnlyFrames(<<>>) = <<>>
    /\ \A s \in Seq(Nat) : OnlyFrames(s) \in Seq(Nat)
    /\ \A s \in Seq(Nat), n \in Nat :
         OnlyFrames(Append(s, n)) = OnlyFrames(s) \o (IF n = 0 THEN <<>> ELSE <<n>>)
    /\ \A n \in Nat : OnlyFrames(<<n>>) = IF n = 0 THEN <<>> ELSE <<n>>
    /\ \A a, b \in Seq(Nat) : OnlyFrames(a \o b) = OnlyFrames(a) \o OnlyFrames(b)
<1>1. Spreads(Nat, Nat, FrameOf)
  <2>1. \A n \in Nat : (IF n = 0 THEN <<>> ELSE <<n>>) \in Seq(Nat)
    OBVIOUS
  <2> QED BY <2>1 DEF Spreads, FrameOf
<1>2. ASSUME NEW s \in Seq(Nat) PROVE OnlyFrames(s) = Spread(FrameOf, s)
  <2>1. \A i \in DOMAIN s : s[i] \in Nat
    OBVIOUS
  <2>2. [i \in DOMAIN s |-> FrameOf[s[i]]] = [i \in DOMAIN s |-> IF s[i] = 0 THEN <<>> ELSE <<s[i]>>]
    BY <2>1 DEF FrameOf
  <2> QED BY Zenon, <2>2 DEF OnlyFrames, Spread
<1>3. <<>> \in Seq(Nat)
  OBVIOUS
<1>4. OnlyFrames(<<>>) = <<>>
  BY <1>2, <1>3, SpreadEmpty
<1>5. ASSUME NEW s \in Seq(Nat) PROVE OnlyFrames(s) \in Seq(Nat)
  BY <1>1, <1>2, SpreadType
<1>6. ASSUME NEW n \in Nat PROVE FrameOf[n] = IF n = 0 THEN <<>> ELSE <<n>>
  BY DEF FrameOf
<1>7. ASSUME NEW s \in Seq(Nat), NEW n \in Nat
      PROVE  OnlyFrames(Append(s, n)) = OnlyFrames(s) \o (IF n = 0 THEN <<>> ELSE <<n>>)
  <2>1. Append(s, n) \in Seq(Nat)
    OBVIOUS
  <2>2. Spread(FrameOf, Append(s, n)) = Spread(FrameOf, s) \o FrameOf[n]
    BY <1>1, SpreadMore
  <2> QED BY Zenon, <1>2, <1>6, <2>1, <2>2
<1>8. ASSUME NEW n \in Nat PROVE OnlyFrames(<<n>>) = IF n = 0 THEN <<>> ELSE <<n>>
  <2>1. <<n>> \in Seq(Nat)
    BY OneType
  <2>2. Spread(FrameOf, <<n>>) = FrameOf[n]
    BY <1>1, SpreadOne
  <2> QED BY Zenon, <1>2, <1>6, <2>1, <2>2
<1>9. ASSUME NEW a \in Seq(Nat), NEW b \in Seq(Nat) PROVE OnlyFrames(a \o b) = OnlyFrames(a) \o OnlyFrames(b)
  <2>1. a \o b \in Seq(Nat)
    OBVIOUS
  <2>2. Spread(FrameOf, a \o b) = Spread(FrameOf, a) \o Spread(FrameOf, b)
    BY <1>1, SpreadConcat
  <2> QED BY Zenon, <1>2, <2>1, <2>2
<1> QED BY <1>4, <1>5, <1>7, <1>8, <1>9

\* The messages among what the page sent, by parts.
LEMMA WordsJoin ==
    /\ Words(<<>>) = <<>>
    /\ \A s \in Seq(Inputs) : Words(s) \in Seq(Nat)
    /\ \A s \in Seq(Inputs), n \in Inputs :
         Words(Append(s, n)) = Words(s) \o (IF n > 0 THEN <<n>> ELSE <<>>)
    /\ \A n \in Inputs : Words(<<n>>) = IF n > 0 THEN <<n>> ELSE <<>>
    /\ \A a, b \in Seq(Inputs) : Words(a \o b) = Words(a) \o Words(b)
<1>1. Spreads(Inputs, Nat, WordOf)
  <2>1. \A n \in Inputs : (IF n > 0 THEN <<n>> ELSE <<>>) \in Seq(Nat)
    BY DEF Inputs, Close
  <2> QED BY <2>1 DEF Spreads, WordOf
<1>2. ASSUME NEW s \in Seq(Inputs) PROVE Words(s) = Spread(WordOf, s)
  <2>1. \A i \in DOMAIN s : s[i] \in Inputs
    OBVIOUS
  <2>2. [i \in DOMAIN s |-> WordOf[s[i]]] = [i \in DOMAIN s |-> IF s[i] > 0 THEN <<s[i]>> ELSE <<>>]
    BY <2>1 DEF WordOf
  <2> QED BY Zenon, <2>2 DEF Words, Spread
<1>3. <<>> \in Seq(Inputs)
  OBVIOUS
<1>4. Words(<<>>) = <<>>
  BY <1>2, <1>3, SpreadEmpty
<1>5. ASSUME NEW s \in Seq(Inputs) PROVE Words(s) \in Seq(Nat)
  BY <1>1, <1>2, SpreadType
<1>6. ASSUME NEW n \in Inputs PROVE WordOf[n] = IF n > 0 THEN <<n>> ELSE <<>>
  BY DEF WordOf
<1>7. ASSUME NEW s \in Seq(Inputs), NEW n \in Inputs
      PROVE  Words(Append(s, n)) = Words(s) \o (IF n > 0 THEN <<n>> ELSE <<>>)
  <2>1. Append(s, n) \in Seq(Inputs)
    OBVIOUS
  <2>2. Spread(WordOf, Append(s, n)) = Spread(WordOf, s) \o WordOf[n]
    BY <1>1, SpreadMore
  <2> QED BY Zenon, <1>2, <1>6, <2>1, <2>2
<1>8. ASSUME NEW n \in Inputs PROVE Words(<<n>>) = IF n > 0 THEN <<n>> ELSE <<>>
  <2>1. <<n>> \in Seq(Inputs)
    BY OneType
  <2>2. Spread(WordOf, <<n>>) = WordOf[n]
    BY <1>1, SpreadOne
  <2> QED BY Zenon, <1>2, <1>6, <2>1, <2>2
<1>9. ASSUME NEW a \in Seq(Inputs), NEW b \in Seq(Inputs) PROVE Words(a \o b) = Words(a) \o Words(b)
  <2>1. a \o b \in Seq(Inputs)
    OBVIOUS
  <2>2. Spread(WordOf, a \o b) = Spread(WordOf, a) \o Spread(WordOf, b)
    BY <1>1, SpreadConcat
  <2> QED BY Zenon, <1>2, <2>1, <2>2
<1> QED BY <1>4, <1>5, <1>7, <1>8, <1>9

\* What the channel carries of one kind, k.
LEMMA CarriedJoin ==
    ASSUME NEW k, NEW S, S = Inputs \/ (S = Nat /\ k = "frame")
    PROVE  /\ Carried(k, <<>>) = <<>>
           /\ \A es \in Seq(Events) : Carried(k, es) \in Seq(S)
           /\ \A es \in Seq(Events), e \in Events :
                Carried(k, Append(es, e)) = Carried(k, es) \o (IF e.k = k THEN <<e.n>> ELSE <<>>)
           /\ \A e \in Events : Carried(k, <<e>>) = IF e.k = k THEN <<e.n>> ELSE <<>>
           /\ \A a, b \in Seq(Events) : Carried(k, a \o b) = Carried(k, a) \o Carried(k, b)
<1>1. Spreads(Events, S, CarriedOf(k))
  <2>1. ASSUME NEW e \in Events PROVE (IF e.k = k THEN <<e.n>> ELSE <<>>) \in Seq(S)
    <3>1. e.n \in Inputs /\ (e.k = "frame" => e.n > 0)
      BY DEF Events
    <3>2. e.k = "frame" => e.n \in Nat
      BY <3>1 DEF Inputs, Close
    <3>3. e.k = k => e.n \in S
      BY <3>1, <3>2
    <3> QED BY <3>3
  <2> QED BY <2>1 DEF Spreads, CarriedOf
<1>2. Carried(k, <<>>) = <<>>
  BY SpreadEmpty DEF Carried
<1>3. ASSUME NEW es \in Seq(Events) PROVE Carried(k, es) \in Seq(S)
  BY <1>1, SpreadType DEF Carried
<1>4. ASSUME NEW e \in Events PROVE CarriedOf(k)[e] = IF e.k = k THEN <<e.n>> ELSE <<>>
  BY DEF CarriedOf
<1>5. ASSUME NEW es \in Seq(Events), NEW e \in Events
      PROVE  Carried(k, Append(es, e)) = Carried(k, es) \o (IF e.k = k THEN <<e.n>> ELSE <<>>)
  <2>1. Spread(CarriedOf(k), Append(es, e)) = Spread(CarriedOf(k), es) \o CarriedOf(k)[e]
    BY <1>1, SpreadMore
  <2> QED BY Zenon, <1>4, <2>1 DEF Carried
<1>6. ASSUME NEW e \in Events PROVE Carried(k, <<e>>) = IF e.k = k THEN <<e.n>> ELSE <<>>
  <2>1. Spread(CarriedOf(k), <<e>>) = CarriedOf(k)[e]
    BY <1>1, SpreadOne
  <2> QED BY Zenon, <1>4, <2>1 DEF Carried
<1>7. ASSUME NEW a \in Seq(Events), NEW b \in Seq(Events) PROVE Carried(k, a \o b) = Carried(k, a) \o Carried(k, b)
  <2>1. Spread(CarriedOf(k), a \o b) = Spread(CarriedOf(k), a) \o Spread(CarriedOf(k), b)
    BY <1>1, SpreadConcat
  <2> QED BY Zenon, <2>1 DEF Carried
<1> QED BY <1>2, <1>3, <1>5, <1>6, <1>7

\* InChannel is what the channel carries.
LEMMA ChannelCarries ==
    ASSUME chan.events \in Seq(Events), NEW k
    PROVE  InChannel(k) = Carried(k, chan.events)
<1> DEFINE es == chan.events
<1>1. \A i \in DOMAIN es : es[i] \in Events
  OBVIOUS
<1>2. [i \in DOMAIN es |-> CarriedOf(k)[es[i]]] = [i \in DOMAIN es |-> IF es[i].k = k THEN <<es[i].n>> ELSE <<>>]
  BY <1>1 DEF CarriedOf
<1> QED BY Zenon, <1>2 DEF InChannel, Carried, Spread

\* What each part of the invariant does not depend on may change.
LEMMA FramesMove ==
    ASSUME FramesKept, OnlyFrames(OnTheWay)' = OnlyFrames(OnTheWay),
           InChannel("frame")' = InChannel("frame"), InHand(framer)' = InHand(framer),
           hubQ'.queue = hubQ.queue, hubQ'.sent = hubQ.sent,
           writer'.pc \in Serving \cup {"open"} => writer.pc \in Serving \cup {"open"}
    PROVE  FramesKept'
BY Zenon DEF FramesKept, Count

\* The queues the frames go through.
LEMMA FramesStand ==
    ASSUME FramesKept, chan'.events = chan.events, InHand(framer)' = InHand(framer),
           hubQ'.queue = hubQ.queue, hubQ'.sent = hubQ.sent,
           page'.shown = page.shown, sock'.out = sock.out, writer'.buffer = writer.buffer,
           writer'.pc \in Serving \cup {"open"} => writer.pc \in Serving \cup {"open"}
    PROVE  FramesKept'
<1>1. InChannel("frame")' = InChannel("frame") /\ OnlyFrames(OnTheWay)' = OnlyFrames(OnTheWay)
  BY Zenon DEF InChannel, OnTheWay, OnlyFrames
<1> QED BY Zenon, <1>1, FramesMove

\* What the page said.
LEMMA WordsMove ==
    ASSUME WordsKept, chan.dropped => chan'.dropped,
           Words(InChannel("bytes"))' = Words(InChannel("bytes")),
           Words(InHand(reader))' = Words(InHand(reader)), Words(sock.in)' = Words(sock.in),
           page'.sent = page.sent, heard' = heard
    PROVE  WordsKept'
<1>1. MessagesOnTheWay' = MessagesOnTheWay
  BY Zenon DEF MessagesOnTheWay
<1> QED BY Zenon, <1>1 DEF WordsKept, Count

\* The queues it goes through.
LEMMA WordsStand ==
    ASSUME WordsKept, chan'.events = chan.events, chan.dropped => chan'.dropped,
           InHand(reader)' = InHand(reader), sock'.in = sock.in,
           page'.sent = page.sent, heard' = heard
    PROVE  WordsKept'
<1>1. /\ Words(InChannel("bytes"))' = Words(InChannel("bytes"))
      /\ Words(InHand(reader))' = Words(InHand(reader)) /\ Words(sock.in)' = Words(sock.in)
  BY Zenon DEF InChannel, Words
<1> QED BY Zenon, <1>1, WordsMove

\* The batch.
LEMMA BatchStands ==
    ASSUME BatchKept, writer'.buffer = writer.buffer, writer'.batch = writer.batch,
           writer'.unflushed = writer.unflushed,
           writer'.pc = writer.pc \/ writer'.pc \notin {"open", "drain", "live", "wait"}
    PROVE  BatchKept'
<1>1. OnlyFrames(writer.buffer)' = OnlyFrames(writer.buffer)
  BY Zenon DEF OnlyFrames
<1> QED BY <1>1 DEF BatchKept

\* What is asked of the page.
LEMMA AskedStands ==
    ASSUME writer'.buffer = writer.buffer, sock'.out = sock.out, sock'.in = sock.in,
           InHand(reader)' = InHand(reader), chan'.events = chan.events
    PROVE  Asked => Asked'
<1>1. InChannel("bytes")' = InChannel("bytes")
  BY Zenon DEF InChannel
<1> QED BY Zenon, <1>1 DEF Asked

\* The page that is listening.
LEMMA AwakeStands ==
    ASSUME AwakeKept, Awake' => Awake,
           writer'.pc \in Serving \cup {"open"} => writer.pc \in Serving \cup {"open"},
           writer'.why = "silent" => writer.why = "silent",
           Awake' => sock'.up = sock.up,
           quiet' = quiet, Asked => Asked', Len(sock'.out) =< WireSize
    PROVE  AwakeKept'
BY DEF AwakeKept

\* What a flush does, whatever it is given to write.
LEMMA FlushIs ==
    ASSUME SocketType, AwakeKept, NEW b \in Seq(Nat), NEW next, FlushInto(b, next)
    PROVE  /\ sock' = [sock EXCEPT !.out = sock'.out]
           /\ writer' = [writer EXCEPT !.pc = next, !.buffer = writer'.buffer,
                                       !.unflushed = writer'.unflushed, !.batch = 0]
           /\ sock'.out \in Seq(Nat) /\ writer'.buffer \in Seq(Nat) /\ writer'.unflushed \in BOOLEAN
           /\ sock'.out \o writer'.buffer = sock.out \o b
           /\ Len(sock'.out) =< WireSize
           /\ Len(OnlyFrames(writer'.buffer)) =< Len(OnlyFrames(b))
           /\ ~writer'.unflushed => writer'.buffer = <<>>
<1> DEFINE n == Leaving(b)
           gone == SubSeq(b, 1, n)
           rest == SubSeq(b, n + 1, Len(b))
           out == sock.out
<1>1. out \in Seq(Nat)
  BY DEF SocketType, Sockets
<1>2. WireSize \in Nat /\ Len(out) \in Nat /\ Len(b) \in Nat /\ Len(out) =< WireSize
  <2>1. WireSize \in Nat
    BY SocketAssumption
  <2>2. Len(out) =< WireSize
    BY DEF AwakeKept
  <2> QED BY <1>1, <2>1, <2>2, LenProperties
<1>3. /\ sock' = [sock EXCEPT !.out = out \o gone]
      /\ writer' = [writer EXCEPT !.pc = next, !.buffer = rest, !.unflushed = n < Len(b), !.batch = 0]
  BY DEF FlushInto
<1>4. n = IF Len(b) < WireSize - Len(out) THEN Len(b) ELSE WireSize - Len(out)
  BY Zenon DEF Leaving, Room
<1> HIDE DEF n
<1> HIDE DEF out
<1>5. n \in 0 .. Len(b) /\ n \in Nat /\ Len(out) + n =< WireSize
  <2>1. \A x, y, z \in Nat : y =< z =>
          LET m == IF x < z - y THEN x ELSE z - y IN m \in 0 .. x /\ m \in Nat /\ y + m =< z
    OBVIOUS
  <2> QED BY <1>2, <1>4, <2>1
<1>6. /\ gone \in Seq(Nat) /\ rest \in Seq(Nat) /\ Len(gone) = n /\ Len(rest) = Len(b) - n
      /\ b = gone \o rest
  <2>1. b \in Seq(Nat) /\ n \in 0 .. Len(b)
    BY <1>5
  <2>2. gone \in Seq(Nat) /\ rest \in Seq(Nat)
    BY ONLY <2>1, CutInTwo
  <2>3. Len(gone) = n /\ Len(rest) = Len(b) - n
    BY ONLY <2>1, CutInTwo
  <2>4. b = gone \o rest
    BY ONLY <2>1, CutInTwo
  <2> QED BY <2>2, <2>3, <2>4
<1>7. sock'.out = out \o gone
  BY <1>3 DEF SocketType, Sockets, out
<1>8. writer'.buffer = rest /\ writer'.unflushed = (n < Len(b))
  BY <1>3 DEF SocketType, Writers
<1> HIDE DEF gone, rest
<1>9. out \o gone \in Seq(Nat) /\ Len(out \o gone) = Len(out) + Len(gone)
  BY <1>1, <1>6, ConcatProperties
<1>10. (out \o gone) \o rest = out \o b
  <2>1. (out \o gone) \o rest = out \o (gone \o rest)
    BY <1>1, <1>6, ConcatAssociative
  <2> QED BY Zenon, <1>6, <2>1
<1>11. ~(n < Len(b)) => rest = <<>>
  <2>1. ~(n < Len(b)) => Len(rest) = 0
    BY <1>2, <1>5, <1>6
  <2>2. rest \in Seq(Nat)
    BY <1>6
  <2> QED BY <2>1, <2>2, EmptySeq
<1>12. Len(OnlyFrames(rest)) =< Len(OnlyFrames(b))
  <2>1. OnlyFrames(b) = OnlyFrames(gone) \o OnlyFrames(rest)
    BY <1>6, OnlyFramesJoin
  <2>2. OnlyFrames(gone) \in Seq(Nat) /\ OnlyFrames(rest) \in Seq(Nat)
    BY <1>6, OnlyFramesJoin
  <2>3. Len(OnlyFrames(b)) = Len(OnlyFrames(gone)) + Len(OnlyFrames(rest))
    BY <2>1, <2>2, ConcatProperties
  <2>4. Len(OnlyFrames(gone)) \in Nat /\ Len(OnlyFrames(rest)) \in Nat
    BY <2>2, LenProperties
  <2> QED BY <2>3, <2>4
<1>13. (n < Len(b)) \in BOOLEAN
  OBVIOUS
<1> QED
  <2>1. sock' = [sock EXCEPT !.out = sock'.out]
    BY Zenon, <1>3, <1>7
  <2>2. writer' = [writer EXCEPT !.pc = next, !.buffer = writer'.buffer, !.unflushed = writer'.unflushed, !.batch = 0]
    BY Zenon, <1>3, <1>8
  <2>3. sock'.out \in Seq(Nat) /\ sock'.out \o writer'.buffer = sock.out \o b
    BY Zenon, <1>7, <1>8, <1>9, <1>10 DEF out
  <2>4. Len(sock'.out) =< WireSize
    BY <1>5, <1>6, <1>7, <1>9
  <2>5. writer'.buffer \in Seq(Nat) /\ Len(OnlyFrames(writer'.buffer)) =< Len(OnlyFrames(b))
    BY Zenon, <1>6, <1>8, <1>12
  <2>6. writer'.unflushed \in BOOLEAN /\ (~writer'.unflushed => writer'.buffer = <<>>)
    BY Zenon, <1>8, <1>11, <1>13
  <2> QED BY <2>1, <2>2, <2>3, <2>4, <2>5, <2>6

\* The channel gains an event at its end and loses one at its head.
LEMMA EventSent ==
    ASSUME SocketType, NEW e \in Events, Sends(e)
    PROVE  /\ chan' = [chan EXCEPT !.events = Append(chan.events, e)]
           /\ chan'.events = Append(chan.events, e) /\ ~chan.dropped /\ ~chan'.dropped
           /\ chan' \in Channels
           /\ InChannel("frame")' = InChannel("frame") \o (IF e.k = "frame" THEN <<e.n>> ELSE <<>>)
           /\ InChannel("bytes")' = InChannel("bytes") \o (IF e.k = "bytes" THEN <<e.n>> ELSE <<>>)
<1> DEFINE es == chan.events
           more == Append(es, e)
<1>1. chan' = [chan EXCEPT !.events = more] /\ ~chan.dropped
  BY DEF Sends
<1>2. es \in Seq(Events) /\ more \in Seq(Events)
  BY DEF SocketType, Channels
<1>3. chan'.events = more /\ chan'.dropped = chan.dropped /\ chan' \in Channels
  <2> HIDE DEF more
  <2> QED BY <1>1, <1>2 DEF SocketType, Channels
<1>4. /\ Carried("frame", more) = Carried("frame", es) \o (IF e.k = "frame" THEN <<e.n>> ELSE <<>>)
      /\ Carried("bytes", more) = Carried("bytes", es) \o (IF e.k = "bytes" THEN <<e.n>> ELSE <<>>)
  BY <1>2, CarriedJoin
<1>5. ASSUME NEW k PROVE InChannel(k) = Carried(k, es) /\ InChannel(k)' = Carried(k, more)
  <2>1. InChannel(k) = Carried(k, es)
    BY <1>2, ChannelCarries
  <2>2. \A i \in DOMAIN more : more[i] \in Events
    BY <1>2
  <2> HIDE DEF es, more
  <2>3. [i \in DOMAIN more |-> CarriedOf(k)[more[i]]]
          = [i \in DOMAIN more |-> IF more[i].k = k THEN <<more[i].n>> ELSE <<>>]
    BY <2>2 DEF CarriedOf
  <2>4. chan'.events = more
    BY <1>3
  <2>5. InChannel(k)' = Carried(k, more)
    BY ONLY Zenon, <2>3, <2>4 DEF InChannel, Carried, Spread
  <2> QED BY <2>1, <2>5
<1> QED BY Zenon, <1>1, <1>3, <1>4, <1>5

\* And one is taken from its head.
LEMMA EventTaken ==
    ASSUME SocketType, chan.events # <<>>, chan' = [chan EXCEPT !.events = Tail(chan.events)]
    PROVE  LET e == Head(chan.events) IN
           /\ e \in Events
           /\ chan'.events = Tail(chan.events) /\ chan'.dropped = chan.dropped
           /\ chan' \in Channels
           /\ InChannel("frame") = (IF e.k = "frame" THEN <<e.n>> ELSE <<>>) \o InChannel("frame")'
           /\ InChannel("bytes") = (IF e.k = "bytes" THEN <<e.n>> ELSE <<>>) \o InChannel("bytes")'
           /\ InChannel("frame")' \in Seq(Nat) /\ InChannel("bytes")' \in Seq(Inputs)
<1> DEFINE es == chan.events
           e == Head(es)
           one == <<e>>
           less == Tail(es)
<1>1. es \in Seq(Events) /\ es # <<>>
  BY DEF SocketType, Channels
<1>2. e \in Events /\ less \in Seq(Events) /\ es = one \o less /\ one \in Seq(Events)
  BY <1>1, HeadAndTail, OneType
<1> HIDE DEF es
<1>3. chan'.events = less /\ chan'.dropped = chan.dropped /\ chan' \in Channels
  <2>1. chan' = [chan EXCEPT !.events = less]
    BY DEF es
  <2> HIDE DEF less
  <2> QED BY <1>2, <2>1 DEF SocketType, Channels
<1> HIDE DEF less, e
<1>4. /\ Carried("frame", one) = (IF e.k = "frame" THEN <<e.n>> ELSE <<>>)
      /\ Carried("bytes", one) = (IF e.k = "bytes" THEN <<e.n>> ELSE <<>>)
  BY <1>2, CarriedJoin
<1> HIDE DEF one
<1>5. /\ Carried("frame", one \o less) = Carried("frame", one) \o Carried("frame", less)
      /\ Carried("bytes", one \o less) = Carried("bytes", one) \o Carried("bytes", less)
  BY <1>2, CarriedJoin
<1>6. ASSUME NEW k PROVE InChannel(k) = Carried(k, es) /\ InChannel(k)' = Carried(k, less)
  <2>1. InChannel(k) = Carried(k, es)
    BY <1>1, ChannelCarries DEF es
  <2>2. \A i \in DOMAIN less : less[i] \in Events
    BY <1>2
  <2>3. [i \in DOMAIN less |-> CarriedOf(k)[less[i]]]
          = [i \in DOMAIN less |-> IF less[i].k = k THEN <<less[i].n>> ELSE <<>>]
    BY <2>2 DEF CarriedOf
  <2>4. chan'.events = less
    BY <1>3
  <2>5. InChannel(k)' = Carried(k, less)
    BY ONLY Zenon, <2>3, <2>4 DEF InChannel, Carried, Spread
  <2> QED BY <2>1, <2>5
<1>7. /\ InChannel("frame") = (IF e.k = "frame" THEN <<e.n>> ELSE <<>>) \o InChannel("frame")'
      /\ InChannel("bytes") = (IF e.k = "bytes" THEN <<e.n>> ELSE <<>>) \o InChannel("bytes")'
  BY Zenon, <1>2, <1>4, <1>5, <1>6
<1>8. Carried("frame", less) \in Seq(Nat) /\ Carried("bytes", less) \in Seq(Inputs)
  BY <1>2, CarriedJoin
<1>9. InChannel("frame")' \in Seq(Nat) /\ InChannel("bytes")' \in Seq(Inputs)
  BY Zenon, <1>6, <1>8
<1> QED BY Zenon, <1>2, <1>3, <1>7, <1>9 DEF e, es, less

\* What each queue of the two rows is a list of.
LEMMA QueuesTyped ==
    ASSUME SocketType
    PROVE  /\ page.shown \in Seq(Nat) /\ sock.out \in Seq(Nat) /\ writer.buffer \in Seq(Nat)
           /\ OnTheWay \in Seq(Nat) /\ OnlyFrames(OnTheWay) \in Seq(Nat)
           /\ InChannel("frame") \in Seq(Nat) /\ InHand(framer) \in Seq(Nat) /\ hubQ.queue \in Seq(Nat)
           /\ InChannel("bytes") \in Seq(Inputs) /\ InHand(reader) \in Seq(Inputs) /\ sock.in \in Seq(Inputs)
           /\ heard \in Seq(Nat) /\ Words(InChannel("bytes")) \in Seq(Nat)
           /\ Words(InHand(reader)) \in Seq(Nat) /\ Words(sock.in) \in Seq(Nat)
<1>1. /\ page.shown \in Seq(Nat) /\ sock.out \in Seq(Nat) /\ writer.buffer \in Seq(Nat)
      /\ sock.in \in Seq(Inputs) /\ heard \in Seq(Nat) /\ chan.events \in Seq(Events)
  BY DEF SocketType, Pages, Sockets, Writers, Channels
<1>2. hubQ.queue \in Seq(Nat)
  <2>1. hubQ.queue \in Seq(Nat \ {0})
    BY DEF SocketType, Hubs
  <2> QED BY <2>1
<1>3. OnTheWay \in Seq(Nat)
  <2>1. Cat(page.shown, sock.out) \in Seq(Nat)
    BY <1>1, CatIs
  <2> QED BY <1>1, <2>1, CatIs DEF OnTheWay
<1>4. OnlyFrames(OnTheWay) \in Seq(Nat)
  BY <1>3, OnlyFramesJoin
<1>5. InChannel("frame") \in Seq(Nat) /\ InChannel("bytes") \in Seq(Inputs)
  <2>1. Carried("frame", chan.events) \in Seq(Nat) /\ Carried("bytes", chan.events) \in Seq(Inputs)
    BY <1>1, CarriedJoin
  <2> QED BY <1>1, <2>1, ChannelCarries
<1>6. InHand(framer) \in Seq(Nat) /\ InHand(reader) \in Seq(Inputs)
  <2>1. framer.n \in Nat /\ reader.n \in Inputs
    BY DEF SocketType, Framers, Readers
  <2> QED BY <2>1 DEF InHand
<1>7. /\ Words(InChannel("bytes")) \in Seq(Nat) /\ Words(InHand(reader)) \in Seq(Nat)
      /\ Words(sock.in) \in Seq(Nat)
  BY <1>1, <1>5, <1>6, WordsJoin
<1> QED BY <1>1, <1>2, <1>3, <1>4, <1>5, <1>6, <1>7

\* There are no more frames than there are entries.
LEMMA OnlyFramesShort == ASSUME NEW s \in Seq(Nat) PROVE Len(OnlyFrames(s)) =< Len(s)
<1> DEFINE G == {t \in Seq(Nat) : Len(OnlyFrames(t)) =< Len(t)}
<1>1. <<>> \in G
  <2>1. <<>> \in Seq(Nat) /\ Len(<<>>) = 0 /\ 0 =< 0
    OBVIOUS
  <2> QED BY <2>1, OnlyFramesJoin
<1>2. ASSUME NEW t \in Seq(Nat), NEW n \in Nat, t \in G PROVE Append(t, n) \in G
  <2> DEFINE more == IF n = 0 THEN <<>> ELSE <<n>>
  <2>1. Append(t, n) \in Seq(Nat) /\ Len(Append(t, n)) = Len(t) + 1 /\ Len(t) \in Nat
    OBVIOUS
  <2>2. more \in Seq(Nat) /\ Len(more) \in 0 .. 1
    OBVIOUS
  <2>3. OnlyFrames(Append(t, n)) = OnlyFrames(t) \o more /\ OnlyFrames(t) \in Seq(Nat)
    BY OnlyFramesJoin
  <2> HIDE DEF more
  <2>4. Len(OnlyFrames(t) \o more) = Len(OnlyFrames(t)) + Len(more) /\ Len(OnlyFrames(t)) \in Nat
    BY <2>2, <2>3, ConcatProperties, LenProperties
  <2>5. Len(OnlyFrames(t)) =< Len(t)
    BY <1>2
  <2>6. Len(more) \in 0 .. 1 /\ Len(t) \in Nat /\ Len(OnlyFrames(t)) \in Nat
    BY Zenon, <2>1, <2>2, <2>4
  <2>7. \A a, b \in Nat, c \in 0 .. 1 : a =< b => a + c =< b + 1
    OBVIOUS
  <2>8. Len(OnlyFrames(t)) + Len(more) =< Len(t) + 1
    BY Zenon, <2>5, <2>6, <2>7
  <2>9. Len(OnlyFrames(Append(t, n))) = Len(OnlyFrames(t)) + Len(more)
    BY Zenon, <2>3, <2>4
  <2> QED BY <2>1, <2>8, <2>9
<1>3. s \in G
  <2> HIDE DEF G
  <2> QED BY <1>1, <1>2, ListInduction
<1> QED BY <1>3

\* An entry of two queues in a row is in one of them.
LEMMA InEither ==
    ASSUME NEW S, NEW a \in Seq(S), NEW b \in Seq(S), NEW X
    PROVE  Has(a \o b, X) <=> Has(a, X) \/ Has(b, X)
<1> DEFINE c == a \o b
<1>1. /\ DOMAIN a = 1 .. Len(a) /\ DOMAIN b = 1 .. Len(b) /\ DOMAIN c = 1 .. Len(a) + Len(b)
      /\ Len(a) \in Nat /\ Len(b) \in Nat
  OBVIOUS
<1>2. (\A i \in 1 .. Len(a) : c[i] = a[i]) /\ \A i \in 1 .. Len(b) : c[Len(a) + i] = b[i]
  OBVIOUS
<1> HIDE DEF c
<1>3. ASSUME NEW i \in DOMAIN c, c[i] \in X PROVE Has(a, X) \/ Has(b, X)
  <2>1. CASE i \in 1 .. Len(a)
    BY <1>1, <1>2, <1>3, <2>1 DEF Has
  <2>2. CASE i \notin 1 .. Len(a)
    <3>1. i - Len(a) \in 1 .. Len(b) /\ Len(a) + (i - Len(a)) = i
      BY <1>1, <2>2
    <3>2. b[i - Len(a)] \in X
      BY <1>2, <1>3, <3>1
    <3> QED BY <1>1, <3>1, <3>2 DEF Has
  <2> QED BY <2>1, <2>2
<1>4. ASSUME NEW i \in DOMAIN a, a[i] \in X PROVE Has(c, X)
  BY <1>1, <1>2, <1>4 DEF Has
<1>5. ASSUME NEW i \in DOMAIN b, b[i] \in X PROVE Has(c, X)
  <2>1. Len(a) + i \in DOMAIN c /\ c[Len(a) + i] \in X
    BY <1>1, <1>2, <1>5
  <2> QED BY <2>1 DEF Has
<1>6. Has(c, X) <=> Has(a, X) \/ Has(b, X)
  BY <1>3, <1>4, <1>5 DEF Has
<1> QED BY <1>6 DEF c

\* The same of a queue that gains an entry at its end or loses its head.
LEMMA HasMore ==
    ASSUME NEW S, NEW q \in Seq(S), NEW X
    PROVE  /\ ~Has(<<>>, X) /\ \A n : Has(<<n>>, X) <=> n \in X
           /\ \A n \in S : Has(Append(q, n), X) <=> Has(q, X) \/ n \in X
           /\ q # <<>> => (Has(q, X) <=> Head(q) \in X \/ Has(Tail(q), X))
<1>1. ~Has(<<>>, X) /\ \A n : Has(<<n>>, X) <=> n \in X
  BY DEF Has
<1>2. ASSUME NEW n \in S PROVE Has(Append(q, n), X) <=> Has(q, X) \/ n \in X
  <2> DEFINE one == <<n>>
  <2>1. Append(q, n) = q \o one /\ one \in Seq(S) /\ (Has(one, X) <=> n \in X)
    BY <1>1, OneMore, OneType
  <2> HIDE DEF one
  <2>2. Has(q \o one, X) <=> Has(q, X) \/ Has(one, X)
    BY <2>1, InEither
  <2> QED BY Zenon, <2>1, <2>2
<1>3. ASSUME q # <<>> PROVE Has(q, X) <=> Head(q) \in X \/ Has(Tail(q), X)
  <2> DEFINE one == <<Head(q)>>
             rest == Tail(q)
  <2>1. q = one \o rest /\ Head(q) \in S /\ rest \in Seq(S)
    BY <1>3, HeadAndTail
  <2>2. one \in Seq(S) /\ (Has(one, X) <=> Head(q) \in X)
    BY <1>1, <2>1, OneType
  <2> HIDE DEF one, rest
  <2>3. Has(one \o rest, X) <=> Has(one, X) \/ Has(rest, X)
    BY <2>1, <2>2, InEither
  <2> QED BY Zenon, <2>1, <2>2, <2>3 DEF rest
<1> QED BY <1>1, <1>2, <1>3

\* A pong and a close frame are no messages.
LEMMA SaysNothing ==
    ASSUME NEW q \in Seq(Inputs), NEW n \in {0, Close}
    PROVE  Append(q, n) \in Seq(Inputs) /\ Words(Append(q, n)) = Words(q) /\ Words(<<n>>) = <<>>
<1>1. n \in Inputs /\ ~(n > 0)
  BY DEF Inputs, Close
<1>2. Append(q, n) \in Seq(Inputs)
  BY <1>1
<1>3. Words(Append(q, n)) = Words(q) \o (IF n > 0 THEN <<n>> ELSE <<>>)
  BY <1>1, WordsJoin
<1>4. Words(q) \o <<>> = Words(q) /\ Words(<<n>>) = <<>>
  BY <1>1, WordsJoin
<1> QED BY Zenon, <1>1, <1>2, <1>3, <1>4

\* The frames on their way, queue by queue.
LEMMA FramesThere ==
    ASSUME NEW a \in Seq(Nat), NEW b \in Seq(Nat), NEW c \in Seq(Nat)
    PROVE  OnlyFrames(Cat(Cat(a, b), c)) = Cat(Cat(OnlyFrames(a), OnlyFrames(b)), OnlyFrames(c))
<1> DEFINE d == a \o b
<1>1. d \in Seq(Nat)
  BY ConcatProperties
<1>2. OnlyFrames(d) = OnlyFrames(a) \o OnlyFrames(b)
  BY OnlyFramesJoin
<1> HIDE DEF d
<1>3. OnlyFrames(d \o c) = OnlyFrames(d) \o OnlyFrames(c)
  BY <1>1, OnlyFramesJoin
<1> QED BY Zenon, <1>2, <1>3 DEF Cat, d

\* A queue of what is written, and one of what the page sent, lose their head.
LEMMA HeadSplits ==
    /\ \A q \in Seq(Nat) : q # <<>> =>
         /\ Head(q) \in Nat /\ Tail(q) \in Seq(Nat)
         /\ OnlyFrames(q) = Cat(OnlyFrames(<<Head(q)>>), OnlyFrames(Tail(q)))
    /\ \A q \in Seq(Inputs) : q # <<>> =>
         /\ Head(q) \in Inputs /\ Tail(q) \in Seq(Inputs)
         /\ Words(q) = Cat(Words(<<Head(q)>>), Words(Tail(q)))
<1>1. ASSUME NEW q \in Seq(Nat), q # <<>>
      PROVE  /\ Head(q) \in Nat /\ Tail(q) \in Seq(Nat)
             /\ OnlyFrames(q) = Cat(OnlyFrames(<<Head(q)>>), OnlyFrames(Tail(q)))
  <2> DEFINE one == <<Head(q)>>
             rest == Tail(q)
  <2>1. Head(q) \in Nat /\ rest \in Seq(Nat) /\ q = one \o rest
    BY <1>1, HeadAndTail
  <2>2. one \in Seq(Nat)
    BY <2>1, OneType
  <2> HIDE DEF one, rest
  <2>3. OnlyFrames(one \o rest) = OnlyFrames(one) \o OnlyFrames(rest)
    BY <2>1, <2>2, OnlyFramesJoin
  <2> QED BY Zenon, <2>1, <2>3 DEF Cat, one, rest
<1>2. ASSUME NEW q \in Seq(Inputs), q # <<>>
      PROVE  /\ Head(q) \in Inputs /\ Tail(q) \in Seq(Inputs)
             /\ Words(q) = Cat(Words(<<Head(q)>>), Words(Tail(q)))
  <2> DEFINE one == <<Head(q)>>
             rest == Tail(q)
  <2>1. Head(q) \in Inputs /\ rest \in Seq(Inputs) /\ q = one \o rest
    BY <1>2, HeadAndTail
  <2>2. one \in Seq(Inputs)
    BY <2>1, OneType
  <2> HIDE DEF one, rest
  <2>3. Words(one \o rest) = Words(one) \o Words(rest)
    BY <2>1, <2>2, WordsJoin
  <2> QED BY Zenon, <2>1, <2>3 DEF Cat, one, rest
<1> QED BY <1>1, <1>2

\* What is heard begins the row of the page's messages.
LEMMA HeardBegins ==
    ASSUME NEW h \in Seq(Nat), NEW a \in Seq(Nat), NEW b \in Seq(Nat), NEW c \in Seq(Nat)
    PROVE  IsPrefix(h, Row(h, a, b, c))
<1>1. Cat(a, b) \in Seq(Nat) /\ Cat(Cat(h, a), b) = Cat(h, Cat(a, b))
  BY CatIs
<1>2. /\ Cat(Cat(a, b), c) \in Seq(Nat)
      /\ Cat(Cat(h, Cat(a, b)), c) = Cat(h, Cat(Cat(a, b), c))
  BY <1>1, CatIs
<1> DEFINE y == Cat(Cat(a, b), c)
<1>3. y \in Seq(Nat)
  BY <1>2
<1> HIDE DEF y
<1>4. IsPrefix(h, h \o y)
  BY <1>3, BeginsIt
<1> QED BY Zenon, <1>1, <1>2, <1>4 DEF Row, Cat, y

\* Before anything was sent nothing is on its way.
LEMMA SocketStarts == ASSUME TSInit PROVE SocketInv
<1>1. PICK load \in Traffic :
        /\ hubQ = [queue |-> <<>>, listed |-> TRUE, sent |-> 0, max |-> load[1]]
        /\ page = [mode |-> "reads", slept |-> FALSE, shown |-> <<>>, sent |-> 0, max |-> load[2]]
  BY DEF TSInit
<1>2. load[1] \in Nat /\ load[2] \in Nat
  <2>1. load \in Nat \X Nat
    BY SocketAssumption
  <2> QED BY <2>1
<1>3. SocketType
  <2>1. <<>> \in Seq(Nat) /\ <<>> \in Seq(Nat \ {0}) /\ <<>> \in Seq(Events) /\ <<>> \in Seq(Inputs) /\ 0 \in Inputs
    BY DEF Inputs
  <2>2. hubQ \in Hubs /\ page \in Pages
    BY <1>1, <1>2, <2>1 DEF Hubs, Pages
  <2>3. reader \in Readers /\ framer \in Framers /\ chan \in Channels /\ sock \in Sockets
    BY <2>1 DEF TSInit, Readers, Framers, Channels, Sockets
  <2>4. writer \in Writers /\ quiet \in [heard : Nat, asked : Nat] /\ heard \in Seq(Nat) /\ linkStop \in BOOLEAN
    BY <2>1 DEF TSInit, Writers
  <2> QED BY <2>2, <2>3, <2>4 DEF SocketType
<1>4. PlacesKept
  BY <1>1 DEF TSInit, PlacesKept
<1>5. /\ page.shown = <<>> /\ sock.out = <<>> /\ writer.buffer = <<>> /\ chan.events = <<>>
      /\ InHand(framer) = <<>> /\ hubQ.queue = <<>> /\ hubQ.sent = 0 /\ InHand(reader) = <<>>
      /\ sock.in = <<>> /\ page.sent = 0 /\ heard = <<>>
  BY <1>1 DEF TSInit, InHand
<1>6. <<>> \o <<>> = <<>> /\ Count(0) = <<>>
  BY DEF Count
<1>7. InChannel("frame") = <<>> /\ InChannel("bytes") = <<>>
  <2>1. Carried("frame", <<>>) = <<>> /\ Carried("bytes", <<>>) = <<>>
    BY CarriedJoin
  <2>2. chan.events \in Seq(Events)
    BY <1>3 DEF SocketType, Channels
  <2>3. InChannel("frame") = Carried("frame", chan.events) /\ InChannel("bytes") = Carried("bytes", chan.events)
    BY <2>2, ChannelCarries
  <2> QED BY Zenon, <1>5, <2>1, <2>3
<1>8. FramesKept
  <2>1. OnlyFrames(OnTheWay) = <<>>
    BY Zenon, <1>5, <1>6, OnlyFramesJoin DEF OnTheWay, Cat
  <2> QED BY Zenon, <1>5, <1>6, <1>7, <2>1 DEF FramesKept, Row, Cat
<1>9. MessagesOnTheWay = Count(page.sent)
  BY Zenon, <1>5, <1>6, <1>7, WordsJoin DEF MessagesOnTheWay, Row, Cat
<1>10. IsPrefix(heard, Count(page.sent))
  <2>1. <<>> \in Seq(Nat)
    OBVIOUS
  <2>2. IsPrefix(<<>>, <<>> \o <<>>)
    BY <2>1, BeginsIt
  <2> QED BY Zenon, <1>5, <1>6, <2>2
<1>11. BatchKept
  <2>1. Len(OnlyFrames(writer.buffer)) = 0 /\ Len(writer.buffer) = 0
    <3>1. Len(<<>>) = 0
      OBVIOUS
    <3> QED BY Zenon, <1>5, <3>1, OnlyFramesJoin
  <2>2. writer.batch = 0 /\ writer.pc = "open"
    BY DEF TSInit
  <2> QED BY <2>1, <2>2, SocketAssumption DEF BatchKept
<1>12. AwakeKept
  <2>1. PingAfter \in Nat /\ WireSize \in Nat
    BY SocketAssumption
  <2>2. Len(sock.out) = 0
    BY <1>5
  <2>3. quiet.heard = 0 /\ quiet.asked = 0 /\ writer.why = "none" /\ sock.up
    BY DEF TSInit
  <2> QED BY <2>1, <2>2, <2>3 DEF AwakeKept
<1> QED BY <1>3, <1>4, <1>8, <1>9, <1>10, <1>11, <1>12 DEF SocketInv, WordsKept

\* queue_locked: a frame more in the client's queue, or the client let go.
LEMMA HubSendsKeeps == ASSUME SocketInv, HubSends PROVE SocketInv'
<1>1. /\ SocketType /\ PlacesKept /\ FramesKept /\ WordsKept /\ BatchKept /\ AwakeKept
  BY DEF SocketInv
<1>2. UNCHANGED <<reader, framer, chan, writer, quiet, page, heard, linkStop>>
  BY DEF HubSends
<1>3. CASE Len(hubQ.queue) < HubDepth
  <2> DEFINE n == hubQ.sent + 1
             q == Append(hubQ.queue, n)
  <2>1. hubQ' = [hubQ EXCEPT !.sent = n, !.queue = q] /\ sock' = sock
    BY <1>3 DEF HubSends
  <2>2. hubQ.sent \in Nat /\ n \in Nat \ {0} /\ q \in Seq(Nat \ {0})
    BY <1>1 DEF SocketType, Hubs
  <2>3. q = hubQ.queue \o <<n>> /\ <<n>> \in Seq(Nat)
    <3>1. hubQ.queue \in Seq(Nat) /\ n \in Nat
      BY <1>1, <2>2, QueuesTyped
    <3> HIDE DEF n
    <3> QED BY <3>1, OneMore, OneType
  <2> HIDE DEF q
  <2>4. hubQ'.sent = n /\ hubQ'.queue = q /\ hubQ'.listed = hubQ.listed
    BY <1>1, <2>1 DEF SocketType, Hubs
  <2>5. SocketType'
    <3>1. hubQ' \in Hubs
      BY <1>1, <2>1, <2>2 DEF SocketType, Hubs
    <3> QED BY Zenon, <1>1, <1>2, <2>1, <3>1 DEF SocketType
  <2>6. PlacesKept'
    BY <1>1, <1>2, <2>1, <2>4 DEF PlacesKept
  <2>7. FramesKept'
    <3> DEFINE x == OnlyFrames(OnTheWay)
               c == InChannel("frame")
               h == InHand(framer)
               w == hubQ.queue
               one == <<n>>
    <3>1. x' = x /\ c' = c /\ h' = h
      BY Zenon, <1>2, <2>1 DEF OnTheWay, OnlyFrames, InChannel, InHand
    <3>2. x \in Seq(Nat) /\ c \in Seq(Nat) /\ h \in Seq(Nat) /\ w \in Seq(Nat) /\ one \in Seq(Nat)
      BY Zenon, <1>1, <2>3, QueuesTyped
    <3>3. Count(n) = Append(Count(hubQ.sent), n) /\ Count(hubQ.sent) \in Seq(Nat) /\ n \in Nat
      BY <2>2, CountMore
    <3> HIDE DEF n
    <3>4. Append(Count(hubQ.sent), n) = Count(hubQ.sent) \o <<n>>
      BY <3>3, OneMore
    <3> HIDE DEF x, c, h, w, one
    <3>5. Row(x, c, h, Cat(w, one)) = Cat(Row(x, c, h, w), one)
      BY <3>2, AddedAtEnd
    <3>6. writer.pc \in Serving \cup {"open"} => Row(x, c, h, w \o one) = Count(n)
      BY Zenon, <1>1, <3>3, <3>4, <3>5 DEF FramesKept, Cat, x, c, h, w, one
    <3> QED BY Zenon, <1>2, <2>3, <2>4, <3>1, <3>6 DEF FramesKept, Count, x, c, h, w, one
  <2>8. WordsKept'
    BY Zenon, <1>1, <1>2, <2>1, WordsStand
  <2>9. BatchKept'
    BY Zenon, <1>1, <1>2, BatchStands
  <2>10. AwakeKept'
    <3>1. (Awake' => Awake) /\ Len(sock'.out) =< WireSize
      BY Zenon, <1>1, <1>2, <2>1, <2>4 DEF Awake, AwakeKept
    <3>2. Asked => Asked'
      BY Zenon, <1>2, <2>1, AskedStands
    <3> QED BY Zenon, <1>1, <1>2, <2>1, <3>1, <3>2, AwakeStands
  <2> QED BY <2>5, <2>6, <2>7, <2>8, <2>9, <2>10 DEF SocketInv
<1>4. CASE ~(Len(hubQ.queue) < HubDepth)
  <2>1. hubQ' = [hubQ EXCEPT !.listed = FALSE] /\ sock' = [sock EXCEPT !.up = FALSE]
    BY <1>4 DEF HubSends
  <2>2. /\ hubQ'.listed = FALSE /\ hubQ'.sent = hubQ.sent /\ hubQ'.queue = hubQ.queue
        /\ sock'.out = sock.out /\ sock'.in = sock.in
    BY <1>1, <2>1 DEF SocketType, Hubs, Sockets
  <2>3. SocketType'
    <3>1. hubQ' \in Hubs /\ sock' \in Sockets
      BY <1>1, <2>1 DEF SocketType, Hubs, Sockets
    <3> QED BY Zenon, <1>1, <1>2, <3>1 DEF SocketType
  <2>4. PlacesKept'
    BY <1>1, <1>2, <2>2 DEF PlacesKept
  <2>5. FramesKept'
    <3>1. InHand(framer)' = InHand(framer)
      BY <1>2 DEF InHand
    <3> QED BY Zenon, <1>1, <1>2, <2>2, <3>1, FramesStand
  <2>6. WordsKept'
    <3>1. InHand(reader)' = InHand(reader)
      BY <1>2 DEF InHand
    <3> QED BY Zenon, <1>1, <1>2, <2>2, <3>1, WordsStand
  <2>7. BatchKept'
    BY Zenon, <1>1, <1>2, BatchStands
  <2>8. AwakeKept'
    <3>1. ~Awake'
      BY <2>2 DEF Awake
    <3> QED BY Zenon, <1>1, <1>2, <2>2, <3>1 DEF AwakeKept
  <2> QED BY <2>3, <2>4, <2>5, <2>6, <2>7, <2>8 DEF SocketInv
<1> QED BY <1>3, <1>4

\* The page reads: a ping is answered, a frame is shown.
LEMMA PageReadsKeeps == ASSUME SocketInv, PageReads PROVE SocketInv'
<1> DEFINE n == Head(sock.out)
           rest == Tail(sock.out)
<1>1. /\ SocketType /\ PlacesKept /\ FramesKept /\ WordsKept /\ BatchKept /\ AwakeKept
  BY DEF SocketInv
<1>2. /\ UNCHANGED <<hubQ, reader, framer, chan, writer, quiet, heard, linkStop>>
      /\ page.mode = "reads" /\ sock.out # <<>>
  BY DEF PageReads
<1>3. /\ sock.out \in Seq(Nat) /\ n \in Nat /\ rest \in Seq(Nat) /\ page.shown \in Seq(Nat)
      /\ OnlyFrames(sock.out) = Cat(OnlyFrames(<<n>>), OnlyFrames(rest))
  BY <1>1, <1>2, QueuesTyped, HeadSplits
<1>4. Len(rest) =< WireSize
  <2>1. Len(sock.out) =< WireSize /\ WireSize \in Nat
    BY <1>1, SocketAssumption DEF AwakeKept
  <2>2. Len(rest) = Len(sock.out) - 1 /\ Len(sock.out) \in Nat
    BY <1>2, <1>3
  <2> QED BY <2>1, <2>2
<1>5. Has(sock.out, {0}) <=> n \in {0} \/ Has(rest, {0})
  BY <1>2, <1>3, HasMore
<1>6. CASE n = 0
  <2> DEFINE in == IF sock.up THEN Append(sock.in, 0) ELSE sock.in
  <2>1. sock' = [sock EXCEPT !.out = rest, !.in = in] /\ page' = page
    BY <1>6 DEF PageReads
  <2>2. sock.in \in Seq(Inputs) /\ 0 \in Inputs /\ sock.up \in BOOLEAN
    BY <1>1 DEF SocketType, Sockets, Inputs
  <2>3. in \in Seq(Inputs) /\ Words(in) = Words(sock.in) /\ (sock.up => Has(in, Nat))
    <3>1. CASE sock.up
      <4>1. in = Append(sock.in, 0) /\ in \in Seq(Inputs)
        BY <2>2, <3>1
      <4>2. Words(Append(sock.in, 0)) = Words(sock.in)
        BY <2>2, SaysNothing
      <4>3. Has(Append(sock.in, 0), Nat)
        BY <2>2, HasMore
      <4> QED BY Zenon, <4>1, <4>2, <4>3
    <3>2. CASE ~sock.up
      BY <2>2, <3>2
    <3> QED BY <3>1, <3>2
  <2> HIDE DEF n, rest, in
  <2>4. sock'.out = rest /\ sock'.in = in /\ sock'.up = sock.up /\ sock' \in Sockets
    BY <1>1, <1>3, <2>1, <2>3 DEF SocketType, Sockets
  <2>5. SocketType'
    BY Zenon, <1>1, <1>2, <2>1, <2>4 DEF SocketType
  <2>6. PlacesKept'
    BY Zenon, <1>1, <1>2, <2>1 DEF PlacesKept
  <2>7. OnlyFrames(OnTheWay)' = OnlyFrames(OnTheWay)
    <3>1. /\ OnlyFrames(Cat(Cat(page.shown, sock.out), writer.buffer))
               = Cat(Cat(OnlyFrames(page.shown), OnlyFrames(sock.out)), OnlyFrames(writer.buffer))
          /\ OnlyFrames(Cat(Cat(page.shown, rest), writer.buffer))
               = Cat(Cat(OnlyFrames(page.shown), OnlyFrames(rest)), OnlyFrames(writer.buffer))
      <4>1. page.shown \in Seq(Nat) /\ sock.out \in Seq(Nat) /\ rest \in Seq(Nat) /\ writer.buffer \in Seq(Nat)
        BY Zenon, <1>1, <1>3, QueuesTyped
      <4> QED BY <4>1, FramesThere
    <3>2. OnlyFrames(<<n>>) = <<>> /\ OnlyFrames(rest) \in Seq(Nat)
      BY <1>3, <1>6, OnlyFramesJoin
    <3>3. Cat(<<>>, OnlyFrames(rest)) = OnlyFrames(rest)
      BY <3>2, CatIs
    <3> QED BY Zenon, <1>2, <1>3, <2>1, <2>4, <3>1, <3>2, <3>3 DEF OnTheWay
  <2>8. InHand(framer)' = InHand(framer) /\ InHand(reader)' = InHand(reader)
    BY Zenon, <1>2
  <2>9. InChannel("frame")' = InChannel("frame") /\ InChannel("bytes")' = InChannel("bytes")
    BY Zenon, <1>2 DEF InChannel
  <2>10. FramesKept'
    BY Zenon, <1>1, <1>2, <2>7, <2>8, <2>9, FramesMove
  <2>11. WordsKept'
    BY Zenon, <1>1, <1>2, <2>1, <2>3, <2>4, <2>8, <2>9, WordsMove
  <2>12. BatchKept'
    BY Zenon, <1>1, <1>2, BatchStands
  <2>13. AwakeKept'
    <3>1. Awake' => Awake
      BY Zenon, <1>2, <2>1 DEF Awake
    <3>2. Awake /\ writer.pc \in Serving \cup {"open"} => Asked'
      BY Zenon, <1>1, <2>3, <2>4 DEF AwakeKept, Asked
    <3> QED BY Zenon, <1>1, <1>2, <1>4, <2>4, <3>1, <3>2 DEF AwakeKept
  <2> QED BY <2>5, <2>6, <2>10, <2>11, <2>12, <2>13 DEF SocketInv
<1>7. CASE n # 0
  <2> DEFINE more == Append(page.shown, n)
  <2>1. sock' = [sock EXCEPT !.out = rest] /\ page' = [page EXCEPT !.shown = more]
    BY <1>7 DEF PageReads
  <2>2. more \in Seq(Nat) /\ OnlyFrames(more) = Cat(OnlyFrames(page.shown), OnlyFrames(<<n>>))
    <3>1. more \in Seq(Nat)
      BY <1>3
    <3>2. OnlyFrames(more) = OnlyFrames(page.shown) \o OnlyFrames(<<n>>)
      <4>1. /\ OnlyFrames(more) = OnlyFrames(page.shown) \o (IF n = 0 THEN <<>> ELSE <<n>>)
            /\ OnlyFrames(<<n>>) = IF n = 0 THEN <<>> ELSE <<n>>
        BY <1>3, OnlyFramesJoin
      <4> QED BY Zenon, <4>1
    <3> QED BY Zenon, <3>1, <3>2 DEF Cat
  <2> HIDE DEF n, rest, more
  <2>3. sock'.out = rest /\ sock'.in = sock.in /\ sock'.up = sock.up /\ sock' \in Sockets
    BY <1>1, <1>3, <2>1 DEF SocketType, Sockets
  <2>4. /\ page'.shown = more /\ page'.mode = page.mode /\ page'.slept = page.slept /\ page'.sent = page.sent
        /\ page' \in Pages
    BY <1>1, <2>1, <2>2 DEF SocketType, Pages
  <2>5. SocketType'
    BY Zenon, <1>1, <1>2, <2>3, <2>4 DEF SocketType
  <2>6. PlacesKept'
    BY Zenon, <1>1, <1>2, <2>4 DEF PlacesKept
  <2>7. OnlyFrames(OnTheWay)' = OnlyFrames(OnTheWay)
    <3> DEFINE s == OnlyFrames(page.shown)
               h == OnlyFrames(<<n>>)
               t == OnlyFrames(rest)
    <3>1. /\ OnlyFrames(Cat(Cat(page.shown, sock.out), writer.buffer))
               = Cat(Cat(OnlyFrames(page.shown), OnlyFrames(sock.out)), OnlyFrames(writer.buffer))
          /\ OnlyFrames(Cat(Cat(more, rest), writer.buffer))
               = Cat(Cat(OnlyFrames(more), OnlyFrames(rest)), OnlyFrames(writer.buffer))
      <4>1. /\ page.shown \in Seq(Nat) /\ sock.out \in Seq(Nat) /\ rest \in Seq(Nat) /\ writer.buffer \in Seq(Nat)
            /\ more \in Seq(Nat)
        BY Zenon, <1>1, <1>3, <2>2, QueuesTyped
      <4> QED BY <4>1, FramesThere
    <3>2. <<n>> \in Seq(Nat)
      BY <1>3, OneType
    <3>3. s \in Seq(Nat) /\ h \in Seq(Nat) /\ t \in Seq(Nat)
      BY <1>3, <3>2, OnlyFramesJoin
    <3> HIDE DEF s, h, t
    <3>4. Cat(Cat(s, h), t) = Cat(s, Cat(h, t))
      BY <3>3, CatIs
    <3> QED BY Zenon, <1>2, <1>3, <2>2, <2>3, <2>4, <3>1, <3>4 DEF OnTheWay, s, h, t
  <2>8. InHand(framer)' = InHand(framer) /\ InHand(reader)' = InHand(reader)
    BY Zenon, <1>2
  <2>9. InChannel("frame")' = InChannel("frame") /\ InChannel("bytes")' = InChannel("bytes")
    BY Zenon, <1>2 DEF InChannel
  <2>10. FramesKept'
    BY Zenon, <1>1, <1>2, <2>7, <2>8, <2>9, FramesMove
  <2>11. WordsKept'
    BY Zenon, <1>1, <1>2, <2>3, <2>4, <2>8, WordsStand
  <2>12. BatchKept'
    BY Zenon, <1>1, <1>2, BatchStands
  <2>13. AwakeKept'
    <3>1. Awake' => Awake
      BY Zenon, <1>2, <2>4 DEF Awake
    <3>2. n \notin {0}
      BY <1>7
    <3>3. Asked => Asked'
      BY Zenon, <1>2, <1>5, <2>3, <2>8, <2>9, <3>2 DEF Asked
    <3> QED BY Zenon, <1>1, <1>2, <1>4, <2>3, <3>1, <3>3, AwakeStands
  <2> QED BY <2>5, <2>6, <2>10, <2>11, <2>12, <2>13 DEF SocketInv
<1> QED BY <1>6, <1>7

\* The page sends: its message stands behind everything it sent before.
LEMMA PageSendsKeeps == ASSUME SocketInv, PageSends PROVE SocketInv'
<1> DEFINE n == page.sent + 1
           in == Append(sock.in, n)
<1>1. /\ SocketType /\ PlacesKept /\ FramesKept /\ WordsKept /\ BatchKept /\ AwakeKept
  BY DEF SocketInv
<1>2. UNCHANGED <<hubQ, reader, framer, chan, writer, quiet, heard, linkStop>>
  BY DEF PageSends
<1>3. page' = [page EXCEPT !.sent = n] /\ sock' = [sock EXCEPT !.in = in]
  BY DEF PageSends
<1>4. page.sent \in Nat /\ n \in Nat /\ n > 0 /\ n \in Inputs /\ sock.in \in Seq(Inputs)
  BY <1>1 DEF SocketType, Pages, Sockets, Inputs
<1>5. in \in Seq(Inputs) /\ Words(in) = Cat(Words(sock.in), <<n>>) /\ Has(in, Nat)
  <2> HIDE DEF n
  <2>1. in \in Seq(Inputs)
    BY <1>4
  <2>2. Words(in) = Words(sock.in) \o (IF n > 0 THEN <<n>> ELSE <<>>)
    BY <1>4, WordsJoin
  <2>3. Has(in, Nat)
    BY <1>4, HasMore
  <2> QED BY Zenon, <1>4, <2>1, <2>2, <2>3 DEF Cat
<1> HIDE DEF in
<1>6. /\ page'.sent = n /\ page'.mode = page.mode /\ page'.slept = page.slept /\ page'.shown = page.shown
      /\ page' \in Pages
  BY <1>1, <1>3, <1>4 DEF SocketType, Pages
<1>7. sock'.in = in /\ sock'.out = sock.out /\ sock'.up = sock.up /\ sock' \in Sockets
  BY <1>1, <1>3, <1>5 DEF SocketType, Sockets
<1>8. SocketType'
  BY Zenon, <1>1, <1>2, <1>6, <1>7 DEF SocketType
<1>9. PlacesKept'
  BY Zenon, <1>1, <1>2, <1>6 DEF PlacesKept
<1>10. InHand(framer)' = InHand(framer) /\ InHand(reader)' = InHand(reader)
  BY Zenon, <1>2
<1>11. FramesKept'
  BY Zenon, <1>1, <1>2, <1>6, <1>7, <1>10, FramesStand
<1>12. WordsKept'
  <2> DEFINE b == Words(InChannel("bytes"))
             c == Words(InHand(reader))
             a == Words(sock.in)
             one == <<n>>
  <2>1. b' = b /\ c' = c
    BY Zenon, <1>2, <1>10 DEF InChannel
  <2>2. heard \in Seq(Nat) /\ b \in Seq(Nat) /\ c \in Seq(Nat) /\ a \in Seq(Nat) /\ one \in Seq(Nat)
    <3>1. one \in Seq(Nat)
      BY <1>4, OneType
    <3> QED BY Zenon, <1>1, <3>1, QueuesTyped
  <2>3. /\ Count(n) = Append(Count(page.sent), n) /\ Count(page.sent) \in Seq(Nat)
        /\ Append(Count(page.sent), n) = Count(page.sent) \o <<n>>
    BY <1>4, CountMore, OneMore
  <2>4. IsPrefix(heard, Count(n))
    BY <1>1, <1>4, <2>2, PrefixKeeps DEF WordsKept
  <2> HIDE DEF a, b, c, one, n
  <2>5. Row(heard, b, c, Cat(a, one)) = Cat(Row(heard, b, c, a), one)
    BY <2>2, AddedAtEnd
  <2>6. ~chan.dropped => Row(heard, b, c, Cat(a, one)) = Count(n)
    BY Zenon, <1>1, <2>3, <2>5 DEF WordsKept, MessagesOnTheWay, Cat, a, b, c, one
  <2>7. MessagesOnTheWay' = Row(heard, b, c, Cat(a, one))
    BY Zenon, <1>2, <1>5, <1>7, <2>1 DEF MessagesOnTheWay, a, b, c, one
  <2> QED BY Zenon, <1>2, <1>6, <2>4, <2>6, <2>7 DEF WordsKept, Count
<1>13. BatchKept'
  BY Zenon, <1>1, <1>2, BatchStands
<1>14. AwakeKept'
  <2>1. Awake' => Awake
    BY Zenon, <1>2, <1>6 DEF Awake
  <2>2. Asked'
    BY Zenon, <1>5, <1>7 DEF Asked
  <2> QED BY Zenon, <1>1, <1>2, <1>7, <2>1, <2>2 DEF AwakeKept
<1> QED BY <1>8, <1>9, <1>11, <1>12, <1>13, <1>14 DEF SocketInv

\* The page sleeps, wakes, leaves or vanishes: one that slept is awake no more.
LEMMA PageTurnsKeeps == ASSUME SocketInv, PageTurns PROVE SocketInv'
<1>1. /\ SocketType /\ PlacesKept /\ FramesKept /\ WordsKept /\ BatchKept /\ AwakeKept
  BY DEF SocketInv
<1>2. UNCHANGED <<hubQ, reader, framer, chan, writer, quiet, heard, linkStop>>
  BY DEF PageTurns
<1>3. /\ page' \in Pages /\ page'.shown = page.shown /\ page'.sent = page.sent
      /\ (page'.mode = "sleeps" => page'.slept) /\ (Awake' => Awake)
  BY <1>1, <1>2 DEF PageTurns, SocketType, Pages, PlacesKept, Awake
<1>4. /\ sock' \in Sockets /\ sock'.out = sock.out /\ sock'.up = sock.up
      /\ Words(sock'.in) = Words(sock.in) /\ (Has(sock.in, Nat) => Has(sock'.in, Nat))
  <2>1. CASE sock' = sock
    BY Zenon, <1>1, <2>1 DEF SocketType
  <2>2. CASE sock' # sock
    <3> DEFINE in == Append(sock.in, Close)
    <3>1. sock' = [sock EXCEPT !.in = in]
      BY <2>2 DEF PageTurns
    <3>2. sock.in \in Seq(Inputs) /\ Close \in Inputs
      BY <1>1 DEF SocketType, Sockets, Inputs
    <3>3. in \in Seq(Inputs) /\ Words(in) = Words(sock.in) /\ (Has(sock.in, Nat) => Has(in, Nat))
      BY <3>2, SaysNothing, HasMore
    <3> HIDE DEF in
    <3>4. sock' \in Sockets /\ sock'.out = sock.out /\ sock'.up = sock.up /\ sock'.in = in
      BY <1>1, <3>1, <3>3 DEF SocketType, Sockets
    <3> QED BY Zenon, <3>3, <3>4
  <2> QED BY <2>1, <2>2
<1>5. SocketType'
  BY Zenon, <1>1, <1>2, <1>3, <1>4 DEF SocketType
<1>6. PlacesKept'
  BY Zenon, <1>1, <1>2, <1>3 DEF PlacesKept
<1>7. InHand(framer)' = InHand(framer) /\ InHand(reader)' = InHand(reader)
  BY Zenon, <1>2
<1>8. InChannel("bytes")' = InChannel("bytes")
  BY Zenon, <1>2 DEF InChannel
<1>9. FramesKept'
  BY Zenon, <1>1, <1>2, <1>3, <1>4, <1>7, FramesStand
<1>10. WordsKept'
  BY Zenon, <1>1, <1>2, <1>3, <1>4, <1>7, <1>8, WordsMove
<1>11. BatchKept'
  BY Zenon, <1>1, <1>2, BatchStands
<1>12. AwakeKept'
  <2>1. Asked => Asked'
    BY Zenon, <1>2, <1>4, <1>7, <1>8 DEF Asked
  <2>2. Len(sock'.out) =< WireSize
    BY Zenon, <1>1, <1>4 DEF AwakeKept
  <2> QED BY Zenon, <1>1, <1>2, <1>3, <1>4, <2>1, <2>2, AwakeStands
<1> QED BY <1>5, <1>6, <1>9, <1>10, <1>11, <1>12 DEF SocketInv

\* The system gives up on a page that is not there any more.
LEMMA SystemGivesUpKeeps == ASSUME SocketInv, SystemGivesUp PROVE SocketInv'
<1>1. /\ SocketType /\ PlacesKept /\ FramesKept /\ WordsKept /\ BatchKept /\ AwakeKept
  BY DEF SocketInv
<1>2. /\ UNCHANGED <<hubQ, reader, framer, chan, writer, quiet, page, heard, linkStop>>
      /\ page.mode \in {"left", "gone"}
  BY DEF SystemGivesUp
<1>3. sock' \in Sockets /\ sock'.out = sock.out /\ sock'.in = sock.in
  BY <1>1 DEF SystemGivesUp, SocketType, Sockets
<1>4. SocketType'
  BY Zenon, <1>1, <1>2, <1>3 DEF SocketType
<1>5. PlacesKept'
  BY Zenon, <1>1, <1>2 DEF PlacesKept
<1>6. InHand(framer)' = InHand(framer) /\ InHand(reader)' = InHand(reader)
  BY Zenon, <1>2
<1>7. FramesKept'
  BY Zenon, <1>1, <1>2, <1>3, <1>6, FramesStand
<1>8. WordsKept'
  BY Zenon, <1>1, <1>2, <1>3, <1>6, WordsStand
<1>9. BatchKept'
  BY Zenon, <1>1, <1>2, BatchStands
<1>10. AwakeKept'
  <2>1. ~Awake /\ ~Awake'
    BY <1>2 DEF Awake
  <2> QED BY Zenon, <1>1, <1>2, <1>3, <2>1 DEF AwakeKept
<1> QED BY <1>4, <1>5, <1>7, <1>8, <1>9, <1>10 DEF SocketInv

\* Link::open: the threads are there, or both are gone and the link shuts.
LEMMA OpenLinkKeeps == ASSUME SocketInv, OpenLink PROVE SocketInv'
<1>1. /\ SocketType /\ PlacesKept /\ FramesKept /\ WordsKept /\ BatchKept /\ AwakeKept
  BY DEF SocketInv
<1>2. UNCHANGED <<hubQ, chan, sock, quiet, page, heard>> /\ writer.pc = "open"
  BY DEF OpenLink
<1>3. /\ reader' = [reader EXCEPT !.pc = "top"] /\ reader.pc = "none" /\ framer.pc = "none"
      /\ \E p \in {"take", "done"} : framer' = [framer EXCEPT !.pc = p]
      /\ \E p \in {"drain", "shut"} : writer' = [writer EXCEPT !.pc = p]
      /\ linkStop' \in {linkStop, TRUE}
  BY <1>1, <1>2 DEF OpenLink, PlacesKept
<1>4. reader' \in Readers /\ InHand(reader)' = InHand(reader)
  BY <1>1, <1>3 DEF SocketType, Readers, InHand
<1>5. framer' \in Framers /\ InHand(framer)' = InHand(framer)
  BY <1>1, <1>3 DEF SocketType, Framers, InHand
<1>6. /\ writer' \in Writers /\ writer'.pc \in {"drain", "shut"} /\ writer'.buffer = writer.buffer
      /\ writer'.batch = writer.batch /\ writer'.unflushed = writer.unflushed /\ writer'.why = writer.why
  BY <1>1, <1>3 DEF SocketType, Writers, Serving
<1>7. SocketType'
  <2>1. linkStop' \in BOOLEAN
    BY <1>1, <1>3 DEF SocketType
  <2> QED BY Zenon, <1>1, <1>2, <1>4, <1>5, <1>6, <2>1 DEF SocketType
<1>8. PlacesKept'
  BY <1>1, <1>2, <1>6 DEF PlacesKept
<1>9. FramesKept'
  BY Zenon, <1>1, <1>2, <1>5, <1>6, FramesStand
<1>10. WordsKept'
  BY Zenon, <1>1, <1>2, <1>4, WordsStand
<1>11. BatchKept'
  <2>1. writer.batch = 0 /\ 0 < FlushFrames
    BY <1>1, <1>2, SocketAssumption DEF BatchKept
  <2> QED BY <1>1, <1>6, <2>1 DEF BatchKept
<1>12. AwakeKept'
  <2>1. Awake' => Awake
    BY Zenon, <1>2 DEF Awake
  <2>2. Asked => Asked'
    BY Zenon, <1>2, <1>4, <1>6, AskedStands
  <2>3. Len(sock'.out) =< WireSize
    BY Zenon, <1>1, <1>2 DEF AwakeKept
  <2> QED BY Zenon, <1>1, <1>2, <1>6, <2>1, <2>2, <2>3, AwakeStands
<1> QED BY <1>7, <1>8, <1>9, <1>10, <1>11, <1>12 DEF SocketInv

\* A helper thread goes on to another place with nothing in its hands.
LEMMA ThreadsMove ==
    ASSUME SocketInv, UNCHANGED <<hubQ, chan, writer, sock, quiet, page, heard, linkStop>>,
           reader' \in Readers, framer' \in Framers, writer.pc # "open",
           InHand(reader)' = InHand(reader), InHand(framer)' = InHand(framer)
    PROVE  SocketInv'
<1>1. /\ SocketType /\ PlacesKept /\ FramesKept /\ WordsKept /\ BatchKept /\ AwakeKept
  BY DEF SocketInv
<1>2. SocketType'
  BY Zenon, <1>1 DEF SocketType
<1>3. PlacesKept'
  BY Zenon, <1>1 DEF PlacesKept
<1>4. FramesKept' /\ WordsKept' /\ BatchKept'
  BY Zenon, <1>1, FramesStand, WordsStand, BatchStands
<1>5. AwakeKept'
  <2>1. (Awake' => Awake) /\ Len(sock'.out) =< WireSize
    BY Zenon, <1>1 DEF Awake, AwakeKept
  <2>2. Asked => Asked'
    BY Zenon, AskedStands
  <2> QED BY Zenon, <1>1, <2>1, <2>2, AwakeStands
<1> QED BY <1>2, <1>3, <1>4, <1>5 DEF SocketInv

\* The reader comes by its stop flag.
LEMMA ReaderLooksKeeps == ASSUME SocketInv, ReaderLooks PROVE SocketInv'
<1>1. /\ UNCHANGED <<hubQ, framer, chan, writer, sock, quiet, page, heard, linkStop>> /\ reader.pc = "top"
      /\ \E p \in {"gone", "read"} : reader' = [reader EXCEPT !.pc = p]
  BY DEF ReaderLooks
<1>2. reader' \in Readers /\ InHand(reader)' = InHand(reader)
  BY <1>1 DEF SocketInv, SocketType, Readers, InHand
<1>3. framer' \in Framers /\ writer.pc # "open" /\ InHand(framer)' = InHand(framer)
  BY <1>1 DEF SocketInv, SocketType, PlacesKept
<1> QED BY <1>1, <1>2, <1>3, ThreadsMove

\* The reader takes what came in, or finds that nothing will.
LEMMA ReaderReadsKeeps == ASSUME SocketInv, ReaderReads PROVE SocketInv'
<1>1. /\ SocketType /\ PlacesKept /\ FramesKept /\ WordsKept /\ BatchKept /\ AwakeKept
  BY DEF SocketInv
<1>2. UNCHANGED <<hubQ, framer, chan, writer, quiet, page, heard, linkStop>> /\ reader.pc = "read"
  BY DEF ReaderReads
<1>3. InHand(framer)' = InHand(framer) /\ writer.pc # "open" /\ framer' \in Framers
  BY <1>1, <1>2 DEF SocketType, PlacesKept
<1>4. CASE sock.in # <<>>
  <2> DEFINE n == Head(sock.in)
             rest == Tail(sock.in)
  <2>1. reader' = [pc |-> "send", n |-> n] /\ sock' = [sock EXCEPT !.in = rest]
    BY <1>4 DEF ReaderReads
  <2>2. /\ sock.in \in Seq(Inputs) /\ n \in Inputs /\ rest \in Seq(Inputs)
        /\ Words(sock.in) = Cat(Words(<<n>>), Words(rest))
    BY <1>1, <1>4, QueuesTyped, HeadSplits
  <2>3. Has(sock.in, Nat) <=> n \in Nat \/ Has(rest, Nat)
    BY <1>4, <2>2, HasMore
  <2>4. Has(<<n>>, Nat) <=> n \in Nat
    BY <2>2, HasMore
  <2> HIDE DEF n, rest
  <2>5. reader' \in Readers /\ InHand(reader)' = <<n>>
    BY <2>1, <2>2 DEF Readers, InHand
  <2>6. sock' \in Sockets /\ sock'.in = rest /\ sock'.out = sock.out /\ sock'.up = sock.up
    BY <1>1, <2>1, <2>2 DEF SocketType, Sockets
  <2>7. InHand(reader) = <<>>
    BY <1>2 DEF InHand
  <2>8. SocketType'
    BY Zenon, <1>1, <1>2, <2>5, <2>6 DEF SocketType
  <2>9. PlacesKept'
    BY Zenon, <1>1, <1>2, <1>3 DEF PlacesKept
  <2>10. FramesKept'
    BY Zenon, <1>1, <1>2, <1>3, <2>6, FramesStand
  <2>11. InChannel("bytes")' = InChannel("bytes")
    BY Zenon, <1>2 DEF InChannel
  <2>12. WordsKept'
    <3> DEFINE b == Words(InChannel("bytes"))
               a == Words(sock.in)
               h == Words(<<n>>)
               t == Words(rest)
    <3>1. heard \in Seq(Nat) /\ b \in Seq(Nat)
      BY Zenon, <1>1, QueuesTyped
    <3>2. <<n>> \in Seq(Inputs)
      BY <2>2, OneType
    <3>3. h \in Seq(Nat) /\ t \in Seq(Nat) /\ Words(<<>>) = <<>>
      BY <2>2, <3>2, WordsJoin
    <3>4. a = Cat(h, t)
      BY <2>2
    <3> HIDE DEF a, b, h, t
    <3>5. Row(heard, b, <<>>, Cat(h, t)) = Row(heard, b, h, t)
      <4>1. Cat(heard, b) \in Seq(Nat)
        BY <3>1, CatIs
      <4>2. Cat(Cat(heard, b), <<>>) = Cat(heard, b)
        BY <4>1, CatIs
      <4>3. Cat(Cat(Cat(heard, b), h), t) = Cat(Cat(heard, b), Cat(h, t))
        BY <3>3, <4>1, CatIs
      <4> QED BY Zenon, <4>2, <4>3 DEF Row
    <3>6. MessagesOnTheWay' = MessagesOnTheWay
      BY Zenon, <1>2, <2>5, <2>6, <2>7, <2>11, <3>3, <3>4, <3>5 DEF MessagesOnTheWay, a, b, h, t
    <3> QED BY Zenon, <1>1, <1>2, <3>6 DEF WordsKept, Count
  <2>13. BatchKept'
    BY Zenon, <1>1, <1>2, BatchStands
  <2>14. AwakeKept'
    <3>1. Awake' => Awake
      BY Zenon, <1>2 DEF Awake
    <3>2. ~Has(InHand(reader), Nat)
      BY <2>7 DEF Has
    <3>3. Asked => Asked'
      BY Zenon, <1>2, <2>3, <2>4, <2>5, <2>6, <2>11, <3>2 DEF Asked
    <3>4. Len(sock'.out) =< WireSize
      BY Zenon, <1>1, <2>6 DEF AwakeKept
    <3> QED BY Zenon, <1>1, <1>2, <2>6, <3>1, <3>3, <3>4, AwakeStands
  <2> QED BY <2>8, <2>9, <2>10, <2>12, <2>13, <2>14 DEF SocketInv
<1>5. CASE sock.in = <<>>
  <2>1. sock' = sock /\ \E p \in {"top", "gone"} : reader' = [reader EXCEPT !.pc = p]
    BY <1>5 DEF ReaderReads
  <2>2. reader' \in Readers /\ InHand(reader)' = InHand(reader)
    BY <1>1, <1>2, <2>1 DEF SocketType, Readers, InHand
  <2> QED BY <1>2, <1>3, <2>1, <2>2, ThreadsMove
<1> QED BY <1>4, <1>5

\* The reader hands what it holds to the channel, or says that it is done.
LEMMA ReaderSendsKeeps == ASSUME SocketInv, ReaderSends PROVE SocketInv'
<1>1. /\ SocketType /\ PlacesKept /\ FramesKept /\ WordsKept /\ BatchKept /\ AwakeKept
  BY DEF SocketInv
<1>2. UNCHANGED <<hubQ, framer, writer, sock, quiet, page, heard, linkStop>> /\ reader.pc \in {"send", "gone"}
  BY DEF ReaderSends
<1>3. InHand(framer)' = InHand(framer) /\ writer.pc # "open" /\ framer' \in Framers
  BY <1>1, <1>2 DEF SocketType, PlacesKept
<1>4. /\ \E p \in {"top", "done"} : reader' = [pc |-> p, n |-> 0]
      /\ reader.n \in Inputs
  BY <1>1 DEF ReaderSends, SocketType, Readers
<1>5. reader' \in Readers /\ InHand(reader)' = <<>>
  BY <1>4 DEF Readers, Inputs, InHand
<1>6. (Awake' => Awake) /\ Len(sock'.out) =< WireSize
  BY Zenon, <1>1, <1>2 DEF Awake, AwakeKept
<1>7. BatchKept'
  BY Zenon, <1>1, <1>2, BatchStands
<1>8. ASSUME NEW e \in Events, e.k # "frame", Sends(e),
             InHand(reader) = IF e.k = "bytes" THEN <<e.n>> ELSE <<>>
      PROVE  SocketInv'
  <2> DEFINE h == InHand(reader)
             b == InChannel("bytes")
  <2>1. /\ ~chan.dropped /\ ~chan'.dropped /\ chan' \in Channels
        /\ InChannel("frame")' = InChannel("frame") \o <<>> /\ InChannel("bytes")' = b \o h
    BY <1>1, <1>8, EventSent
  <2>2. InChannel("frame") \in Seq(Nat) /\ b \in Seq(Inputs) /\ h \in Seq(Inputs)
    BY Zenon, <1>1, QueuesTyped
  <2>3. InChannel("frame")' = InChannel("frame")
    <3>1. InChannel("frame") \o <<>> = InChannel("frame")
      BY <2>2, ConcatEmptySeq
    <3> QED BY Zenon, <2>1, <3>1
  <2>4. SocketType'
    BY Zenon, <1>1, <1>2, <1>5, <2>1 DEF SocketType
  <2>5. PlacesKept'
    BY Zenon, <1>1, <1>2, <1>3, <2>1 DEF PlacesKept
  <2>6. FramesKept'
    <3>1. OnlyFrames(OnTheWay)' = OnlyFrames(OnTheWay)
      BY Zenon, <1>2 DEF OnTheWay
    <3> QED BY Zenon, <1>1, <1>2, <1>3, <2>3, <3>1, FramesMove
  <2> HIDE DEF h, b
  <2>7. WordsKept'
    <3> DEFINE d == Words(b)
               g == Words(h)
               a == Words(sock.in)
    <3>1. Words(b \o h) = d \o g /\ Words(<<>>) = <<>>
      BY <2>2, WordsJoin
    <3>2. heard \in Seq(Nat) /\ d \in Seq(Nat) /\ g \in Seq(Nat) /\ a \in Seq(Nat)
      BY Zenon, <1>1, QueuesTyped DEF b, h
    <3> HIDE DEF d, g, a
    <3>3. Row(heard, d, g, a) = Row(heard, Cat(d, g), <<>>, a)
      BY <3>2, PassedToNext
    <3>4. MessagesOnTheWay' = MessagesOnTheWay
      BY Zenon, <1>2, <1>5, <2>1, <3>1, <3>3 DEF MessagesOnTheWay, Cat, a, b, d, g, h
    <3> QED BY Zenon, <1>1, <1>2, <2>1, <3>4 DEF WordsKept, Count
  <2>8. AwakeKept'
    <3>1. Has(b \o h, Nat) <=> Has(b, Nat) \/ Has(h, Nat)
      BY <2>2, InEither
    <3>2. Asked => Asked'
      BY Zenon, <1>2, <2>1, <3>1 DEF Asked, b, h
    <3> QED BY Zenon, <1>1, <1>2, <1>6, <3>2, AwakeStands
  <2> QED BY <1>7, <2>4, <2>5, <2>6, <2>7, <2>8 DEF SocketInv
<1>9. CASE chan.dropped
  <2>1. chan' = chan
    BY <1>9 DEF ReaderSends, Sends
  <2>2. SocketType'
    BY Zenon, <1>1, <1>2, <1>5, <2>1 DEF SocketType
  <2>3. PlacesKept'
    BY Zenon, <1>1, <1>2, <1>3, <2>1 DEF PlacesKept
  <2>4. FramesKept'
    BY Zenon, <1>1, <1>2, <1>3, <2>1, FramesStand
  <2>5. WordsKept'
    BY Zenon, <1>1, <1>2, <1>9, <2>1 DEF WordsKept, Count
  <2>6. AwakeKept'
    <3>1. writer.pc \notin Serving \cup {"open"}
      BY <1>1, <1>9 DEF PlacesKept, Serving
    <3> QED BY Zenon, <1>1, <1>2, <1>6, <3>1 DEF AwakeKept
  <2> QED BY <1>7, <2>2, <2>3, <2>4, <2>5, <2>6 DEF SocketInv
<1>10. CASE ~chan.dropped
  <2>1. CASE reader.pc = "send"
    <3>1. Sends(Ev("bytes", reader.n))
      BY <1>10, <2>1 DEF ReaderSends
    <3>2. /\ Ev("bytes", reader.n) \in Events /\ Ev("bytes", reader.n).k = "bytes"
          /\ Ev("bytes", reader.n).n = reader.n
      BY <1>4 DEF Ev, Events
    <3>3. InHand(reader) = <<reader.n>>
      BY <2>1 DEF InHand
    <3> QED BY <1>8, <3>1, <3>2, <3>3
  <2>2. CASE reader.pc = "gone"
    <3>1. Sends(Ev("gone", 0))
      BY <1>10, <2>2 DEF ReaderSends
    <3>2. Ev("gone", 0) \in Events /\ Ev("gone", 0).k = "gone"
      BY DEF Ev, Events, Inputs
    <3>3. InHand(reader) = <<>>
      BY <2>2 DEF InHand
    <3> QED BY <1>8, <3>1, <3>2, <3>3
  <2> QED BY <1>2, <2>1, <2>2
<1> QED BY <1>9, <1>10

\* The frame thread takes the next frame, or finds that there will be none.
LEMMA FramerTakesKeeps == ASSUME SocketInv, FramerTakes PROVE SocketInv'
<1>1. /\ SocketType /\ PlacesKept /\ FramesKept /\ WordsKept /\ BatchKept /\ AwakeKept
  BY DEF SocketInv
<1>2. UNCHANGED <<reader, chan, writer, sock, quiet, page, heard, linkStop>> /\ framer.pc = "take"
  BY DEF FramerTakes
<1>3. InHand(reader)' = InHand(reader) /\ writer.pc # "open" /\ reader' \in Readers
  BY <1>1, <1>2 DEF SocketType, PlacesKept
<1>4. CASE hubQ.queue # <<>>
  <2> DEFINE n == Head(hubQ.queue)
             rest == Tail(hubQ.queue)
  <2>1. framer' = [pc |-> "send", n |-> n] /\ hubQ' = [hubQ EXCEPT !.queue = rest]
    BY <1>4 DEF FramerTakes
  <2>2. hubQ.queue \in Seq(Nat \ {0}) /\ n \in Nat \ {0} /\ rest \in Seq(Nat \ {0})
    <3>1. hubQ.queue \in Seq(Nat \ {0})
      BY <1>1 DEF SocketType, Hubs
    <3> QED BY <1>4, <3>1, HeadAndTail
  <2> DEFINE x == OnlyFrames(OnTheWay)
             c == InChannel("frame")
             q == hubQ.queue
  <2>3. x \in Seq(Nat) /\ c \in Seq(Nat) /\ q \in Seq(Nat) /\ q # <<>>
    BY Zenon, <1>1, <1>4, QueuesTyped
  <2>4. Row(x, c, <<>>, q) = Row(x, c, <<n>>, rest)
    <3> HIDE DEF x, c
    <3> QED BY <2>3, TakenFromLast
  <2>5. x' = x /\ c' = c
    BY Zenon, <1>2 DEF OnTheWay, InChannel
  <2> HIDE DEF n, rest
  <2>6. framer' \in Framers /\ InHand(framer)' = <<n>> /\ InHand(framer) = <<>>
    BY <1>2, <2>1, <2>2 DEF Framers, InHand
  <2>7. hubQ' \in Hubs /\ hubQ'.queue = rest /\ hubQ'.sent = hubQ.sent /\ hubQ'.listed = hubQ.listed
    BY <1>1, <2>1, <2>2 DEF SocketType, Hubs
  <2>8. SocketType'
    BY Zenon, <1>1, <1>2, <2>6, <2>7 DEF SocketType
  <2>9. PlacesKept'
    BY Zenon, <1>1, <1>2, <1>3, <2>7 DEF PlacesKept
  <2>10. FramesKept'
    BY Zenon, <1>1, <1>2, <2>4, <2>5, <2>6, <2>7 DEF FramesKept, Count
  <2>11. WordsKept'
    BY Zenon, <1>1, <1>2, <1>3, WordsStand
  <2>12. BatchKept'
    BY Zenon, <1>1, <1>2, BatchStands
  <2>13. AwakeKept'
    <3>1. (Awake' => Awake) /\ Len(sock'.out) =< WireSize
      BY Zenon, <1>1, <1>2, <2>7 DEF Awake, AwakeKept
    <3>2. Asked => Asked'
      BY Zenon, <1>2, <1>3, AskedStands
    <3> QED BY Zenon, <1>1, <1>2, <3>1, <3>2, AwakeStands
  <2> QED BY <2>8, <2>9, <2>10, <2>11, <2>12, <2>13 DEF SocketInv
<1>5. CASE hubQ.queue = <<>>
  <2>1. hubQ' = hubQ /\ framer' = [framer EXCEPT !.pc = "done"]
    BY <1>5 DEF FramerTakes
  <2>2. framer' \in Framers /\ InHand(framer)' = InHand(framer)
    BY <1>1, <1>2, <2>1 DEF SocketType, Framers, InHand
  <2> QED BY <1>2, <1>3, <2>1, <2>2, ThreadsMove
<1> QED BY <1>4, <1>5

\* The frame thread hands its frame to the channel, unless nobody receives.
LEMMA FramerSendsKeeps == ASSUME SocketInv, FramerSends PROVE SocketInv'
<1>1. /\ SocketType /\ PlacesKept /\ FramesKept /\ WordsKept /\ BatchKept /\ AwakeKept
  BY DEF SocketInv
<1>2. UNCHANGED <<hubQ, reader, writer, sock, quiet, page, heard, linkStop>> /\ framer.pc = "send"
  BY DEF FramerSends
<1>3. InHand(reader)' = InHand(reader) /\ writer.pc # "open" /\ reader' \in Readers
  BY <1>1, <1>2 DEF SocketType, PlacesKept
<1>4. /\ \E p \in {"take", "done"} : framer' = [pc |-> p, n |-> 0]
      /\ framer.n \in Nat /\ framer.n > 0
  BY <1>1, <1>2 DEF FramerSends, SocketType, Framers
<1>5. framer' \in Framers /\ InHand(framer)' = <<>>
  BY <1>4 DEF Framers, InHand
<1>6. (Awake' => Awake) /\ Len(sock'.out) =< WireSize
  BY Zenon, <1>1, <1>2 DEF Awake, AwakeKept
<1>7. BatchKept'
  BY Zenon, <1>1, <1>2, BatchStands
<1>8. CASE ~chan.dropped
  <2> DEFINE e == Ev("frame", framer.n)
             h == InHand(framer)
             c == InChannel("frame")
             b == InChannel("bytes")
  <2>1. Sends(e) /\ h = <<framer.n>>
    BY <1>2, <1>8 DEF FramerSends, InHand
  <2>2. e \in Events /\ e.k = "frame" /\ e.n = framer.n
    BY <1>4 DEF Ev, Events, Inputs
  <2> HIDE DEF e
  <2>3. /\ ~chan'.dropped /\ chan' \in Channels
        /\ c' = c \o (IF e.k = "frame" THEN <<e.n>> ELSE <<>>)
        /\ b' = b \o (IF e.k = "bytes" THEN <<e.n>> ELSE <<>>)
    BY <1>1, <2>1, <2>2, EventSent
  <2>4. "frame" # "bytes"
    OBVIOUS
  <2>5. c \in Seq(Nat) /\ b \in Seq(Inputs) /\ h \in Seq(Nat)
    BY Zenon, <1>1, QueuesTyped
  <2>6. c' = Cat(c, h) /\ b' = b
    <3>1. b \o <<>> = b
      BY <2>5, ConcatEmptySeq
    <3> HIDE DEF b, c, h
    <3> QED BY Zenon, <2>1, <2>2, <2>3, <2>4, <3>1 DEF Cat
  <2>7. SocketType'
    BY Zenon, <1>1, <1>2, <1>5, <2>3 DEF SocketType
  <2>8. PlacesKept'
    BY Zenon, <1>1, <1>2, <1>3, <2>3 DEF PlacesKept
  <2>9. FramesKept'
    <3> DEFINE x == OnlyFrames(OnTheWay)
    <3>1. x \in Seq(Nat) /\ x' = x
      BY Zenon, <1>1, <1>2, QueuesTyped DEF OnTheWay
    <3>2. Row(x, c, h, hubQ.queue) = Row(x, Cat(c, h), <<>>, hubQ.queue)
      <4> HIDE DEF x, c, h
      <4> QED BY <2>5, <3>1, PassedToNext
    <3> QED BY Zenon, <1>1, <1>2, <1>5, <2>6, <3>1, <3>2 DEF FramesKept, Count
  <2>10. WordsKept'
    BY Zenon, <1>1, <1>2, <1>3, <1>8, <2>6, WordsMove
  <2>11. AwakeKept'
    <3>1. Asked => Asked'
      BY Zenon, <1>2, <1>3, <2>6 DEF Asked
    <3> QED BY Zenon, <1>1, <1>2, <1>6, <3>1, AwakeStands
  <2> QED BY <1>7, <2>7, <2>8, <2>9, <2>10, <2>11 DEF SocketInv
<1>9. CASE chan.dropped
  <2>1. chan' = chan
    BY <1>9 DEF FramerSends, Sends
  <2>2. SocketType'
    BY Zenon, <1>1, <1>2, <1>5, <2>1 DEF SocketType
  <2>3. PlacesKept'
    BY Zenon, <1>1, <1>2, <1>3, <2>1 DEF PlacesKept
  <2>4. writer.pc \notin Serving \cup {"open"}
    BY <1>1, <1>9 DEF PlacesKept, Serving
  <2>5. FramesKept'
    BY Zenon, <1>2, <2>4 DEF FramesKept
  <2>6. WordsKept'
    BY Zenon, <1>1, <1>2, <1>3, <2>1, WordsStand
  <2>7. AwakeKept'
    BY Zenon, <1>1, <1>2, <1>6, <2>4 DEF AwakeKept
  <2> QED BY <1>7, <2>2, <2>3, <2>5, <2>6, <2>7 DEF SocketInv
<1> QED BY <1>8, <1>9

\* The writer goes on to another place, or ends, and touches nothing else.
LEMMA WriterMoves ==
    ASSUME SocketInv, UNCHANGED <<hubQ, reader, framer, chan, sock, quiet, page, heard, linkStop>>,
           writer.pc \in Serving, NEW p \in {"drain", "flush", "live", "wait", "cut", "drop"},
           NEW w \in {"page", "hub", "failed", "silent", "panic"},
           writer' \in {[writer EXCEPT !.pc = p], [writer EXCEPT !.pc = p, !.why = w]},
           p = "drain" => writer.batch < FlushFrames, p \in {"live", "wait"} => writer.batch = 0,
           w = "silent" => ~Awake
    PROVE  SocketInv'
<1>1. /\ SocketType /\ PlacesKept /\ FramesKept /\ WordsKept /\ BatchKept /\ AwakeKept
  BY DEF SocketInv
<1>2. /\ writer' \in Writers /\ writer'.pc = p /\ writer'.why \in {writer.why, w}
      /\ writer'.buffer = writer.buffer /\ writer'.batch = writer.batch
      /\ writer'.unflushed = writer.unflushed
  BY <1>1 DEF SocketType, Writers, Serving
<1>3. SocketType'
  BY Zenon, <1>1, <1>2 DEF SocketType
<1>4. PlacesKept'
  <2>1. writer.pc \notin {"join", "done"} /\ p \notin {"open", "done"}
    BY DEF Serving
  <2> QED BY Zenon, <1>1, <1>2, <2>1 DEF PlacesKept
<1>5. InHand(framer)' = InHand(framer) /\ InHand(reader)' = InHand(reader)
  BY Zenon
<1>6. FramesKept'
  BY Zenon, <1>1, <1>2, <1>5, FramesStand
<1>7. WordsKept'
  BY Zenon, <1>1, <1>2, <1>5, WordsStand
<1>8. BatchKept'
  <2>1. Len(OnlyFrames(writer.buffer))' = Len(OnlyFrames(writer.buffer))
    BY Zenon, <1>2 DEF OnlyFrames
  <2>2. p # "open"
    OBVIOUS
  <2> QED BY Zenon, <1>1, <1>2, <2>1, <2>2 DEF BatchKept
<1>9. AwakeKept'
  <2>1. Awake' => Awake
    BY Zenon DEF Awake
  <2>2. Asked => Asked'
    BY Zenon, <1>2, <1>5, AskedStands
  <2> QED BY Zenon, <1>1, <1>2, <2>1, <2>2 DEF AwakeKept
<1> QED BY <1>3, <1>4, <1>6, <1>7, <1>8, <1>9 DEF SocketInv

\* What finish and Link::drop do, one statement after the other: nothing is
\* written any more, and what was not heard by then is not heard.
LEMMA Unwinding ==
    ASSUME SocketInv, UNCHANGED <<reader, framer, quiet, page, heard>>, PlacesKept',
           writer.pc \notin Serving \cup {"open"}, writer'.pc \notin Serving \cup {"open"},
           writer' \in Writers, writer'.why = writer.why, writer'.batch = writer.batch,
           writer'.unflushed = writer.unflushed, writer'.buffer \in {writer.buffer, <<>>},
           hubQ' \in Hubs, hubQ'.listed => hubQ.listed,
           sock' \in Sockets, sock'.out = sock.out, sock'.in = sock.in,
           chan' \in Channels, chan' = chan \/ chan'.dropped, linkStop' \in BOOLEAN
    PROVE  SocketInv'
<1>1. /\ SocketType /\ PlacesKept /\ FramesKept /\ WordsKept /\ BatchKept /\ AwakeKept
  BY DEF SocketInv
<1>2. SocketType'
  BY Zenon, <1>1 DEF SocketType
<1>3. FramesKept'
  BY Zenon DEF FramesKept
<1>4. WordsKept'
  <2>1. CASE chan' = chan
    <3>1. InHand(reader)' = InHand(reader)
      BY Zenon
    <3> QED BY Zenon, <1>1, <2>1, <3>1, WordsStand
  <2>2. CASE chan'.dropped
    BY Zenon, <1>1, <2>2 DEF WordsKept, Count
  <2> QED BY <2>1, <2>2
<1>5. BatchKept'
  <2>1. CASE writer'.buffer = writer.buffer
    <3>1. writer'.pc \notin {"open", "drain", "live", "wait"}
      BY DEF Serving
    <3> QED BY Zenon, <1>1, <2>1, <3>1, BatchStands
  <2>2. CASE writer'.buffer = <<>>
    <3>1. OnlyFrames(<<>>) = <<>> /\ Len(<<>>) = 0
      BY Zenon, OnlyFramesJoin, EmptySeq
    <3>2. OnlyFrames(writer.buffer)' = <<>>
      BY Zenon, <2>2, <3>1 DEF OnlyFrames
    <3>3. writer.batch \in Nat /\ FlushFrames \in Nat
      BY <1>1, SocketAssumption DEF SocketType, Writers
    <3>4. writer'.pc \notin {"open", "drain", "live", "wait"}
      BY DEF Serving
    <3> QED BY <1>1, <2>2, <3>1, <3>2, <3>3, <3>4 DEF BatchKept
  <2> QED BY <2>1, <2>2
<1>6. AwakeKept'
  BY Zenon, <1>1 DEF AwakeKept, Awake
<1> QED BY <1>2, <1>3, <1>4, <1>5, <1>6 DEF SocketInv

\* The writer panics wherever it serves.
LEMMA WriterPanicsKeeps == ASSUME SocketInv, WriterPanics PROVE SocketInv'
<1>1. /\ UNCHANGED <<hubQ, reader, framer, chan, sock, quiet, page, heard, linkStop>>
      /\ writer.pc \in Serving /\ writer' = [writer EXCEPT !.pc = "drop", !.why = "panic"]
  BY DEF WriterPanics
<1> QED BY <1>1, WriterMoves

\* finish cuts the connection.
LEMMA CutsOffKeeps == ASSUME SocketInv, CutsOff PROVE SocketInv'
<1>1. /\ UNCHANGED <<hubQ, reader, framer, chan, quiet, page, heard, linkStop>> /\ writer.pc = "cut"
      /\ sock' = [sock EXCEPT !.up = FALSE] /\ writer' = [writer EXCEPT !.pc = "drop"]
  BY DEF CutsOff
<1>2. SocketType /\ PlacesKept
  BY DEF SocketInv
<1>3. /\ writer' \in Writers /\ writer'.pc = "drop" /\ writer'.why = writer.why
      /\ writer'.batch = writer.batch /\ writer'.unflushed = writer.unflushed
      /\ writer'.buffer = writer.buffer
  BY <1>1, <1>2 DEF SocketType, Writers
<1>4. sock' \in Sockets /\ sock'.out = sock.out /\ sock'.in = sock.in
  BY <1>1, <1>2 DEF SocketType, Sockets
<1>5. hubQ' \in Hubs /\ chan' \in Channels /\ linkStop' \in BOOLEAN
  BY <1>1, <1>2 DEF SocketType
<1>6. {"cut", "drop"} \cap (Serving \cup {"open"}) = {}
  BY DEF Serving
<1>7. PlacesKept'
  BY <1>1, <1>2, <1>3 DEF PlacesKept
<1> QED BY <1>1, <1>3, <1>4, <1>5, <1>6, <1>7, Unwinding

\* Link::drop: the stop flag.
LEMMA SetsStopKeeps == ASSUME SocketInv, SetsStop PROVE SocketInv'
<1>1. /\ UNCHANGED <<hubQ, reader, framer, chan, sock, quiet, page, heard>> /\ writer.pc = "drop"
      /\ linkStop' = TRUE /\ writer' = [writer EXCEPT !.pc = "release"]
  BY DEF SetsStop
<1>2. SocketType /\ PlacesKept
  BY DEF SocketInv
<1>3. /\ writer' \in Writers /\ writer'.pc = "release" /\ writer'.why = writer.why
      /\ writer'.batch = writer.batch /\ writer'.unflushed = writer.unflushed
      /\ writer'.buffer = writer.buffer
  BY <1>1, <1>2 DEF SocketType, Writers
<1>4. hubQ' \in Hubs /\ chan' \in Channels /\ sock' \in Sockets
  BY <1>1, <1>2 DEF SocketType
<1>5. {"drop", "release"} \cap (Serving \cup {"open"}) = {}
  BY DEF Serving
<1>6. PlacesKept'
  BY <1>1, <1>2, <1>3 DEF PlacesKept
<1> QED BY <1>1, <1>3, <1>4, <1>5, <1>6, Unwinding

\* Link::drop: the hub's record of the client.
LEMMA ReleasesClientKeeps == ASSUME SocketInv, ReleasesClient PROVE SocketInv'
<1>1. /\ UNCHANGED <<reader, framer, chan, sock, quiet, page, heard, linkStop>> /\ writer.pc = "release"
      /\ hubQ' = [hubQ EXCEPT !.listed = FALSE] /\ writer' = [writer EXCEPT !.pc = "shut"]
  BY DEF ReleasesClient
<1>2. SocketType /\ PlacesKept
  BY DEF SocketInv
<1>3. /\ writer' \in Writers /\ writer'.pc = "shut" /\ writer'.why = writer.why
      /\ writer'.batch = writer.batch /\ writer'.unflushed = writer.unflushed
      /\ writer'.buffer = writer.buffer
  BY <1>1, <1>2 DEF SocketType, Writers
<1>4. hubQ' \in Hubs /\ ~hubQ'.listed
  BY <1>1, <1>2 DEF SocketType, Hubs
<1>5. chan' \in Channels /\ sock' \in Sockets /\ linkStop' \in BOOLEAN
  BY <1>1, <1>2 DEF SocketType
<1>6. {"release", "shut"} \cap (Serving \cup {"open"}) = {}
  BY DEF Serving
<1>7. PlacesKept'
  BY <1>1, <1>2, <1>3, <1>4 DEF PlacesKept
<1> QED BY <1>1, <1>3, <1>4, <1>5, <1>6, <1>7, Unwinding

\* Link::drop: the socket.
LEMMA ShutsDownKeeps == ASSUME SocketInv, ShutsDown PROVE SocketInv'
<1>1. /\ UNCHANGED <<hubQ, reader, framer, chan, quiet, page, heard, linkStop>> /\ writer.pc = "shut"
      /\ sock' = [sock EXCEPT !.up = FALSE] /\ writer' = [writer EXCEPT !.pc = "forget"]
  BY DEF ShutsDown
<1>2. SocketType /\ PlacesKept
  BY DEF SocketInv
<1>3. /\ writer' \in Writers /\ writer'.pc = "forget" /\ writer'.why = writer.why
      /\ writer'.batch = writer.batch /\ writer'.unflushed = writer.unflushed
      /\ writer'.buffer = writer.buffer
  BY <1>1, <1>2 DEF SocketType, Writers
<1>4. sock' \in Sockets /\ sock'.out = sock.out /\ sock'.in = sock.in
  BY <1>1, <1>2 DEF SocketType, Sockets
<1>5. hubQ' \in Hubs /\ chan' \in Channels /\ linkStop' \in BOOLEAN
  BY <1>1, <1>2 DEF SocketType
<1>6. {"shut", "forget"} \cap (Serving \cup {"open"}) = {}
  BY DEF Serving
<1>7. PlacesKept'
  BY <1>1, <1>2, <1>3 DEF PlacesKept
<1> QED BY <1>1, <1>3, <1>4, <1>5, <1>6, <1>7, Unwinding

\* Link::drop: the receiver, and every event in the channel with it.
LEMMA DropsReceiverKeeps == ASSUME SocketInv, DropsReceiver PROVE SocketInv'
<1>1. /\ UNCHANGED <<hubQ, reader, framer, sock, quiet, page, heard, linkStop>> /\ writer.pc = "forget"
      /\ chan' = [events |-> <<>>, dropped |-> TRUE] /\ writer' = [writer EXCEPT !.pc = "join"]
  BY DEF DropsReceiver
<1>2. SocketType /\ PlacesKept
  BY DEF SocketInv
<1>3. /\ writer' \in Writers /\ writer'.pc = "join" /\ writer'.why = writer.why
      /\ writer'.batch = writer.batch /\ writer'.unflushed = writer.unflushed
      /\ writer'.buffer = writer.buffer
  BY <1>1, <1>2 DEF SocketType, Writers
<1>4. chan' \in Channels /\ chan'.dropped /\ chan'.events = <<>>
  BY <1>1 DEF Channels
<1>5. hubQ' \in Hubs /\ sock' \in Sockets /\ linkStop' \in BOOLEAN
  BY <1>1, <1>2 DEF SocketType
<1>6. {"forget", "join"} \cap (Serving \cup {"open"}) = {}
  BY DEF Serving
<1>7. PlacesKept'
  BY <1>1, <1>2, <1>3, <1>4 DEF PlacesKept
<1> QED BY <1>1, <1>3, <1>4, <1>5, <1>6, <1>7, Unwinding

\* The threads are joined, and the last handle on the session goes.
LEMMA JoinsKeeps == ASSUME SocketInv, Joins PROVE SocketInv'
<1>1. /\ UNCHANGED <<reader, framer, chan, sock, quiet, page, heard, linkStop>> /\ writer.pc = "join"
      /\ hubQ' = [hubQ EXCEPT !.listed = FALSE, !.queue = <<>>]
      /\ writer' = [writer EXCEPT !.pc = "done", !.buffer = <<>>]
  BY DEF Joins
<1>2. SocketType /\ PlacesKept
  BY DEF SocketInv
<1>3. /\ writer' \in Writers /\ writer'.pc = "done" /\ writer'.why = writer.why
      /\ writer'.batch = writer.batch /\ writer'.unflushed = writer.unflushed
      /\ writer'.buffer = <<>>
  <2>1. <<>> \in Seq(Nat)
    OBVIOUS
  <2>2. "done" \in Serving \cup {"done"} /\ writer \in Writers
    BY <1>2 DEF SocketType
  <2> DEFINE none == <<>>
  <2> HIDE DEF none
  <2>3. none \in Seq(Nat) /\ writer' = [writer EXCEPT !.pc = "done", !.buffer = none]
    BY Zenon, <1>1, <2>1 DEF none
  <2> QED BY <2>2, <2>3 DEF Writers, none
<1>4. hubQ' \in Hubs /\ ~hubQ'.listed
  <2> DEFINE none == <<>>
  <2>1. none \in Seq(Nat \ {0})
    OBVIOUS
  <2> HIDE DEF none
  <2>2. hubQ' = [hubQ EXCEPT !.listed = FALSE, !.queue = none] /\ hubQ \in Hubs
    BY Zenon, <1>1, <1>2 DEF none, SocketType
  <2> QED BY <2>1, <2>2 DEF Hubs
<1>5. chan' \in Channels /\ sock' \in Sockets /\ linkStop' \in BOOLEAN
  BY <1>1, <1>2 DEF SocketType
<1>6. {"join", "done"} \cap (Serving \cup {"open"}) = {}
  BY DEF Serving
<1>7. PlacesKept'
  BY <1>1, <1>2, <1>3, <1>4 DEF PlacesKept
<1> QED BY <1>1, <1>3, <1>4, <1>5, <1>6, <1>7, Unwinding

\* A flush moves frames from the buffer to the wire, and starts a new batch;
\* the one that asks the page has a ping behind everything.
LEMMA FlushKeeps ==
    ASSUME SocketInv, UNCHANGED <<hubQ, reader, framer, chan, page, heard, linkStop>>,
           writer.pc \in Serving, NEW b \in Seq(Nat), NEW p \in {"drain", "live", "wait"},
           FlushInto(b, p), quiet' \in [heard : Nat, asked : Nat],
           \/ b = writer.buffer /\ quiet' = quiet
           \/ b = Append(writer.buffer, 0) /\ quiet'.heard = quiet.heard /\ quiet'.asked = 0
    PROVE  SocketInv'
<1>1. /\ SocketType /\ PlacesKept /\ FramesKept /\ WordsKept /\ BatchKept /\ AwakeKept
  BY DEF SocketInv
<1> DEFINE out == sock.out
           buf == writer.buffer
           to == sock'.out
           left == writer'.buffer
<1>2. /\ sock' = [sock EXCEPT !.out = to]
      /\ writer' = [writer EXCEPT !.pc = p, !.buffer = left, !.unflushed = writer'.unflushed, !.batch = 0]
      /\ to \in Seq(Nat) /\ left \in Seq(Nat) /\ writer'.unflushed \in BOOLEAN
      /\ to \o left = out \o b
      /\ Len(to) =< WireSize /\ Len(OnlyFrames(left)) =< Len(OnlyFrames(b))
      /\ ~writer'.unflushed => left = <<>>
  BY Zenon, <1>1, FlushIs
<1>3. /\ page.shown \in Seq(Nat) /\ out \in Seq(Nat) /\ buf \in Seq(Nat) /\ OnlyFrames(buf) \in Seq(Nat)
  BY <1>1, QueuesTyped, OnlyFramesJoin
<1>4. OnlyFrames(b) = OnlyFrames(buf)
  <2>1. CASE b = buf
    BY <2>1
  <2>2. CASE b = Append(buf, 0)
    <3>1. OnlyFrames(b) = OnlyFrames(buf) \o <<>>
      BY <1>3, <2>2, OnlyFramesJoin
    <3>2. OnlyFrames(buf) \o <<>> = OnlyFrames(buf)
      BY <1>3, ConcatEmptySeq
    <3> QED BY Zenon, <3>1, <3>2
  <2> QED BY <2>1, <2>2
<1>5. sock' \in Sockets /\ sock'.up = sock.up /\ sock'.in = sock.in
  <2> HIDE DEF to
  <2>1. sock \in Sockets
    BY <1>1 DEF SocketType
  <2> QED BY <1>2, <2>1 DEF Sockets
<1>6. writer' \in Writers /\ writer'.pc = p /\ writer'.batch = 0 /\ writer'.why = writer.why
  <2> DEFINE u == writer'.unflushed
  <2> HIDE DEF left, u
  <2>1. writer \in Writers /\ left \in Seq(Nat) /\ u \in BOOLEAN /\ p \in Serving
    BY <1>1, <1>2 DEF SocketType, u, Serving
  <2>2. writer' = [writer EXCEPT !.pc = p, !.buffer = left, !.unflushed = u, !.batch = 0]
    BY <1>2 DEF u
  <2> QED BY <2>1, <2>2 DEF Writers
<1>7. SocketType'
  BY Zenon, <1>1, <1>5, <1>6 DEF SocketType
<1>8. PlacesKept'
  <2>1. writer.pc \notin {"join", "done"} /\ p \notin {"open", "done"}
    BY DEF Serving
  <2> QED BY Zenon, <1>1, <1>6, <2>1 DEF PlacesKept
<1>9. InHand(framer)' = InHand(framer) /\ InHand(reader)' = InHand(reader)
  BY Zenon
<1>10. FramesKept'
  <2> DEFINE s == page.shown
  <2>1. OnlyFrames(Cat(Cat(s, to), left)) = OnlyFrames(Cat(Cat(s, out), buf))
    <3>1. Cat(Cat(s, to), left) = Cat(s, Cat(to, left)) /\ Cat(Cat(s, out), b) = Cat(s, Cat(out, b))
      <4> HIDE DEF s, to, left, out
      <4> QED BY <1>2, <1>3, CatIs, SMTT(30) DEF s
    <3>2. Cat(to, left) = Cat(out, b)
      BY Zenon, <1>2 DEF Cat
    <3>3. OnlyFrames(Cat(Cat(s, out), b)) = Cat(Cat(OnlyFrames(s), OnlyFrames(out)), OnlyFrames(b))
      BY <1>3, FramesThere
    <3>4. OnlyFrames(Cat(Cat(s, out), buf)) = Cat(Cat(OnlyFrames(s), OnlyFrames(out)), OnlyFrames(buf))
      BY <1>3, FramesThere
    <3> HIDE DEF to, left, out, buf, s
    <3> QED BY Zenon, <1>4, <3>1, <3>2, <3>3, <3>4
  <2>2. OnlyFrames(OnTheWay)' = OnlyFrames(OnTheWay)
    BY Zenon, <2>1 DEF OnTheWay
  <2>3. InChannel("frame")' = InChannel("frame")
    BY Zenon DEF InChannel
  <2> QED BY Zenon, <1>1, <1>9, <2>2, <2>3, FramesMove
<1>11. WordsKept'
  BY Zenon, <1>1, <1>5, <1>9, WordsStand
<1>12. BatchKept'
  <2>1. Len(OnlyFrames(left)) =< FlushFrames
    <3>1. Len(OnlyFrames(b)) =< FlushFrames
      BY Zenon, <1>1, <1>4 DEF BatchKept
    <3>2. OnlyFrames(left) \in Seq(Nat) /\ OnlyFrames(b) \in Seq(Nat)
      BY <1>2, OnlyFramesJoin
    <3>3. Len(OnlyFrames(left)) \in Nat /\ Len(OnlyFrames(b)) \in Nat /\ FlushFrames \in Nat
      BY <3>2, SocketAssumption, LenProperties
    <3> HIDE DEF left
    <3> QED BY <1>2, <3>1, <3>3
  <2>2. 0 =< FlushFrames /\ 0 < FlushFrames
    BY SocketAssumption
  <2>3. ~writer'.unflushed => Len(left) =< 0
    BY <1>2
  <2>4. OnlyFrames(writer.buffer)' = OnlyFrames(left)
    BY Zenon DEF OnlyFrames
  <2> QED BY Zenon, <1>6, <2>1, <2>2, <2>3, <2>4 DEF BatchKept
<1>13. AwakeKept'
  <2>1. Has(to \o left, {0}) <=> Has(to, {0}) \/ Has(left, {0})
    BY <1>2, InEither
  <2>2. Has(out \o b, {0}) <=> Has(out, {0}) \/ Has(b, {0})
    BY <1>3, InEither
  <2>3. (Has(out, {0}) \/ Has(b, {0})) <=> (Has(to, {0}) \/ Has(left, {0}))
    BY Zenon, <1>2, <2>1, <2>2
  <2>4. (Awake' => Awake) /\ InChannel("bytes")' = InChannel("bytes")
    BY Zenon DEF Awake, InChannel
  <2>5. CASE b = buf /\ quiet' = quiet
    <3>1. Asked => Asked'
      BY Zenon, <1>5, <1>9, <2>3, <2>4, <2>5 DEF Asked
    <3> QED BY Zenon, <1>1, <1>2, <1>5, <1>6, <2>4, <2>5, <3>1, AwakeStands
  <2>6. CASE b = Append(buf, 0) /\ quiet'.heard = quiet.heard /\ quiet'.asked = 0
    <3>1. Has(b, {0})
      <4> DEFINE Z == {0}
      <4> HIDE DEF buf, Z
      <4>1. buf \in Seq(Nat)
        BY Zenon, <1>3 DEF buf
      <4>2. \A n \in Nat : Has(Append(buf, n), Z) <=> Has(buf, Z) \/ n \in Z
        BY <4>1, HasMore
      <4>3. 0 \in Nat /\ 0 \in {0}
        OBVIOUS
      <4> QED BY Zenon, <2>6, <4>2, <4>3 DEF buf, Z
    <3>2. Asked'
      BY Zenon, <2>3, <3>1 DEF Asked
    <3>3. 0 =< PingAfter
      BY SocketAssumption
    <3> QED BY Zenon, <1>1, <1>2, <1>5, <1>6, <2>4, <2>6, <3>2, <3>3 DEF AwakeKept
  <2> QED BY <2>5, <2>6
<1> QED BY <1>7, <1>8, <1>10, <1>11, <1>12, <1>13 DEF SocketInv

\* The head of serve writes out what it drained, if there is anything.
LEMMA FlushesKeeps == ASSUME SocketInv, Flushes PROVE SocketInv'
<1>1. /\ SocketType /\ BatchKept
  BY DEF SocketInv
<1>2. UNCHANGED <<hubQ, reader, framer, chan, quiet, page, heard, linkStop>> /\ writer.pc = "flush"
  BY DEF Flushes
<1>3. writer.pc \in Serving
  BY <1>2 DEF Serving
<1>4. CASE writer.batch = 0 /\ ~writer.unflushed
  <2>1. writer' = [writer EXCEPT !.pc = "live"] /\ sock' = sock
    BY <1>4 DEF Flushes
  <2> QED BY <1>2, <1>3, <1>4, <2>1, WriterMoves
<1>5. CASE ~(writer.batch = 0 /\ ~writer.unflushed)
  <2>1. CASE ~sock.up /\ EndsBecause("failed") /\ UNCHANGED sock
    <3>1. writer' = [writer EXCEPT !.pc = "cut", !.why = "failed"]
      BY <2>1 DEF EndsBecause
    <3> QED BY <1>2, <1>3, <2>1, <3>1, WriterMoves
  <2>2. CASE \E next \in {"drain", "live"} : FlushInto(writer.buffer, next)
    <3>1. PICK next \in {"drain", "live"} : FlushInto(writer.buffer, next)
      BY <2>2
    <3>2. writer.buffer \in Seq(Nat) /\ quiet' \in [heard : Nat, asked : Nat] /\ quiet' = quiet
      BY <1>1, <1>2 DEF SocketType, Writers
    <3> QED BY Zenon, <1>2, <1>3, <3>1, <3>2, FlushKeeps
  <2> QED BY <1>5, <2>1, <2>2 DEF Flushes
<1> QED BY <1>4, <1>5

\* Liveness::step: the page is given up, asked, or left alone.
LEMMA LooksAtClockKeeps == ASSUME SocketInv, LooksAtClock PROVE SocketInv'
<1>1. /\ SocketType /\ BatchKept /\ AwakeKept
  BY DEF SocketInv
<1>2. UNCHANGED <<hubQ, reader, framer, chan, page, heard, linkStop>> /\ writer.pc = "live"
  BY DEF LooksAtClock
<1>3. writer.pc \in Serving
  BY <1>2 DEF Serving
<1>4. writer.batch = 0 /\ quiet \in [heard : Nat, asked : Nat] /\ writer.buffer \in Seq(Nat)
  BY <1>1, <1>2 DEF BatchKept, SocketType, Writers
<1>5. CASE quiet.heard >= SilenceLimit /\ ~writer.unflushed
  <2>1. writer' = [writer EXCEPT !.pc = "cut", !.why = "silent"] /\ UNCHANGED <<sock, quiet>>
    BY <1>5 DEF LooksAtClock, EndsBecause
  <2>2. ~Awake
    <3>1. Awake => quiet.heard =< PingAfter
      BY <1>1, <1>3 DEF AwakeKept
    <3>2. PingAfter \in Nat /\ SilenceLimit \in Nat /\ PingAfter < SilenceLimit
      BY SocketAssumption
    <3> QED BY <1>4, <1>5, <3>1, <3>2
  <2> QED BY <1>2, <1>3, <2>1, <2>2, WriterMoves
<1>6. CASE ~(quiet.heard >= SilenceLimit /\ ~writer.unflushed)
           /\ quiet.heard < SilenceLimit /\ quiet.asked >= PingAfter
  <2>1. CASE ~sock.up /\ EndsBecause("failed") /\ UNCHANGED <<sock, quiet>>
    <3>1. writer' = [writer EXCEPT !.pc = "cut", !.why = "failed"]
      BY <2>1 DEF EndsBecause
    <3> QED BY <1>2, <1>3, <2>1, <3>1, WriterMoves
  <2>2. CASE FlushInto(Append(writer.buffer, 0), "wait") /\ quiet' = [quiet EXCEPT !.asked = 0]
    <3>1. quiet' \in [heard : Nat, asked : Nat] /\ quiet'.heard = quiet.heard /\ quiet'.asked = 0
      BY <1>4, <2>2
    <3>2. Append(writer.buffer, 0) \in Seq(Nat)
      BY <1>4
    <3> QED BY Zenon, <1>2, <1>3, <2>2, <3>1, <3>2, FlushKeeps
  <2> QED BY <1>6, <2>1, <2>2 DEF LooksAtClock
<1>7. CASE ~(quiet.heard >= SilenceLimit /\ ~writer.unflushed)
           /\ ~(quiet.heard < SilenceLimit /\ quiet.asked >= PingAfter)
  <2>1. writer' = [writer EXCEPT !.pc = "wait"] /\ UNCHANGED <<sock, quiet>>
    BY <1>7 DEF LooksAtClock
  <2> QED BY <1>2, <1>3, <1>4, <2>1, WriterMoves
<1> QED BY <1>5, <1>6, <1>7

\* serve takes an event from the channel while no write has stalled: a frame
\* for the buffer, a message to dispatch, or word that the page is going.
LEMMA TakesEventKeeps ==
    ASSUME SocketInv, TakesEvent, ~writer.unflushed, writer.pc \in {"drain", "wait"},
           UNCHANGED <<hubQ, reader, framer, sock, page, linkStop>>
    PROVE  SocketInv'
<1>1. /\ SocketType /\ PlacesKept /\ FramesKept /\ WordsKept /\ BatchKept /\ AwakeKept
  BY DEF SocketInv
<1> DEFINE e == Head(chan.events)
           n == e.n
           F == InChannel("frame")
           B == InChannel("bytes")
<1>2. /\ chan.events # <<>> /\ chan' = [chan EXCEPT !.events = Tail(chan.events)] /\ ApplyEvent(e)
  BY DEF TakesEvent
<1>3. /\ e \in Events /\ chan'.dropped = chan.dropped /\ chan' \in Channels
      /\ F = (IF e.k = "frame" THEN <<n>> ELSE <<>>) \o F'
      /\ B = (IF e.k = "bytes" THEN <<n>> ELSE <<>>) \o B'
      /\ F' \in Seq(Nat) /\ B' \in Seq(Inputs)
  BY Zenon, <1>1, <1>2, EventTaken
<1> HIDE DEF e
<1>4. /\ ~chan.dropped /\ ~chan'.dropped
      /\ writer.pc \in Serving /\ writer.pc \in Serving \cup {"open"}
      /\ writer.pc \notin {"open", "join", "done"}
  BY <1>1, <1>2, <1>3 DEF PlacesKept, Serving
<1>5. /\ InHand(framer)' = InHand(framer) /\ InHand(reader)' = InHand(reader)
      /\ (Awake' => Awake) /\ Len(sock'.out) =< WireSize
  BY Zenon, <1>1 DEF Awake, AwakeKept
<1>6. /\ writer.batch < FlushFrames
      /\ writer.pc = "wait" => writer.batch = 0
      /\ writer.batch \in Nat /\ FlushFrames \in Nat \ {0, 1}
  <2>1. writer.batch \in Nat /\ FlushFrames \in Nat \ {0, 1}
    BY <1>1, SocketAssumption DEF SocketType, Writers
  <2>2. writer.pc \in {"drain", "wait"} /\ 0 < FlushFrames
    BY <2>1
  <2> QED BY <1>1, <2>1, <2>2 DEF BatchKept
<1>7. <<>> \o F' = F' /\ <<>> \o B' = B'
  <2> DEFINE f == F'
             b == B'
  <2>1. f \in Seq(Nat) /\ b \in Seq(Inputs)
    BY Zenon, <1>3
  <2> HIDE DEF f, b
  <2>2. <<>> \o f = f /\ <<>> \o b = b
    BY <2>1, ConcatEmptySeq
  <2> QED BY Zenon, <2>2 DEF f, b
<1>8. e.k \in {"frame", "bytes", "gone"} /\ n \in Inputs /\ (e.k = "frame" => n \in Nat /\ n > 0)
  BY <1>3 DEF Events, Inputs, Close
<1>9. CASE e.k = "frame"
  <2> DEFINE x == OnlyFrames(OnTheWay)
             one == <<n>>
             more == Append(writer.buffer, n)
             u == writer.unflushed \/ Len(sock.out) >= WireSize
  <2>1. PICK next \in {"flush", "drain"} :
          /\ next = "drain" => writer.pc = "wait" \/ writer.batch + 1 < FlushFrames
          /\ writer' = [writer EXCEPT !.pc = next, !.buffer = more, !.batch = writer.batch + 1,
                                      !.unflushed = u]
          /\ UNCHANGED <<quiet, heard>>
    <3>1. \E next \in {"flush", "drain"} :
            /\ next = "drain" => writer.pc = "wait" \/ writer.batch + 1 < FlushFrames
            /\ QueueFrame(n, next)
      BY <1>2, <1>9 DEF ApplyEvent
    <3> QED BY <3>1 DEF QueueFrame
  <2>2. /\ writer.buffer \in Seq(Nat) /\ more \in Seq(Nat) /\ u \in BOOLEAN /\ writer.batch + 1 \in Nat
        /\ Len(more) = Len(writer.buffer) + 1 /\ Len(writer.buffer) \in Nat
        /\ more = writer.buffer \o one /\ one \in Seq(Nat)
    <3>1. writer.buffer \in Seq(Nat)
      BY Zenon, <1>1, QueuesTyped
    <3> HIDE DEF n
    <3>2. n \in Nat
      BY <1>8, <1>9
    <3> QED BY <1>6, <3>1, <3>2
  <2>3. /\ writer' \in Writers /\ writer'.pc = next /\ writer'.buffer = more
        /\ writer'.batch = writer.batch + 1 /\ writer'.why = writer.why
    <3> HIDE DEF more, u
    <3>1. writer \in Writers
      BY <1>1 DEF SocketType
    <3> QED BY <2>1, <2>2, <3>1 DEF Writers, Serving
  <2>4. next \in Serving /\ next \notin {"open", "done", "live", "wait"}
    BY DEF Serving
  <2>5. F = Cat(one, F') /\ B' = B
    <3>1. "frame" # "bytes"
      OBVIOUS
    <3> QED BY Zenon, <1>3, <1>7, <1>9, <3>1 DEF Cat
  <2> HIDE DEF F, B, more, one, n
  <2>6. SocketType'
    BY Zenon, <1>1, <1>3, <2>1, <2>3 DEF SocketType
  <2>7. PlacesKept'
    BY Zenon, <1>1, <1>4, <2>3, <2>4 DEF PlacesKept
  <2>8. FramesKept'
    <3> DEFINE s == page.shown
               out == sock.out
               d == F'
    <3>1. s \in Seq(Nat) /\ out \in Seq(Nat) /\ x \in Seq(Nat) /\ d \in Seq(Nat)
      BY Zenon, <1>1, <1>3, QueuesTyped
    <3> DEFINE a == OnlyFrames(s)
               b == OnlyFrames(out)
               c == OnlyFrames(writer.buffer)
    <3>2. a \in Seq(Nat) /\ b \in Seq(Nat) /\ c \in Seq(Nat)
      BY <2>2, <3>1, OnlyFramesJoin
    <3>3. OnlyFrames(more) = Cat(c, one)
      <4>1. OnlyFrames(Append(writer.buffer, n)) = OnlyFrames(writer.buffer) \o (IF n = 0 THEN <<>> ELSE <<n>>)
        BY <1>8, <1>9, <2>2, OnlyFramesJoin
      <4>2. n # 0
        BY <1>8, <1>9
      <4> QED BY Zenon, <4>1, <4>2 DEF more, one, Cat
    <3>4. OnlyFrames(Cat(Cat(s, out), more)) = Cat(Cat(a, b), OnlyFrames(more))
      <4>1. more \in Seq(Nat)
        BY <2>2
      <4> HIDE DEF s, out
      <4>2. OnlyFrames(Cat(Cat(s, out), more)) = Cat(Cat(OnlyFrames(s), OnlyFrames(out)), OnlyFrames(more))
        BY <3>1, <4>1, FramesThere
      <4> QED BY Zenon, <4>2
    <3>5. OnlyFrames(Cat(Cat(s, out), writer.buffer)) = Cat(Cat(a, b), c)
      BY <2>2, <3>1, FramesThere
    <3>6. Cat(Cat(a, b), Cat(c, one)) = Cat(Cat(Cat(a, b), c), one)
      <4> HIDE DEF a, b, c
      <4>1. Cat(a, b) \in Seq(Nat)
        BY <3>2, CatIs
      <4> QED BY <2>2, <3>2, <4>1, CatIs
    <3>7. OnlyFrames(OnTheWay)' = Cat(x, one)
      <4>1. OnlyFrames(OnTheWay)' = OnlyFrames(Cat(Cat(s, out), more))
        BY Zenon, <2>3 DEF OnTheWay, OnlyFrames
      <4>2. x = Cat(Cat(a, b), c)
        BY Zenon, <3>5 DEF OnTheWay
      <4> HIDE DEF a, b, c, x
      <4> QED BY Zenon, <3>3, <3>4, <3>6, <4>1, <4>2
    <3>8. Row(x, Cat(one, d), InHand(framer), hubQ.queue) = Row(Cat(x, one), d, InHand(framer), hubQ.queue)
      <4> HIDE DEF x, d
      <4> QED BY <2>2, <3>1, MovedToFront
    <3> QED BY Zenon, <1>1, <1>4, <1>5, <2>5, <3>7, <3>8 DEF FramesKept, Count, F
  <2>9. WordsKept'
    BY Zenon, <1>1, <1>4, <1>5, <2>1, <2>5, WordsMove DEF B
  <2>10. BatchKept'
    <3>1. Len(writer.buffer) =< writer.batch
      BY <1>1 DEF BatchKept
    <3>2. Len(OnlyFrames(more)) =< Len(more) /\ OnlyFrames(more) \in Seq(Nat)
      BY <2>2, OnlyFramesShort, OnlyFramesJoin
    <3>3. Len(OnlyFrames(more)) \in Nat
      BY <3>2, LenProperties
    <3>4. Len(more) =< writer.batch + 1 /\ Len(OnlyFrames(more)) =< FlushFrames
          /\ writer.batch + 1 =< FlushFrames
      BY <1>6, <2>2, <3>1, <3>2, <3>3, SMTT(30)
    <3>5. next = "drain" => writer.batch + 1 < FlushFrames
      BY <1>6, <2>1
    <3>6. Len(OnlyFrames(writer.buffer))' = Len(OnlyFrames(more))
      BY Zenon, <2>3 DEF OnlyFrames
    <3> QED BY Zenon, <2>3, <2>4, <3>4, <3>5, <3>6 DEF BatchKept
  <2>11. AwakeKept'
    <3>1. Has(writer.buffer, {0}) => Has(more, {0})
      <4>1. Has(writer.buffer \o one, {0}) <=> Has(writer.buffer, {0}) \/ Has(one, {0})
        BY <2>2, InEither
      <4> QED BY Zenon, <2>2, <4>1
    <3>2. Asked => Asked'
      BY Zenon, <1>5, <2>3, <2>5, <3>1 DEF Asked, B
    <3> QED BY Zenon, <1>1, <1>4, <1>5, <2>1, <2>3, <3>2, AwakeStands
  <2> QED BY <2>6, <2>7, <2>8, <2>9, <2>10, <2>11 DEF SocketInv
<1>10. CASE e.k = "bytes" /\ n # Close
  <2> DEFINE w == Words(<<n>>)
             d == Words(B')
             h == Words(InHand(reader))
             a == Words(sock.in)
  <2>1. /\ heard' = (IF n = 0 THEN heard ELSE Append(heard, n))
        /\ quiet' = [quiet EXCEPT !.heard = 0, !.asked = 0]
        /\ writer' = [writer EXCEPT !.pc = "drain"]
    BY <1>2, <1>10 DEF ApplyEvent
  <2>2. n \in Nat
    BY <1>8, <1>10 DEF Inputs
  <2>3. heard \in Seq(Nat) /\ h \in Seq(Nat) /\ a \in Seq(Nat)
    BY Zenon, <1>1, QueuesTyped
  <2>4. <<n>> \in Seq(Inputs) /\ w = (IF n > 0 THEN <<n>> ELSE <<>>) /\ w \in Seq(Nat) /\ d \in Seq(Nat)
    <3>1. <<n>> \in Seq(Inputs)
      BY <1>8, OneType
    <3>2. w = IF n > 0 THEN <<n>> ELSE <<>>
      <4> HIDE DEF n
      <4> QED BY <1>8, WordsJoin
    <3>3. w \in Seq(Nat)
      <4> HIDE DEF n
      <4> QED BY <3>1, WordsJoin
    <3>4. d \in Seq(Nat)
      <4> DEFINE b == B'
      <4>1. b \in Seq(Inputs)
        BY Zenon, <1>3
      <4> HIDE DEF b
      <4>2. Words(b) \in Seq(Nat)
        BY <4>1, WordsJoin
      <4> QED BY Zenon, <4>2 DEF b
    <3> QED BY <3>1, <3>2, <3>3, <3>4
  <2>5. heard' = Cat(heard, w) /\ heard' \in Seq(Nat)
    <3>1. Append(heard, n) = heard \o <<n>> /\ heard \o <<>> = heard /\ Append(heard, n) \in Seq(Nat)
      <4> HIDE DEF n
      <4>1. n \in Nat /\ heard \in Seq(Nat)
        BY <2>2, <2>3
      <4>2. heard \o <<>> = heard
        BY <4>1, ConcatEmptySeq
      <4>3. Append(heard, n) = heard \o <<n>> /\ Append(heard, n) \in Seq(Nat)
        BY <4>1, OneMore
      <4> QED BY <4>2, <4>3
    <3> HIDE DEF w
    <3>2. n = 0 \/ n > 0
      BY <2>2
    <3>3. ~(0 > 0)
      OBVIOUS
    <3> QED BY Zenon, <2>1, <2>3, <2>4, <3>1, <3>2, <3>3 DEF Cat
  <2>6. Words(B) = Cat(w, d)
    <3> DEFINE b == B'
    <3>1. B = <<n>> \o b /\ b \in Seq(Inputs)
      BY Zenon, <1>3, <1>10
    <3> HIDE DEF b
    <3>2. Words(<<n>> \o b) = Words(<<n>>) \o Words(b)
      BY <2>4, <3>1, WordsJoin
    <3> QED BY Zenon, <3>1, <3>2 DEF b, Cat
  <2>7. F' = F
    <3>1. "bytes" # "frame"
      OBVIOUS
    <3> QED BY Zenon, <1>3, <1>7, <1>10, <3>1
  <2>8. /\ writer' \in Writers /\ writer'.pc = "drain" /\ writer'.buffer = writer.buffer
        /\ writer'.batch = writer.batch /\ writer'.unflushed = writer.unflushed
        /\ writer'.why = writer.why
    BY <1>1, <2>1 DEF SocketType, Writers, Serving
  <2>9. quiet' \in [heard : Nat, asked : Nat] /\ quiet'.heard = 0 /\ quiet'.asked = 0
    BY <1>1, <2>1 DEF SocketType
  <2> HIDE DEF F, B, n, w, d, h, a
  <2>10. SocketType'
    BY Zenon, <1>1, <1>3, <2>5, <2>8, <2>9 DEF SocketType
  <2>11. PlacesKept'
    BY Zenon, <1>1, <1>4, <2>8 DEF PlacesKept
  <2>12. FramesKept'
    <3>1. OnlyFrames(OnTheWay)' = OnlyFrames(OnTheWay)
      BY Zenon, <2>8 DEF OnTheWay, OnlyFrames
    <3> QED BY Zenon, <1>1, <1>4, <1>5, <2>7, <3>1, FramesMove DEF F
  <2>13. WordsKept'
    <3>1. Row(heard, Cat(w, d), h, a) = Row(Cat(heard, w), d, h, a)
      <4>1. heard \in Seq(Nat) /\ w \in Seq(Nat) /\ d \in Seq(Nat)
        BY <2>3, <2>4
      <4> QED BY <4>1, MovedToFront
    <3> DEFINE more == heard'
    <3>2. MessagesOnTheWay = Row(heard, Cat(w, d), h, a) /\ MessagesOnTheWay' = Row(more, d, h, a)
      BY Zenon, <1>5, <2>6 DEF MessagesOnTheWay, B, d, h, a
    <3>3. Row(more, d, h, a) = Count(page.sent)
      BY Zenon, <1>1, <1>4, <2>5, <3>1, <3>2 DEF WordsKept
    <3>4. IsPrefix(more, Row(more, d, h, a))
      <4>1. more \in Seq(Nat)
        BY Zenon, <2>5
      <4> HIDE DEF more
      <4> QED BY <2>3, <2>4, <4>1, HeardBegins
    <3>5. IsPrefix(more, Count(page.sent))
      BY Zenon, <3>3, <3>4
    <3> QED BY Zenon, <3>2, <3>3, <3>5 DEF WordsKept, Count
  <2>14. BatchKept'
    <3>1. Len(OnlyFrames(writer.buffer))' = Len(OnlyFrames(writer.buffer))
      BY Zenon, <2>8 DEF OnlyFrames
    <3>2. "drain" \notin {"open", "live", "wait"}
      OBVIOUS
    <3> QED BY Zenon, <1>1, <1>6, <2>8, <3>1, <3>2 DEF BatchKept
  <2>15. AwakeKept'
    <3>1. 0 =< PingAfter
      BY SocketAssumption
    <3> QED BY Zenon, <1>1, <1>4, <1>5, <2>8, <2>9, <3>1 DEF AwakeKept
  <2> QED BY <2>10, <2>11, <2>12, <2>13, <2>14, <2>15 DEF SocketInv
<1>11. CASE e.k # "frame" /\ ~(e.k = "bytes" /\ n # Close)
  <2>1. writer' = [writer EXCEPT !.pc = "cut", !.why = "page"] /\ UNCHANGED <<quiet, heard>>
    BY <1>2, <1>11 DEF ApplyEvent, EndsBecause
  <2>2. /\ writer' \in Writers /\ writer'.pc = "cut" /\ writer'.buffer = writer.buffer
        /\ writer'.batch = writer.batch /\ writer'.unflushed = writer.unflushed
        /\ writer'.why = "page"
    BY <1>1, <2>1 DEF SocketType, Writers
  <2>3. "cut" \notin Serving \cup {"open"} /\ "cut" \notin {"open", "join", "done", "drain", "live", "wait"}
    BY DEF Serving
  <2>4. SocketType'
    BY Zenon, <1>1, <1>3, <2>1, <2>2 DEF SocketType
  <2>5. PlacesKept'
    BY Zenon, <1>1, <1>4, <2>2, <2>3 DEF PlacesKept
  <2>6. FramesKept'
    BY Zenon, <2>2, <2>3 DEF FramesKept
  <2>7. Words(B)' = Words(B)
    <3> DEFINE b == B'
               c == IF e.k = "bytes" THEN <<n>> ELSE <<>>
    <3>1. B = c \o b /\ b \in Seq(Inputs)
      BY Zenon, <1>3
    <3>2. c \in Seq(Inputs) /\ Words(c) = <<>>
      <4>1. CASE e.k = "bytes"
        <5>1. n = Close
          BY <1>11, <4>1
        <5>2. <<>> \in Seq(Inputs) /\ n \in {0, Close}
          BY <5>1
        <5>3. Words(<<n>>) = <<>>
          BY <5>2, SaysNothing
        <5>4. <<n>> \in Seq(Inputs)
          BY <1>8, OneType
        <5> QED BY Zenon, <4>1, <5>3, <5>4
      <4>2. CASE e.k # "bytes"
        <5>1. Words(<<>>) = <<>> /\ <<>> \in Seq(Inputs)
          BY WordsJoin
        <5> QED BY Zenon, <4>2, <5>1
      <4> QED BY <4>1, <4>2
    <3> HIDE DEF b, c, B
    <3>3. Words(c \o b) = Words(c) \o Words(b) /\ Words(b) \in Seq(Nat)
      BY <3>1, <3>2, WordsJoin
    <3>4. <<>> \o Words(b) = Words(b)
      BY <3>3, ConcatEmptySeq
    <3>5. Words(B) = Words(b)
      BY Zenon, <3>1, <3>2, <3>3, <3>4
    <3>6. Words(B)' = Words(b)
      BY Zenon DEF b, Words
    <3> QED BY Zenon, <3>5, <3>6
  <2>8. WordsKept'
    <3>1. Words(InHand(reader))' = Words(InHand(reader)) /\ Words(sock.in)' = Words(sock.in)
      BY Zenon, <1>5 DEF Words
    <3> QED BY Zenon, <1>1, <1>4, <2>1, <2>7, <3>1, WordsMove
  <2>9. BatchKept'
    BY Zenon, <1>1, <2>2, <2>3, BatchStands
  <2>10. AwakeKept'
    <3>1. "page" # "silent"
      OBVIOUS
    <3> QED BY Zenon, <1>1, <1>5, <2>2, <2>3, <3>1 DEF AwakeKept
  <2> QED BY <2>4, <2>5, <2>6, <2>8, <2>9, <2>10 DEF SocketInv
<1> QED BY <1>9, <1>10, <1>11

\* The head of serve drains the channel, and then writes, or ends with the hub.
LEMMA DrainsKeeps == ASSUME SocketInv, Drains PROVE SocketInv'
<1>1. UNCHANGED <<hubQ, reader, framer, sock, page, linkStop>> /\ writer.pc = "drain"
  BY DEF Drains
<1>2. writer.pc \in Serving /\ writer.pc \in {"drain", "wait"}
  BY <1>1 DEF Serving
<1>3. CASE ~writer.unflushed /\ TakesEvent
  BY <1>1, <1>2, <1>3, TakesEventKeeps
<1>4. CASE ~(~writer.unflushed /\ TakesEvent)
  <2>1. /\ UNCHANGED <<chan, quiet, heard>>
        /\ \E p \in {"cut", "flush"} :
             writer' \in {[writer EXCEPT !.pc = p], [writer EXCEPT !.pc = p, !.why = "hub"]}
    BY <1>4 DEF Drains, EndsBecause
  <2> QED BY <1>1, <1>2, <2>1, WriterMoves
<1> QED BY <1>3, <1>4

\* Link::next brings an event, or its deadline.
LEMMA WaitsKeeps == ASSUME SocketInv, Waits PROVE SocketInv'
<1>1. UNCHANGED <<hubQ, reader, framer, sock, page, linkStop>> /\ writer.pc = "wait"
  BY DEF Waits
<1>2. writer.pc \in Serving /\ writer.pc \in {"drain", "wait"}
  BY <1>1 DEF Serving
<1>3. CASE ~writer.unflushed /\ TakesEvent
  BY <1>1, <1>2, <1>3, TakesEventKeeps
<1>4. CASE ~(~writer.unflushed /\ TakesEvent)
  <2>1. /\ UNCHANGED <<chan, quiet, heard>>
        /\ \E p \in {"cut", "drain"} :
             writer' \in {[writer EXCEPT !.pc = p], [writer EXCEPT !.pc = p, !.why = "hub"]}
    BY <1>4 DEF Waits, EndsBecause
  <2>2. writer.batch < FlushFrames
    BY <1>1, SocketAssumption DEF SocketInv, BatchKept
  <2> QED BY <1>1, <1>2, <2>1, <2>2, WriterMoves
<1> QED BY <1>3, <1>4

\* Time passes: for a page that is listening only while nothing is on its way,
\* so that it is asked before it is taken for silent.
LEMMA TicksKeeps == ASSUME SocketInv, Ticks PROVE SocketInv'
<1>1. /\ SocketType /\ PlacesKept /\ FramesKept /\ WordsKept /\ BatchKept /\ AwakeKept
  BY DEF SocketInv
<1>2. /\ UNCHANGED <<hubQ, reader, framer, chan, writer, sock, page, heard, linkStop>>
      /\ quiet'.heard = quiet.heard + 1
      /\ quiet'.asked = IF quiet.asked < PingAfter THEN quiet.asked + 1 ELSE quiet.asked
      /\ quiet' = [heard |-> quiet'.heard, asked |-> quiet'.asked]
  BY DEF Ticks
<1>3. quiet.heard \in Nat /\ quiet.asked \in Nat /\ quiet'.heard \in Nat /\ quiet'.asked \in Nat
  BY <1>1, <1>2 DEF SocketType
<1>4. quiet' \in [heard : Nat, asked : Nat]
  BY <1>2, <1>3
<1>5. SocketType'
  BY Zenon, <1>1, <1>2, <1>4 DEF SocketType
<1>6. PlacesKept'
  BY Zenon, <1>1, <1>2 DEF PlacesKept
<1>7. InHand(framer)' = InHand(framer) /\ InHand(reader)' = InHand(reader)
  BY Zenon, <1>2
<1>8. FramesKept' /\ WordsKept' /\ BatchKept'
  BY Zenon, <1>1, <1>2, <1>7, FramesStand, WordsStand, BatchStands
<1>9. AwakeKept'
  <2>1. SUFFICES ASSUME Awake
                 PROVE  /\ sock.up
                        /\ quiet'.asked =< PingAfter /\ quiet'.heard =< PingAfter
                        /\ quiet'.heard = quiet'.asked
    BY Zenon, <1>1, <1>2 DEF AwakeKept, Awake
  <2>2. /\ sock.out = <<>> /\ chan.events = <<>> /\ sock.in = <<>>
        /\ reader.pc # "send" /\ ~writer.unflushed /\ writer.pc = "wait" /\ ~DeadlineReached
    BY <2>1 DEF Ticks, Awake
  <2>3. writer.buffer = <<>>
    <3>1. writer.buffer \in Seq(Nat) /\ Len(writer.buffer) =< 0
      BY <1>1, <2>2 DEF BatchKept, SocketType, Writers
    <3>2. Len(writer.buffer) = 0
      BY <3>1, LenProperties
    <3> QED BY <3>1, <3>2, EmptySeq
  <2>4. InChannel("bytes") = <<>>
    <3>1. chan.events \in Seq(Events) /\ Carried("bytes", <<>>) = <<>>
      <4>1. chan.events \in Seq(Events)
        BY <1>1 DEF SocketType, Channels
      <4> DEFINE S == Inputs
      <4>2. S = Inputs \/ (S = Nat /\ "bytes" = "frame")
        OBVIOUS
      <4> HIDE DEF S
      <4>3. Carried("bytes", <<>>) = <<>>
        BY <4>2, CarriedJoin
      <4> QED BY <4>1, <4>3
    <3>2. InChannel("bytes") = Carried("bytes", chan.events)
      BY <3>1, ChannelCarries
    <3> QED BY Zenon, <2>2, <3>1, <3>2
  <2>5. InHand(reader) = <<>>
    BY <2>2 DEF InHand
  <2>6. ~Asked
    <3>1. \A X : ~Has(<<>>, X)
      BY DEF Has
    <3> QED BY Zenon, <2>2, <2>3, <2>4, <2>5, <3>1 DEF Asked
  <2>7. writer.pc \in Serving \cup {"open"}
    BY <2>2 DEF Serving
  <2>8. sock.up /\ quiet.heard = quiet.asked
    BY Zenon, <1>1, <2>1, <2>6, <2>7 DEF AwakeKept
  <2>9. quiet.asked < PingAfter /\ PingAfter \in Nat
    BY <1>3, <2>2, SocketAssumption DEF DeadlineReached
  <2> QED BY <1>2, <1>3, <2>8, <2>9
<1> QED BY <1>5, <1>6, <1>8, <1>9 DEF SocketInv

\* SocketInv is inductive: whatever the page, the hub, the two threads, the
\* writer and the clock do, in any order, however deep the channel and the
\* hub's queue, however much the wire takes and however long the silence.
THEOREM SocketInductive == TSSpec => []SocketInv
<1>1. SocketInv /\ UNCHANGED tsvars => SocketInv'
  <2> SUFFICES ASSUME SocketInv, UNCHANGED tsvars PROVE SocketInv'
    OBVIOUS
  <2>1. UNCHANGED <<hubQ, reader, framer, chan, writer, sock, quiet, page, heard, linkStop>>
    BY DEF tsvars
  <2>2. /\ SocketType /\ PlacesKept /\ FramesKept /\ WordsKept /\ BatchKept /\ AwakeKept
    BY DEF SocketInv
  <2>3. InHand(framer)' = InHand(framer) /\ InHand(reader)' = InHand(reader)
    BY Zenon, <2>1
  <2>4. SocketType' /\ PlacesKept'
    BY Zenon, <2>1, <2>2 DEF SocketType, PlacesKept
  <2>5. FramesKept' /\ WordsKept' /\ BatchKept'
    BY Zenon, <2>1, <2>2, <2>3, FramesStand, WordsStand, BatchStands
  <2>6. (Awake' => Awake) /\ Len(sock'.out) =< WireSize
    BY Zenon, <2>1, <2>2 DEF Awake, AwakeKept
  <2>7. Asked => Asked'
    BY Zenon, <2>1, <2>3, AskedStands
  <2>8. AwakeKept'
    BY Zenon, <2>1, <2>2, <2>6, <2>7, AwakeStands
  <2> QED BY <2>4, <2>5, <2>8 DEF SocketInv
<1>2. SocketInv /\ TSNext => SocketInv'
  <2> SUFFICES ASSUME SocketInv, TSNext PROVE SocketInv'
    OBVIOUS
  <2>1. CASE HubSends \/ PageReads \/ PageSends \/ PageTurns \/ SystemGivesUp
    BY Zenon, <2>1, HubSendsKeeps, PageReadsKeeps, PageSendsKeeps, PageTurnsKeeps, SystemGivesUpKeeps
  <2>2. CASE ReaderStep \/ FramerStep
    BY Zenon, <2>2, ReaderLooksKeeps, ReaderReadsKeeps, ReaderSendsKeeps, FramerTakesKeeps,
       FramerSendsKeeps DEF ReaderStep, FramerStep
  <2>3. CASE WriterStep \/ WriterPanics
    BY Zenon, <2>3, OpenLinkKeeps, DrainsKeeps, FlushesKeeps, LooksAtClockKeeps, WaitsKeeps,
       CutsOffKeeps, SetsStopKeeps, ReleasesClientKeeps, ShutsDownKeeps, DropsReceiverKeeps,
       JoinsKeeps, WriterPanicsKeeps DEF WriterStep
  <2>4. CASE Ticks
    BY <2>4, TicksKeeps
  <2> QED BY Zenon, <2>1, <2>2, <2>3, <2>4 DEF TSNext
<1>3. TSInit => SocketInv
  BY SocketStarts
<1> QED BY <1>1, <1>2, <1>3, PTL DEF TSSpec

\* While serve runs, what the page was shown and what is on its way to it is
\* everything the hub had for it, in order and nothing twice, through every
\* stalled write, partial flush and due batch; the hub hears a beginning of
\* what the page sent; at most one batch waits for a page that does not read;
\* and a page that reads and is listed is not taken for silent.
THEOREM SocketIsExact == TSSpec => []SocketExact
<1>1. SocketInv => SocketExact
  <2> SUFFICES ASSUME SocketInv PROVE SocketExact
    OBVIOUS
  <2>1. /\ SocketType /\ PlacesKept /\ FramesKept /\ WordsKept /\ BatchKept /\ AwakeKept
    BY DEF SocketInv
  <2>2. writer.pc \in Serving =>
          OnlyFrames(page.shown \o sock.out \o writer.buffer) \o InChannel("frame")
             \o InHand(framer) \o hubQ.queue = [i \in 1 .. hubQ.sent |-> i]
    BY Zenon, <2>1 DEF FramesKept, OnTheWay, Row, Cat, Count
  <2>3. IsPrefix(heard, [i \in 1 .. page.sent |-> i])
    BY Zenon, <2>1 DEF WordsKept, Count
  <2>4. writer.why = "silent" => page.slept \/ page.mode \in {"left", "gone"} \/ ~hubQ.listed
    <3>1. page.mode \in {"reads", "sleeps", "left", "gone"}
      BY <2>1 DEF SocketType, Pages
    <3> QED BY <2>1, <3>1 DEF AwakeKept, Awake, PlacesKept
  <2> QED BY Zenon, <2>1, <2>2, <2>3, <2>4 DEF SocketExact, BatchKept, PlacesKept
<1> QED BY <1>1, SocketInductive, PTL
=============================================================================
