----------------------------- MODULE HubWorker ------------------------------
(***************************************************************************)
(* When a hub's worker runs. It parks on a coalescing wake signal          *)
(* (platform/threading.rs) until a producer signals or a deadline it       *)
(* computed itself comes due (hub_deadline.rs, pty_wakeup.rs), and in a    *)
(* pass takes the panes to close and the queued commands, drains each      *)
(* pane's events under a budget per time window (pty_drain.rs) and a       *)
(* budget of every plugin's commands (hub_events.rs). Producers queue      *)
(* first and signal second: connection threads, a plugin's pump, and one   *)
(* pane's reader and waiter threads (pty_io.rs, pty_spawn.rs). One pane    *)
(* and one plugin stand for all. The safety cap on a wait is left out: it  *)
(* bounds the cost of a signal nobody sent, and what is checked is that    *)
(* there is none.                                                          *)
(***************************************************************************)
EXTENDS Integers, Sequences, SequencesExt

CONSTANTS
    Capacity,        \* OUTPUT_EVENT_CAPACITY
    Budget,          \* PER_PANE_DRAIN_BUDGET
    DrainWindow,     \* DRAIN_WINDOW
    Grace,           \* EXIT_DRAIN_GRACE
    Depth,           \* the command queue
    PluginDepth,     \* INBOUND_QUEUE_DEPTH
    PluginBudget,    \* MAX_COMMANDS_PER_TICK
    Pace,            \* COMMAND_DRAIN_PACE
    Workloads        \* bound: what a behaviour may ask for in all

ASSUME LimitAssumption ==
    /\ Capacity \in Nat \ {0} /\ Budget \in Nat \ {0}
    /\ DrainWindow \in Nat \ {0} /\ Grace \in Nat \ {0} /\ Depth \in Nat
    /\ PluginDepth \in Nat /\ PluginBudget \in Nat \ {0} /\ Pace \in Nat \ {0}

ASSUME WorkloadAssumption ==
    Workloads \subseteq [output : Nat, submits : Nat, plugin : Nat, input : Nat,
                         closes : BOOLEAN, stops : BOOLEAN, leftovers : BOOLEAN]

None == -1

VARIABLES
    worker,          \* "top", "commands", "drain", "plugins", "park", "parked", "ended"
    signal,          \* Wake.pending
    deadline,        \* what is left of the parked wait, or None
    commands,        \* queued commands
    closing,         \* the pane is in pending_closes
    submitting,      \* submitters that have queued and not signalled yet
    stopping,        \* "no", "set" (flag set, not yet signalled) or "yes"
    inbox,           \* plugin commands queued
    pump,            \* the plugin's reader thread: "read" or "wake"
    capped,          \* commands_capped
    channel,         \* the pane's events
    dropped,         \* the pane is destroyed and its receiver gone
    reader,          \* the pane's reader thread
    waiter,          \* the pane's waiter thread
    writers,         \* who still has the pane's terminal open
    window,          \* what is left of the drain window and its spent budget
    exit,            \* ExitPhase
    workload,        \* the chunks, submits, plugin commands and inputs allowed, and
                     \* whether the hub may stop and the child leaves others behind
    written,         \* chunks written so far
    asked,           \* commands and closes submitted so far
    sent             \* commands the plugin sent so far

passing == <<worker, signal, deadline>>
people == <<commands, closing, submitting, stopping>>
plugin == <<inbox, pump, capped>>
threads == <<reader, waiter, writers, written>>
pane == <<channel, dropped, window, exit>>
usage == <<workload, asked, sent>>
vars == <<passing, people, plugin, threads, pane, usage>>

Running == [phase |-> "running", left |-> 0]
Draining == [phase |-> "draining", left |-> Grace]
Reported == [phase |-> "reported", left |-> 0]
NoWindow == [left |-> 0, used |-> 0]

\* The types of the variables.
TypeOK ==
    /\ worker \in {"top", "commands", "drain", "plugins", "park", "parked", "ended"}
    /\ signal \in BOOLEAN /\ closing \in BOOLEAN /\ workload \in Workloads
    /\ deadline \in Nat \cup {None}
    /\ commands \in 0 .. Depth /\ submitting \in Nat
    /\ stopping \in {"no", "set", "yes"}
    /\ inbox \in 0 .. PluginDepth /\ pump \in {"read", "wake"} /\ capped \in BOOLEAN
    /\ channel \in Seq({"output", "child", "eof"}) /\ Len(channel) <= Capacity
    /\ dropped \in BOOLEAN
    /\ reader \in {"reading", "blocked", "wake", "discarding", "ending", "signing", "done"}
    /\ waiter \in {"waiting", "sending", "wake", "done"}
    /\ writers \in SUBSET {"child", "background"}
    /\ window \in [left : 0 .. DrainWindow, used : 0 .. Budget]
    /\ exit \in [phase : {"running", "draining", "reported"}, left : 0 .. Grace]
    /\ written \in 0 .. workload.output /\ asked \in 0 .. workload.submits
    /\ sent \in 0 .. workload.plugin

----------------------------------------------------------------------------
(* Producers: queue, then signal *)

\* submit
Submit ==
    /\ commands < Depth /\ asked < workload.submits
    /\ commands' = commands + 1
    /\ submitting' = submitting + 1
    /\ asked' = asked + 1
    /\ UNCHANGED <<passing, closing, stopping, plugin, threads, pane, workload, sent>>

\* queue_close, which no full command queue refuses; of a pane already gone,
\* or queued already, a close changes nothing
QueueClose ==
    /\ workload.closes /\ ~dropped /\ ~closing
    /\ closing' = TRUE
    /\ submitting' = submitting + 1
    /\ UNCHANGED <<passing, commands, stopping, plugin, threads, pane, usage>>

SubmitterWakes ==
    /\ submitting > 0
    /\ submitting' = submitting - 1
    /\ signal' = TRUE
    /\ UNCHANGED <<worker, deadline, commands, closing, stopping, plugin, threads,
                   pane, usage>>

\* stop: the flag, then the signal
SetStop ==
    /\ stopping = "no" /\ workload.stops
    /\ stopping' = "set"
    /\ UNCHANGED <<passing, commands, closing, submitting, plugin, threads, pane, usage>>

StopWakes ==
    /\ stopping = "set"
    /\ stopping' = "yes"
    /\ signal' = TRUE
    /\ UNCHANGED <<worker, deadline, commands, closing, submitting, plugin, threads,
                   pane, usage>>

\* read_commands: a full queue blocks the pump, and with it the plugin.
PluginSends ==
    /\ pump = "read"
    /\ inbox < PluginDepth /\ sent < workload.plugin
    /\ inbox' = inbox + 1
    /\ pump' = "wake"
    /\ sent' = sent + 1
    /\ UNCHANGED <<passing, people, capped, threads, pane, workload, asked>>

PumpWakes ==
    /\ pump = "wake"
    /\ pump' = "read"
    /\ signal' = TRUE
    /\ UNCHANGED <<worker, deadline, people, inbox, capped, threads, pane, usage>>

----------------------------------------------------------------------------
(* The pane's threads *)

Room == dropped \/ Len(channel) < Capacity
Put(e) == channel' = IF dropped THEN channel ELSE Append(channel, e)

\* The reader reads a chunk and queues it, or finds the channel full. Once it
\* has found the receiver gone it goes on reading and throws away what it reads.
ReadChunk ==
    /\ reader \in {"reading", "discarding"}
    /\ writers # {} /\ written < workload.output
    /\ written' = written + 1
    /\ IF Room THEN /\ Put("output")
                    /\ reader' = IF dropped THEN "discarding" ELSE "wake"
               ELSE /\ reader' = "blocked"
                    /\ UNCHANGED channel
    /\ UNCHANGED <<passing, people, plugin, waiter, writers, dropped, window, exit, usage>>

\* The blocking send of a chunk that did not fit
SendBlocked ==
    /\ reader = "blocked" /\ Room
    /\ Put("output")
    /\ reader' = IF dropped THEN "discarding" ELSE "wake"
    /\ UNCHANGED <<passing, people, plugin, waiter, writers, written, dropped, window,
                   exit, usage>>

ReaderWakes ==
    /\ reader \in {"wake", "signing"}
    /\ reader' = IF reader = "wake" THEN "reading" ELSE "done"
    /\ signal' = TRUE
    /\ UNCHANGED <<worker, deadline, people, plugin, waiter, writers, written,
                   pane, usage>>

\* End of the master: the last event on the channel, unless the reader has
\* found the receiver gone.
ReadEof ==
    /\ reader \in {"reading", "discarding"} /\ writers = {}
    /\ reader' = IF reader = "discarding" THEN "done" ELSE "ending"
    /\ UNCHANGED <<passing, people, plugin, waiter, writers, written, pane, usage>>

SendEof ==
    /\ reader = "ending" /\ Room
    /\ Put("eof")
    /\ reader' = "signing"
    /\ UNCHANGED <<passing, people, plugin, waiter, writers, written, dropped, window,
                   exit, usage>>

\* The child ends, possibly leaving others with its terminal open.
ChildEnds ==
    /\ "child" \in writers
    /\ writers' = writers \ {"child"}
    /\ waiter' = "sending"
    /\ UNCHANGED <<passing, people, plugin, reader, written, pane, usage>>

BackgroundEnds ==
    /\ "background" \in writers
    /\ writers' = writers \ {"background"}
    /\ UNCHANGED <<passing, people, plugin, reader, waiter, written, pane, usage>>

SendChildExited ==
    /\ waiter = "sending" /\ Room
    /\ Put("child")
    /\ waiter' = "wake"
    /\ UNCHANGED <<passing, people, plugin, reader, writers, written, dropped, window,
                   exit, usage>>

WaiterWakes ==
    /\ waiter = "wake"
    /\ waiter' = "done"
    /\ signal' = TRUE
    /\ UNCHANGED <<worker, deadline, people, plugin, reader, writers, written,
                   pane, usage>>

----------------------------------------------------------------------------
(* The worker's pass *)

\* destroy_pane: the receiver is dropped first, then the child is killed;
\* something that left its process tree may live on.
DestroyPane ==
    /\ dropped' = TRUE
    /\ channel' = <<>>
    /\ window' = NoWindow
    /\ writers' = writers \ {"child"}
    /\ waiter' = IF "child" \in writers THEN "sending" ELSE waiter

\* The stop flag is read once per pass, and the panes to close are taken
\* before any command.
TakePendingCloses ==
    /\ worker = "top" /\ stopping = "no"
    /\ worker' = "commands"
    /\ closing' = FALSE
    /\ IF closing /\ ~dropped
       THEN DestroyPane /\ exit' = Reported
       ELSE UNCHANGED <<pane, writers, waiter>>
    /\ UNCHANGED <<signal, deadline, commands, submitting, stopping, plugin, reader, written, usage>>

\* Commands are taken one by one until the queue is found empty, those that
\* are submitted meanwhile included.
TakeCommand ==
    /\ worker = "commands" /\ commands > 0
    /\ commands' = commands - 1
    /\ UNCHANGED <<passing, closing, submitting, stopping, plugin, threads, pane, usage>>

CommandsTaken ==
    /\ worker = "commands" /\ commands = 0
    /\ worker' = "drain"
    /\ UNCHANGED <<signal, deadline, people, plugin, threads, pane, usage>>

\* The teardown drops the panes.
End ==
    /\ worker = "top" /\ stopping # "no"
    /\ worker' = "ended"
    /\ DestroyPane /\ exit' = Reported
    /\ UNCHANGED <<signal, deadline, people, plugin, reader, written, usage>>

\* A drain window that ended is followed by a new one, with a whole budget.
CurrentWindow == IF window.left > 0 THEN window ELSE [left |-> DrainWindow, used |-> 0]

\* The events a drain takes: up to what it is allowed, and none after the
\* end of the master.
TakenOf(allowed) ==
    LET n == IF Len(channel) < allowed THEN Len(channel) ELSE allowed
    IN  IF \E i \in 1 .. n : channel[i] = "eof"
        THEN SubSeq(channel, 1, CHOOSE i \in 1 .. n : channel[i] = "eof")
        ELSE SubSeq(channel, 1, n)

Drained == TakenOf(Budget - CurrentWindow.used)

\* Mutant: a child's death is reported at once.
ReportsAtOnce(drained) ==
    IF "eof" \in ToSet(drained) \/ "child" \in ToSet(drained) THEN Reported ELSE exit
\* ExitPhase: the end of the master is final; a child's death waits until its
\* grace is over and a drain finds the channel dry.
ExitAfter(drained) ==
    LET dry == Len(drained) = Len(channel) /\ CurrentWindow.used + Len(drained) < Budget
    IN  IF "eof" \in ToSet(drained) THEN Reported
        ELSE IF dry /\ exit.phase = "draining" /\ exit.left = 0 THEN Reported
        ELSE IF "child" \in ToSet(drained) /\ exit.phase = "running" THEN Draining
        ELSE exit

\* drain_queued, and the destruction of a pane it reports as exited
DrainQueued ==
    /\ worker = "drain"
    /\ worker' = "plugins"
    /\ IF dropped
       THEN UNCHANGED <<pane, writers, waiter>>
       ELSE /\ exit' = ExitAfter(Drained)
            /\ IF exit' = Reported
               THEN DestroyPane
               ELSE /\ channel' = SubSeq(channel, Len(Drained) + 1, Len(channel))
                    /\ window' = [CurrentWindow EXCEPT !.used = @ + Len(Drained)]
                    /\ UNCHANGED <<dropped, writers, waiter>>
    /\ UNCHANGED <<signal, deadline, people, plugin, reader, written, usage>>

\* Mutant: a host that filled its budget is not remembered.
NeverCapped(n) == FALSE
\* take_commands: whether it stopped at the budget, with more perhaps waiting
Capped(n) == n = PluginBudget

DispatchPluginCommands ==
    LET n == IF inbox < PluginBudget THEN inbox ELSE PluginBudget IN
    /\ worker = "plugins"
    /\ worker' = "park"
    /\ inbox' = inbox - n
    /\ capped' = Capped(n)
    /\ UNCHANGED <<signal, deadline, people, pump, threads, pane, usage>>

\* next_deadline: the pane's grace, its spent window, the plugin's pace.
\* Mutant: a spent window is not a deadline.
NoBacklogDeadline ==
    (IF exit.phase = "draining" /\ ~dropped THEN {exit.left} ELSE {})
        \cup (IF capped THEN {Pace} ELSE {})
Deadlines ==
    (IF exit.phase = "draining" /\ ~dropped THEN {exit.left} ELSE {})
        \cup (IF window.used >= Budget /\ ~dropped THEN {window.left} ELSE {})
        \cup (IF capped THEN {Pace} ELSE {})

\* Wake::wait: at once when a signal is pending, else until the deadline.
Park ==
    /\ worker = "park"
    /\ deadline' = IF Deadlines = {} THEN None
                   ELSE CHOOSE d \in Deadlines : \A e \in Deadlines : d <= e
    /\ worker' = "parked"
    /\ UNCHANGED <<signal, people, plugin, threads, pane, usage>>

\* The wait ends, and takes the signal with it.
Wakes ==
    /\ worker = "parked"
    /\ signal \/ deadline = 0
    /\ worker' = "top"
    /\ signal' = FALSE
    /\ deadline' = None
    /\ UNCHANGED <<people, plugin, threads, pane, usage>>

Tick ==
    LET Less(n) == IF n > 0 THEN n - 1 ELSE n IN
    /\ \/ deadline > 0 \/ window.left > 0 \/ exit.left > 0
    /\ deadline' = Less(deadline)
    /\ window' = [window EXCEPT !.left = Less(@)]
    /\ exit' = [exit EXCEPT !.left = Less(@)]
    /\ UNCHANGED <<worker, signal, people, plugin, threads, channel, dropped, usage>>

----------------------------------------------------------------------------
Init ==
    /\ worker = "top" /\ signal = FALSE /\ deadline = None
    /\ commands = 0 /\ closing = FALSE /\ submitting = 0 /\ stopping = "no"
    /\ inbox = 0 /\ pump = "read" /\ capped = FALSE
    /\ channel = <<>> /\ dropped = FALSE /\ window = NoWindow /\ exit = Running
    /\ reader = "reading" /\ waiter = "waiting"
    /\ workload \in Workloads
    /\ writers = {"child"} \cup (IF workload.leftovers THEN {"background"} ELSE {})
    /\ written = 0 /\ asked = 0 /\ sent = 0

Signals == SubmitterWakes \/ StopWakes \/ PumpWakes \/ ReaderWakes \/ WaiterWakes
Sends == SendBlocked \/ SendEof \/ SendChildExited
Pass == TakePendingCloses \/ TakeCommand \/ CommandsTaken \/ End \/ DrainQueued
            \/ DispatchPluginCommands \/ Park \/ Wakes

Next ==
    \/ Submit \/ QueueClose \/ SetStop \/ PluginSends
    \/ Signals \/ Sends
    \/ ReadChunk \/ ReadEof \/ ChildEnds \/ BackgroundEnds
    \/ Pass \/ Tick

Spec == Init /\ [][Next]_vars

----------------------------------------------------------------------------
(* Properties *)

\* A worker that parks without a deadline has nothing left to do, unless a
\* producer has queued and is about to signal: no wake-up is lost, without
\* any cap on the wait.
NoLostWakeup ==
    worker = "parked" /\ ~signal /\ deadline = None =>
        /\ commands > 0 \/ closing => submitting > 0
        /\ stopping # "set" => stopping = "no"
        /\ inbox > 0 => pump = "wake"
        /\ channel # <<>> => reader \in {"wake", "signing"} \/ waiter = "wake"
        /\ exit.phase # "draining"

\* A pane is reported as exited only after everything queued before it was
\* handed over: the channel holds no output when the drain destroys the pane.
NothingQueuedIsCut ==
    [][worker = "drain" /\ exit' = Reported /\ exit # Reported
          => "output" \notin ToSet(SubSeq(channel, Len(Drained) + 1, Len(channel)))]_vars

\* Whatever people and plugins queue is taken, unless the worker is told to stop.
QueuesDrain ==
    /\ commands > 0 ~> commands = 0 \/ worker = "ended"
    /\ inbox > 0 ~> inbox = 0 \/ worker = "ended"

=============================================================================
