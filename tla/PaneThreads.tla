---------------------------- MODULE PaneThreads -----------------------------
(***************************************************************************)
(* A pane and its threads, whole: the worker that drains the pane and may  *)
(* destroy it, the reader and the waiter (HubWorker), and the writer with  *)
(* its input queue (InputQueue). They meet in two places. An input command *)
(* the worker takes is put on the queue; and PtyPane::drop gives up the    *)
(* receiver, closes the queue and ends the child, after which each of the  *)
(* three threads has to find its own way out: nobody waits for them longer *)
(* than a bounded join (pty/reap.rs).                                      *)
(***************************************************************************)
EXTENDS HubWorker, InputQueue

ptvars == <<vars, iqvars>>

----------------------------------------------------------------------------
\* send_input, for a command the worker has taken: a refusal is answered to
\* the client and changes nothing, as in TakeCommand.
SendInput(n) ==
    /\ ~dropped
    /\ Len(accepted) < workload.input
    /\ TakeCommand
    /\ Enqueue(n)

\* Mutant: the drop of a pane forgets its input queue.
KeepsQueueOpen == UNCHANGED iqvars
\* PtyPane::drop takes the queue with the pane.
DropInput == IF dropped' # dropped THEN Close ELSE UNCHANGED iqvars

\* A write to the terminal returns when a program reads, and fails or returns
\* once no program has the terminal open.
WriteReturns == WriteDone \/ WriteFails

WriterStep == Stop \/ Wait \/ Take \/ WriteReturns

PTInit == Init /\ IQInit

PTNext ==
    \/ Next /\ DropInput
    \/ \E n \in Size : SendInput(n)
    \/ WriterStep /\ UNCHANGED vars

PTSpec == PTInit /\ [][PTNext]_ptvars

\* Threads that can run do run: a producer that has queued goes on to signal,
\* a blocked send goes through when there is room, the worker finishes its
\* pass, the writer looks at its queue, and time passes. Programs need not
\* read, write or end; a blocked write is sure to return only when none has
\* the terminal open.
PTFairSpec ==
    /\ PTSpec
    /\ WF_ptvars(SubmitterWakes /\ UNCHANGED iqvars)
    /\ WF_ptvars(StopWakes /\ UNCHANGED iqvars)
    /\ WF_ptvars(PumpWakes /\ UNCHANGED iqvars)
    /\ WF_ptvars(ReaderWakes /\ UNCHANGED iqvars)
    /\ WF_ptvars(WaiterWakes /\ UNCHANGED iqvars)
    /\ WF_ptvars(SendBlocked /\ UNCHANGED iqvars)
    /\ WF_ptvars(SendEof /\ UNCHANGED iqvars)
    /\ WF_ptvars(SendChildExited /\ UNCHANGED iqvars)
    /\ WF_ptvars(ReadEof /\ UNCHANGED iqvars)
    /\ WF_ptvars((Pass /\ DropInput) \/ \E n \in Size : SendInput(n))
    /\ WF_ptvars(Tick /\ UNCHANGED iqvars)
    /\ WF_ptvars((Stop \/ Wait \/ Take) /\ UNCHANGED vars)
    /\ WF_ptvars(writers = {} /\ WriteReturns /\ UNCHANGED vars)

----------------------------------------------------------------------------
(* Properties *)

\* A pane whose child has ended is reported to its clients, its noisy
\* leftovers notwithstanding, and a pane that is gone gives its three threads
\* back once no program has its terminal open: none of them stays on the full
\* channel, the empty queue or the blocked write it was on.
ThreadsEnd ==
    /\ "child" \notin writers ~> exit = Reported
    /\ dropped /\ writers = {} ~> reader = "done" /\ waiter = "done" /\ writer = "done"

\* Both: nobody waits for ever, on a queue or on a pane that is gone.
PaneSettles == QueuesDrain /\ ThreadsEnd

=============================================================================
