----------------------------- MODULE MCTerminals -----------------------------
(* What stands between the terminals and those who watch them - the startup  *)
(* terminals' claim, a pane's record, and the threads of a browser's         *)
(* terminal socket - each on small instances.  A behaviour is about one of   *)
(* them: topic says which, and the others keep still in one of their initial *)
(* states.                                                                   *)
EXTENDS StartupClaim, PaneRecord, TermSocket

VARIABLE topic

\* TermSocket: a frame each way, or more frames than the queues hold.
MCTraffic == {<<1, 1>>, <<2, 0>>}

TSStill == LET load == CHOOSE l \in Traffic : TRUE
           IN  TSInit /\ hubQ.max = load[1] /\ page.max = load[2]

MCInit ==
    /\ Init /\ PRInit
    /\ \/ topic \in {"startup", "record"} /\ TSStill
       \/ topic = "socket" /\ TSInit

MCNext ==
    /\ UNCHANGED topic
    /\ \/ topic = "startup" /\ Next /\ UNCHANGED <<prvars, tsvars>>
       \/ topic = "record" /\ PRNext /\ UNCHANGED <<vars, tsvars>>
       \/ topic = "socket" /\ TSNext /\ UNCHANGED <<vars, prvars>>

\* The hub's worker thread and each connection's thread keep running, and a
\* client that was offered the terminals answers.
StartupFairness ==
    /\ WF_vars(topic = "startup" /\ WorkerStep)
    /\ \A c \in Clients : /\ WF_vars(topic = "startup" /\ ConnectStep(c))
                         /\ WF_vars(topic = "startup" /\ ClaimStep(c))
                         /\ WF_vars(topic = "startup" /\ Answer(c))

\* The worker keeps making passes (a deadline or the one-second cap brings
\* each), and one of them comes after the snapshot window has run out.
RecordFairness ==
    /\ WF_prvars(topic = "record" /\ BeginPass)
    /\ SF_prvars(topic = "record" /\ SettleRestless(TRUE))

\* Threads run, time passes, and the system gives up on a dead peer in the end.
SocketFairness ==
    /\ WF_tsvars(topic = "socket" /\ ReaderStep)
    /\ WF_tsvars(topic = "socket" /\ FramerStep)
    /\ WF_tsvars(topic = "socket" /\ WriterStep)
    /\ WF_tsvars(topic = "socket" /\ Ticks)
    /\ WF_tsvars(topic = "socket" /\ SystemGivesUp)

MCSpec ==
    /\ MCInit /\ [][MCNext]_<<topic, vars, prvars, tsvars>>
    /\ StartupFairness /\ RecordFairness /\ SocketFairness
=============================================================================
