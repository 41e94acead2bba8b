--------------------------- MODULE MCTerminalHub ---------------------------
(* The ways of a terminal's frames - what the hub broadcasts and replays to  *)
(* pages, the threads of a browser's terminal socket, and the router of an   *)
(* attached client - each on small instances.  A behaviour is about one of   *)
(* them: topic says which, and the others keep still in one of their initial *)
(* states.                                                                   *)
EXTENDS TerminalHub, TermSocket, TermRouter

VARIABLE topic

\* TermSocket: a frame each way, or frames beyond the wire, a batch and a queue.
MCTraffic == {<<1, 1>>, <<4, 0>>}

TSStill == LET load == CHOOSE l \in Traffic : TRUE
           IN  TSInit /\ hubQ.max = load[1] /\ page.max = load[2]

MCInit ==
    /\ Init /\ RTInit
    /\ \/ topic \in {"hub", "router"} /\ TSStill
       \/ topic = "socket" /\ TSInit

MCNext ==
    /\ UNCHANGED topic
    /\ \/ topic = "hub" /\ Next /\ UNCHANGED <<tsvars, rtvars>>
       \/ topic = "socket" /\ TSNext /\ UNCHANGED <<vars, rtvars>>
       \/ topic = "router" /\ RTNext /\ UNCHANGED <<vars, tsvars>>

MCSpec == MCInit /\ [][MCNext]_<<topic, vars, tsvars, rtvars>>
=============================================================================
