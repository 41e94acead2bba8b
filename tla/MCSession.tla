------------------------------ MODULE MCSession ------------------------------
(* The parts of a session behind the screens - the repository catalog, what  *)
(* attached clients are told of it, clone jobs, login tokens, the daemon's   *)
(* start and stop, the recovery plugin and the agents' shared memory - each  *)
(* on small instances.  A behaviour is about one of them: topic says which,  *)
(* and the others keep still in one of their initial states.                 *)
EXTENDS SessionCatalog, Attached, CloneJobs, LoginTokens, DaemonLife, Recovery, MemoryStore

VARIABLE topic

----------------------------------------------------------------------------

\* SessionCatalog: three repositories of at most three, two callers.
MCBase == <<1, 2, 3>>
MCOrders == {<<4, 3, 3, 2, 1>>}
Calls(ops, n, persist) == [ops |-> ops, asks |-> n, persist |-> persist]
MCCalls == {Calls({"open", "close", "focus"}, 3, FALSE),
            Calls({"reorder", "close", "focus"}, 3, FALSE),
            Calls({"reorder", "close", "open"}, 2, FALSE),
            Calls({"reload", "open", "close"}, 2, FALSE),
            Calls({"open", "close"}, 2, TRUE)}

\* Attached: one or two clients, two repositories of which one is open.
MCStart == <<1>>
Clients(who, ops, changes, drops) ==
    [who |-> who, ops |-> ops, changes |-> changes, drops |-> drops]
MCAttaches == {Clients({1}, {"open", "close"}, 2, 0),
               Clients({1}, {"open", "focus", "order", "accent", "list"}, 2, 0),
               Clients({1}, {"close"}, 1, 1),
               Clients({1, 2}, {"open"}, 1, 0)}

\* DaemonLife: a daemon that serves, was killed, or none; two commands.
Two(a, b) == [c \in {2, 3} |-> IF c = 2 THEN a ELSE b]
Setting(f, b, k, p) == [first |-> f, build |-> b, kind |-> k, port |-> p]
MCSettings ==
    {Setting(f, "new", Two("attach", "attach"), Two(1, 1)) : f \in {"serve", "dead", "none"}}
    \cup {Setting("none", "new", Two("attach", "attach"), Two(1, 2))}
    \cup {Setting("serve", "old", Two("attach_yes", "stop"), Two(1, 2)),
          Setting("serve", "old", Two("attach_yes", "attach"), Two(1, 1))}
    \cup {Setting("serve", "new", Two("stop", k), Two(2, 2)) : k \in {"stop", "attach", "silent"}}
    \cup {Setting("dead", "new", Two("attach", k), Two(2, 1)) : k \in {"status", "silent", "stop"}}

\* Recovery: each provider with two or three events, records, or clock faults.
Scene(a, e, r, j, d) == [adapter |-> a, events |-> e, records |-> r, jumps |-> j, drift |-> d]
MCScenes == {Scene("codex", 1, 2, 0, 0), Scene("codex", 3, 1, 0, 0), Scene("codex", 1, 1, 1, 1),
             Scene("opencode", 2, 2, 0, 0), Scene("opencode", 1, 3, 0, 0)}

\* MemoryStore: notes, the board, and a file nobody has opened yet.
Memory(ops, c, t, d, new) ==
    [ops |-> ops, calls |-> c, ticks |-> t, deaths |-> d, fresh |-> new]
MCMemories == {Memory({"write", "recent", "search", "delete"}, 4, 0, 0, FALSE),
               Memory({"post"}, 3, 2, 0, FALSE),
               Memory({"write", "post"}, 2, 0, 1, TRUE)}

----------------------------------------------------------------------------

SCStill == SCInit /\ scScript = (CHOOSE s \in SCScripts : TRUE) /\ pref = CHOOSE p \in SCPrefs : TRUE
ATStill == ATInit /\ atLeft = CHOOSE s \in ATScripts : TRUE
LGStill == LGInit /\ ttl = CHOOSE l \in Lifetimes : TRUE
RStill == RInit /\ scene = CHOOSE s \in Scenes : TRUE
MSStill == MSInit /\ msScript = CHOOSE s \in MSScripts : TRUE
DLStill ==
    LET s == CHOOSE st \in Settings : TRUE
    IN  /\ DLInit /\ proc[1].pc = s.first /\ proc[1].build = s.build
        /\ \A c \in Commands : cli[c].kind = s.kind[c] /\ proc[c].port = s.port[c]

MCInit ==
    \/ topic = "catalog" /\ SCInit /\ ATStill /\ CLInit /\ LGStill /\ DLStill /\ RStill /\ MSStill
    \/ topic = "clients" /\ ATInit /\ SCStill /\ CLInit /\ LGStill /\ DLStill /\ RStill /\ MSStill
    \/ topic = "clone" /\ CLInit /\ SCStill /\ ATStill /\ LGStill /\ DLStill /\ RStill /\ MSStill
    \/ topic = "login" /\ LGInit /\ SCStill /\ ATStill /\ CLInit /\ DLStill /\ RStill /\ MSStill
    \/ topic = "daemon" /\ DLInit /\ SCStill /\ ATStill /\ CLInit /\ LGStill /\ RStill /\ MSStill
    \/ topic = "recovery" /\ RInit /\ SCStill /\ ATStill /\ CLInit /\ LGStill /\ DLStill /\ MSStill
    \/ topic = "memory" /\ MSInit /\ SCStill /\ ATStill /\ CLInit /\ LGStill /\ DLStill /\ RStill

MCNext ==
    /\ UNCHANGED topic
    /\ \/ topic = "catalog" /\ SCNext /\ UNCHANGED <<atvars, clvars, lgvars, dvars, rvars, msvars>>
       \/ topic = "clients" /\ ATNext /\ UNCHANGED <<scvars, clvars, lgvars, dvars, rvars, msvars>>
       \/ topic = "clone" /\ CLNext /\ UNCHANGED <<scvars, atvars, lgvars, dvars, rvars, msvars>>
       \/ topic = "login" /\ LGNext /\ UNCHANGED <<scvars, atvars, clvars, dvars, rvars, msvars>>
       \/ topic = "daemon" /\ DLNext /\ UNCHANGED <<scvars, atvars, clvars, lgvars, rvars, msvars>>
       \/ topic = "recovery" /\ RNext /\ UNCHANGED <<scvars, atvars, clvars, lgvars, dvars, msvars>>
       \/ topic = "memory" /\ MSNext /\ UNCHANGED <<scvars, atvars, clvars, lgvars, dvars, rvars>>

MCSpec == MCInit /\ [][MCNext]_<<topic, scvars, atvars, clvars, lgvars, dvars, rvars, msvars>>
=============================================================================
