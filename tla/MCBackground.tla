---------------------------- MODULE MCBackground -----------------------------
(* The threads that read repositories - a repository's snapshot worker and   *)
(* its subscribers, and the projects' git loaders - each on small instances, *)
(* under the fairness of its threads.  A behaviour is about one of them:     *)
(* topic says which, and the other keeps still in one of its initial states. *)
EXTENDS RepoStatus, GitLoads

CONSTANTS c1, c2, p1, p2, p3, r1, r2

VARIABLE topic

\* RepoStatus. Each site drives one hazard: subscriptions racing each other and
\* a change; missed events and files added by force; ignore rules that change
\* under a build; a git directory elsewhere, watched or refused; a runtime that
\* is stopped.
Plain == [external |-> FALSE, forced |-> FALSE, lossy |-> FALSE, refused |-> {},
          clients |-> {c1}, edits |-> {}, changes |-> 0, joins |-> 1, stops |-> FALSE]
MCSites ==
    {[Plain EXCEPT !.edits = {"source"}, !.changes = 1, !.joins = 2, !.clients = Clients],
     [Plain EXCEPT !.lossy = TRUE, !.forced = TRUE, !.edits = {"source", "built"},
                   !.changes = 1],
     [Plain EXCEPT !.edits = {"rules", "built"}, !.changes = 2],
     [Plain EXCEPT !.external = TRUE, !.edits = {"index", "objects"}, !.changes = 2],
     [Plain EXCEPT !.external = TRUE, !.refused = {GitDir}, !.edits = {"git", "index"},
                   !.changes = 2],
     [Plain EXCEPT !.joins = 2, !.stops = TRUE]}

\* GitLoads: two projects of one repository and one of another, one permit.
MCRepo == [p \in Projects |-> IF p = p3 THEN r2 ELSE r1]
\* Each asks once, with a thread start refused; or the first asks twice, so that
\* a request is replaced or withdrawn, waiting or in hand, beside another.
MCLoads == {[asks |-> [p \in Projects |-> 1], refusals |-> 1],
            [asks |-> [p \in Projects |-> CASE p = p1 -> 2 [] p = p2 -> 1 [] p = p3 -> 0],
             refusals |-> 0]}

----------------------------------------------------------------------------

GLStill == GLInit /\ refusals = 0
RSStill == RSInit /\ site = CHOOSE s \in Sites : TRUE

MCInit ==
    \/ topic = "status" /\ RSInit /\ GLStill
    \/ topic = "loads" /\ RSStill /\ GLInit

MCNext ==
    /\ UNCHANGED topic
    /\ \/ topic = "status" /\ RSNext /\ UNCHANGED glvars
       \/ topic = "loads" /\ GLNext /\ UNCHANGED rsvars

\* Both threads run, every wait ends, and clients finish what they began. People
\* need not change anything, subscribe or leave.
StatusFairness ==
    /\ WF_rsvars(topic = "status" /\ WorkerStep)
    /\ WF_rsvars(topic = "status" /\ PumpStep)
    /\ \A c \in Clients : WF_rsvars(topic = "status" /\ ClientStep(c))

\* Threads run, a git call returns, delays end and every tick fetches.
LoadFairness ==
    \A p \in Projects :
        /\ WF_glvars(topic = "loads" /\ ThreadStep(p))
        /\ WF_glvars(topic = "loads" /\ TryRecv(p))
        /\ WF_glvars(topic = "loads" /\ RetryReady(p))

MCSpec ==
    /\ MCInit /\ [][MCNext]_<<topic, rsvars, glvars>>
    /\ StatusFairness /\ LoadFairness
=============================================================================
