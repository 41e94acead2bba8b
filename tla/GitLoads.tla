------------------------------ MODULE GitLoads ------------------------------
(***************************************************************************)
(* The background git readers of all open projects                         *)
(* (git/diff/load_worker). Each project has a queue with one place per     *)
(* lane and a thread that is started when it can be, takes the next lane   *)
(* in turn, and waits for one of the process's few permits to read, in the *)
(* order of arrival but for repositories that are already being read. A    *)
(* project that is closed tells its thread and does not wait for it.       *)
(***************************************************************************)
EXTENDS Naturals, Sequences, FiniteSets, SequencesExt

CONSTANTS
    Projects,       \* workers, one per open project
    Mine,           \* the one whose promise is checked
    Repo,           \* the repository of each
    LaneCount,      \* LoadLane::COUNT
    MaxInFlight,    \* MAX_IN_FLIGHT
    MaxProjects,    \* MAX_PROJECTS
    Loads           \* bounds: how often each project asks or withdraws, and how
                    \* many thread starts the system refuses: [asks, refusals]

ASSUME LoadsAssumption ==
    /\ IsFiniteSet(Projects) /\ Mine \in Projects
    /\ LaneCount \in Nat \ {0} /\ {MaxInFlight, MaxProjects} \subseteq Nat

VARIABLES
    requests,   \* Pending::requests: per project and lane, a generation or 0
    newestOf,   \* Pending::latest
    nextLane,   \* Pending::next_lane
    opened,     \* projects that have been opened
    stopped,    \* Pending::stopped
    thread,     \* each project's thread: its place and the request it took
    backoff,    \* SpawnRetry: the next start has to wait
    refusals,   \* starts the system may still refuse
    waiting,    \* AdmissionState::waiting
    outbox,     \* replies each project has not fetched
    asks,       \* next_generation of each project's LoadController
    quota       \* how far it may get

glvars == <<requests, newestOf, nextLane, opened, stopped, thread, backoff, refusals,
            waiting, outbox, asks, quota>>

\* MAX_WORKER_THREADS: one for every project, and one for every reader a
\* closed project left behind.
MaxThreads == MaxProjects + MaxInFlight

LaneSet == 0 .. LaneCount - 1
NoRequest == [lane |-> 0, gen |-> 0]
NoThread == [at |-> "none", req |-> NoRequest]
IdleThread == [at |-> "idle", req |-> NoRequest]

Running == {p \in Projects : thread[p].at = "running"}
\* Threads alive hold their worker permit, also when nobody waits for them.
Alive == {p \in Projects : thread[p].at \notin {"none", "done"}}

GLInit ==
    /\ requests = [p \in Projects |-> [l \in LaneSet |-> 0]]
    /\ newestOf = [p \in Projects |-> [l \in LaneSet |-> 0]]
    /\ nextLane = [p \in Projects |-> 0]
    /\ opened = {}
    /\ stopped = [p \in Projects |-> FALSE]
    /\ thread = [p \in Projects |-> NoThread]
    /\ backoff = [p \in Projects |-> FALSE]
    /\ \E s \in Loads : refusals = s.refusals /\ quota = s.asks
    /\ waiting = <<>>
    /\ outbox = [p \in Projects |-> <<>>]
    /\ asks = [p \in Projects |-> 0]

\* ensure_started: a thread that is missing is started, when the delay after
\* a refusal is over and a worker permit is free; the system may refuse.
EnsureStarted(p) ==
    \/ /\ thread[p].at # "none" \/ backoff[p] \/ Cardinality(Alive) >= MaxThreads
       /\ UNCHANGED <<thread, backoff, refusals>>
    \/ /\ thread[p].at = "none" /\ ~backoff[p] /\ Cardinality(Alive) < MaxThreads
       /\ \/ /\ thread' = [thread EXCEPT ![p] = IdleThread]
             /\ UNCHANGED <<backoff, refusals>>
          \/ /\ refusals > 0
             /\ refusals' = refusals - 1
             /\ backoff' = [backoff EXCEPT ![p] = TRUE]
             /\ UNCHANGED thread

\* SpawnRetry: the delay ends.
RetryReady(p) ==
    /\ backoff[p]
    /\ backoff' = [backoff EXCEPT ![p] = FALSE]
    /\ UNCHANGED <<requests, newestOf, nextLane, opened, stopped, thread, refusals,
                   waiting, outbox, asks, quota>>

\* GitLoadWorker::spawn, for a project that is opened.
OpenLoader(p) ==
    /\ p \notin opened
    /\ Cardinality({q \in opened : ~stopped[q]}) < MaxProjects
    /\ opened' = opened \cup {p}
    /\ EnsureStarted(p)
    /\ UNCHANGED <<requests, newestOf, nextLane, stopped, waiting, outbox, asks, quota>>

Open(p) == p \in opened /\ ~stopped[p]

Submit(p, l) ==
    /\ Open(p)
    /\ asks[p] < quota[p]
    /\ asks' = [asks EXCEPT ![p] = @ + 1]
    /\ requests' = [requests EXCEPT ![p][l] = asks'[p]]
    /\ newestOf' = [newestOf EXCEPT ![p][l] = asks'[p]]
    /\ EnsureStarted(p)
    /\ UNCHANGED <<nextLane, opened, stopped, waiting, outbox, quota>>

CancelLane(p, l) ==
    /\ Open(p)
    /\ asks[p] < quota[p]
    /\ asks' = [asks EXCEPT ![p] = @ + 1]
    /\ requests' = [requests EXCEPT ![p][l] = 0]
    /\ newestOf' = [newestOf EXCEPT ![p][l] = asks'[p]]
    /\ UNCHANGED <<nextLane, opened, stopped, thread, backoff, refusals, waiting, outbox, quota>>

\* try_recv, every tick.
TryRecv(p) ==
    /\ Open(p)
    /\ EnsureStarted(p)
    /\ outbox' = [outbox EXCEPT ![p] = IF @ = <<>> THEN @ ELSE Tail(@)]
    /\ UNCHANGED <<requests, newestOf, nextLane, opened, stopped, waiting, asks, quota>>

\* GitLoadWorker::drop: the thread is told, and left alone if it is busy.
DropLoader(p) ==
    /\ Open(p)
    /\ stopped' = [stopped EXCEPT ![p] = TRUE]
    /\ UNCHANGED <<requests, newestOf, nextLane, opened, thread, backoff, refusals,
                   waiting, outbox, asks, quota>>

----------------------------------------------------------------------------
(* worker_loop *)

\* take_next: the lanes in turn.
TurnOf(p) ==
    LET busy == {o \in LaneSet : requests[p][(nextLane[p] + o) % LaneCount] # 0}
    IN (nextLane[p] + (CHOOSE o \in busy : \A q \in busy : o <= q)) % LaneCount

TakeNext(p) ==
    /\ thread[p].at = "idle"
    /\ ~stopped[p]
    /\ \E l \in LaneSet : requests[p][l] # 0
    /\ LET l == TurnOf(p)
       IN /\ thread' = [thread EXCEPT ![p] = [at |-> "taken",
                                              req |-> [lane |-> l, gen |-> requests[p][l]]]]
          /\ requests' = [requests EXCEPT ![p][l] = 0]
          /\ nextLane' = [nextLane EXCEPT ![p] = (l + 1) % LaneCount]
    /\ UNCHANGED <<newestOf, opened, stopped, backoff, refusals, waiting, outbox, asks, quota>>

LeaveIdle(p) ==
    /\ thread[p].at = "idle"
    /\ stopped[p]
    /\ thread' = [thread EXCEPT ![p].at = "done"]
    /\ UNCHANGED <<requests, newestOf, nextLane, opened, stopped, backoff, refusals,
                   waiting, outbox, asks, quota>>

\* is_latest, asked again once the lock was let go; then a ticket is drawn.
Recheck(p) ==
    /\ thread[p].at = "taken"
    /\ IF newestOf[p][thread[p].req.lane] = thread[p].req.gen
       THEN /\ thread' = [thread EXCEPT ![p].at = "queued"]
            /\ waiting' = Append(waiting, p)
       ELSE /\ thread' = [thread EXCEPT ![p] = IdleThread]
            /\ UNCHANGED waiting
    /\ UNCHANGED <<requests, newestOf, nextLane, opened, stopped, backoff, refusals, outbox, asks, quota>>

\* AdmissionLimiter::acquire: the first waiter whose repository is not being
\* read, if there is a permit.
RepoFree(p) == \A q \in Running : Repo[q] # Repo[p]
Eligible(p) ==
    /\ Cardinality(Running) < MaxInFlight
    /\ \E i \in 1 .. Len(waiting) :
         /\ waiting[i] = p /\ RepoFree(p)
         /\ \A j \in 1 .. i - 1 : ~RepoFree(waiting[j])

Admit(p) ==
    /\ thread[p].at = "queued"
    /\ ~stopped[p]
    /\ Eligible(p)
    /\ waiting' = Remove(waiting, p)
    /\ thread' = [thread EXCEPT ![p].at = "running"]
    /\ UNCHANGED <<requests, newestOf, nextLane, opened, stopped, backoff, refusals, outbox, asks, quota>>

\* Mutant: a thread that stops waiting leaves its ticket behind.
LeavesTicket(p) ==
    /\ thread[p].at = "queued"
    /\ stopped[p]
    /\ thread' = [thread EXCEPT ![p] = [at |-> "done", req |-> NoRequest]]
    /\ UNCHANGED <<requests, newestOf, nextLane, opened, stopped, backoff, refusals,
                   waiting, outbox, asks, quota>>
\* A thread stopped while it waits takes its ticket back.
GiveUp(p) ==
    /\ thread[p].at = "queued"
    /\ stopped[p]
    /\ waiting' = Remove(waiting, p)
    /\ thread' = [thread EXCEPT ![p] = [at |-> "done", req |-> NoRequest]]
    /\ UNCHANGED <<requests, newestOf, nextLane, opened, stopped, backoff, refusals, outbox, asks, quota>>

\* execute_safely returns: a result, an error or a caught panic, which is an
\* error too. The reply is sent and the permit is given back; nobody hears a
\* thread whose project was closed, and it ends.
Execute(p) ==
    /\ thread[p].at = "running"
    /\ outbox' = [outbox EXCEPT ![p] = IF stopped[p] THEN @ ELSE Append(@, thread[p].req)]
    /\ thread' = [thread EXCEPT ![p] =
                    IF stopped[p] THEN [at |-> "done", req |-> NoRequest] ELSE IdleThread]
    /\ UNCHANGED <<requests, newestOf, nextLane, opened, stopped, backoff, refusals, waiting, asks, quota>>

ThreadStep(p) == TakeNext(p) \/ LeaveIdle(p) \/ Recheck(p) \/ Admit(p) \/ GiveUp(p) \/ Execute(p)

GLNext ==
    \E p \in Projects :
        \/ \E l \in LaneSet : Submit(p, l) \/ CancelLane(p, l)
        \/ OpenLoader(p) \/ TryRecv(p) \/ RetryReady(p) \/ DropLoader(p) \/ ThreadStep(p)

GLSpec == GLInit /\ [][GLNext]_glvars

----------------------------------------------------------------------------
(* Properties *)

Promise == INSTANCE LoadLanes WITH
    Lanes <- LaneSet, asked <- requests[Mine], newest <- newestOf[Mine],
    inHand <- thread[Mine].req, replies <- outbox[Mine], closed <- stopped[Mine]

\* No more readers than permits, and one per repository, threads left behind
\* by a closed project included.
ReadersBounded ==
    /\ Cardinality(Running) <= MaxInFlight
    /\ \A p, q \in Running : Repo[p] = Repo[q] => p = q
    /\ Cardinality(Alive) <= MaxThreads

\* What of it is safety: every step of all the projects together is a step of
\* the one project's lanes or does not touch them, and the readers are bounded
\* (git/diff/load_worker/runtime.rs worker_loop, lifecycle.rs AdmissionLimiter).
LoadsSafe == Promise!LLSafety /\ []ReadersBounded

\* A project gets what LoadLanes promises, its newest request answered
\* included, whatever the other projects' threads are doing, whichever starts
\* are refused and whoever is closed while it waits for a permit, and no more
\* git readers run for it than the limiter admits
\* (git/diff/load_worker/runtime.rs worker_loop, lifecycle.rs AdmissionLimiter).
LoadsImplementLanes == Promise!LLSpec /\ []ReadersBounded
=============================================================================
