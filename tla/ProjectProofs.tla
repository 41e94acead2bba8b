---------------------------- MODULE ProjectProofs ----------------------------
(***************************************************************************)
(* What is read and drawn of a project.  The git loaders of any number of  *)
(* projects keep what LoadLanes promises each of them, for any number of   *)
(* lanes and permits: every step of all of them is a step, or a stutter, of *)
(* the one project's lanes.  The snapshot worker leaves no change of a     *)
(* watched tree unread, for any paths, rules and sites.  And what is drawn *)
(* of a project: for any number of projects, any files, any windows of     *)
(* freshness and heat, and a wall clock set to anything between two turns  *)
(* of the frame loop, what is on the screen at the end of a turn is what a *)
(* frame drawn then would show.                                            *)
(***************************************************************************)
EXTENDS RepoStatus, GitLoads, FrameLoop, FiniteSetTheorems, WellFoundedInduction, TLAPS

----------------------------------------------------------------------------
(* Numbers *)

\* A set of naturals that is not empty has a least element.
LEMMA LeastOf ==
    ASSUME NEW T, T \subseteq Nat, T # {}
    PROVE  \E x \in T : \A y \in T : x =< y
<1> DEFINE R == OpToRel(<, Nat)
<1>1. IsWellFoundedOn(R, Nat)
  BY NatLessThanWellFounded
<1>2. \A x, y \in Nat : y < x => <<y, x>> \in R
  BY DEF OpToRel
<1> HIDE DEF R
<1>3. PICK x \in T : \A y \in T : ~ (<<y, x>> \in R)
  BY <1>1, WFMin
<1>4. ASSUME NEW y \in T PROVE x =< y
  <2>1. x \in Nat /\ y \in Nat
    OBVIOUS
  <2>2. ~(y < x)
    BY <1>2, <1>3, <2>1
  <2> QED BY <2>1, <2>2
<1> QED BY <1>4

\* Going around from any lane, every lane is met.
LEMMA AroundTheLanes ==
    ASSUME NEW a \in LaneSet, NEW l \in LaneSet
    PROVE  \E o \in LaneSet : (a + o) % LaneCount = l
<1>1. LaneCount \in Nat \ {0} /\ a \in 0 .. LaneCount - 1 /\ l \in 0 .. LaneCount - 1
  BY LoadsAssumption DEF LaneSet
<1>2. CASE a =< l
  <2>1. l - a \in 0 .. LaneCount - 1 /\ a + (l - a) = l
    BY <1>1, <1>2
  <2>2. l % LaneCount = l
    BY <1>1
  <2> QED BY <2>1, <2>2 DEF LaneSet
<1>3. CASE a > l
  <2>1. l - a + LaneCount \in 0 .. LaneCount - 1 /\ a + (l - a + LaneCount) = l + LaneCount
    BY <1>1, <1>3
  <2>2. (l + LaneCount) % LaneCount = l
    BY <1>1
  <2> QED BY <2>1, <2>2 DEF LaneSet
<1> QED BY <1>1, <1>2, <1>3

LEMMA LaneOf ==
    ASSUME NEW n \in Nat
    PROVE  n % LaneCount \in LaneSet
<1>1. LaneCount \in Nat \ {0}
  BY LoadsAssumption
<1> QED BY <1>1 DEF LaneSet

----------------------------------------------------------------------------
(* The inductive invariant of the loaders *)

Requested == [lane : LaneSet, gen : Nat]
Resting == {"none", "idle", "done"}
Loader == [at : Resting \cup {"taken", "queued", "running"}, req : Requested]

LoadsType ==
    /\ requests \in [Projects -> [LaneSet -> Nat]]
    /\ newestOf \in [Projects -> [LaneSet -> Nat]]
    /\ nextLane \in [Projects -> LaneSet]
    /\ thread \in [Projects -> Loader]
    /\ asks \in [Projects -> Nat]
    /\ stopped \in [Projects -> BOOLEAN]
    /\ outbox \in [Projects -> Seq(Requested)]

\* Generations are drawn from one counter, so the next is newer than any.
GensKept == \A p \in Projects : \A l \in LaneSet : newestOf[p][l] =< asks[p]

\* A thread has a request in hand exactly between taking and answering it.
HandKept ==
    \A p \in Projects :
        /\ thread[p].at \in Resting => thread[p].req = NoRequest
        /\ thread[p].at \notin Resting => thread[p].req.gen # 0

LoadsInv == LoadsType /\ GensKept /\ HandKept /\ ReadersBounded

----------------------------------------------------------------------------
(* The lane whose turn it is has a request. *)

LEMMA TurnFacts ==
    ASSUME LoadsType, NEW p \in Projects, \E l \in LaneSet : requests[p][l] # 0
    PROVE  TurnOf(p) \in LaneSet /\ requests[p][TurnOf(p)] # 0
<1> DEFINE busy == {o \in LaneSet : requests[p][(nextLane[p] + o) % LaneCount] # 0}
           first == CHOOSE o \in busy : \A q \in busy : o <= q
<1>1. nextLane[p] \in LaneSet /\ nextLane[p] \in Nat
  BY LoadsAssumption DEF LoadsType, LaneSet
<1>2. busy # {}
  <2>1. PICK l \in LaneSet : requests[p][l] # 0
    OBVIOUS
  <2>2. PICK o \in LaneSet : (nextLane[p] + o) % LaneCount = l
    BY <1>1, AroundTheLanes
  <2> QED BY <2>1, <2>2
<1>3. busy \subseteq Nat /\ busy \subseteq LaneSet
  BY LoadsAssumption DEF LaneSet
<1>4. \A o \in busy : requests[p][(nextLane[p] + o) % LaneCount] # 0
  OBVIOUS
<1>5. TurnOf(p) = (nextLane[p] + first) % LaneCount
  BY Zenon DEF TurnOf
<1> HIDE DEF busy
<1>6. \E o \in busy : \A q \in busy : o <= q
  BY <1>2, <1>3, LeastOf
<1>7. first \in busy
  BY <1>6, Zenon
<1> HIDE DEF first
<1>8. nextLane[p] + first \in Nat
  BY <1>1, <1>3, <1>7
<1> QED BY <1>4, <1>5, <1>7, <1>8, LaneOf

----------------------------------------------------------------------------
(* What becomes of one thread *)

LEMMA ThreadMoves ==
    ASSUME LoadsType, NEW p \in Projects, NEW r \in Loader, thread' = [thread EXCEPT ![p] = r]
    PROVE  /\ thread' \in [Projects -> Loader] /\ thread'[p] = r
           /\ \A q \in Projects \ {p} : thread'[q] = thread[q]
BY DEF LoadsType

LEMMA OneMore ==
    ASSUME NEW S, IsFiniteSet(S), NEW T, NEW x, T \subseteq S \cup {x}, NEW n \in Nat,
           \/ T \subseteq S /\ Cardinality(S) =< n
           \/ Cardinality(S) < n
    PROVE  Cardinality(T) =< n
<1>1. Cardinality(S) \in Nat
  BY FS_CardinalityType
<1>2. /\ IsFiniteSet(S \cup {x}) /\ Cardinality(S \cup {x}) =< Cardinality(S) + 1
  <2>1. /\ IsFiniteSet(S \cup {x})
        /\ Cardinality(S \cup {x}) = IF x \in S THEN Cardinality(S) ELSE Cardinality(S) + 1
    BY FS_AddElement
  <2> QED BY <1>1, <2>1
<1>3. /\ IsFiniteSet(T) /\ Cardinality(T) =< Cardinality(S \cup {x})
  BY <1>2, FS_Subset
<1>4. Cardinality(T) \in Nat /\ Cardinality(S \cup {x}) \in Nat
  BY <1>2, <1>3, FS_CardinalityType
<1>5. CASE T \subseteq S /\ Cardinality(S) =< n
  <2>1. Cardinality(T) =< Cardinality(S)
    BY <1>5, FS_Subset
  <2> QED BY <1>1, <1>4, <1>5, <2>1
<1>6. CASE Cardinality(S) < n
  BY <1>1, <1>2, <1>3, <1>4, <1>6
<1> QED BY <1>5, <1>6

\* A thread begins to read only with a permit and alone in its repository, and
\* comes alive only below the limit.
LEMMA BoundsKept ==
    ASSUME LoadsInv, NEW p \in Projects, NEW r \in Loader, thread' = [thread EXCEPT ![p] = r],
           r.at = "running" => \/ thread[p].at = "running"
                               \/ Cardinality(Running) < MaxInFlight /\ RepoFree(p),
           r.at \notin {"none", "done"} => \/ thread[p].at \notin {"none", "done"}
                                          \/ Cardinality(Alive) < MaxThreads
    PROVE  ReadersBounded'
<1>1. /\ thread'[p] = r /\ \A q \in Projects \ {p} : thread'[q] = thread[q]
  BY ThreadMoves DEF LoadsInv
<1>2. IsFiniteSet(Running) /\ IsFiniteSet(Alive)
  <2>1. Running \in SUBSET Projects /\ Alive \in SUBSET Projects
    BY DEF Running, Alive
  <2> QED BY <2>1, LoadsAssumption, FS_Subset
<1>3. /\ Running' \subseteq Running \cup {p}
      /\ Running' \subseteq Running \/ (Cardinality(Running) < MaxInFlight /\ RepoFree(p))
  BY <1>1 DEF Running
<1>4. /\ Alive' \subseteq Alive \cup {p}
      /\ Alive' \subseteq Alive \/ Cardinality(Alive) < MaxThreads
  BY <1>1 DEF Alive
<1>5. MaxInFlight \in Nat /\ MaxThreads \in Nat
  BY LoadsAssumption DEF MaxThreads
<1>6. Cardinality(Running') =< MaxInFlight
  BY <1>2, <1>3, <1>5, OneMore DEF LoadsInv, ReadersBounded
<1>7. Cardinality(Alive') =< MaxThreads
  BY <1>2, <1>4, <1>5, OneMore DEF LoadsInv, ReadersBounded
<1>8. \A q, s \in Running' : Repo[q] = Repo[s] => q = s
  BY <1>3 DEF LoadsInv, ReadersBounded, RepoFree
<1> QED BY <1>6, <1>7, <1>8 DEF ReadersBounded, MaxThreads

\* ensure_started changes at most the thread, from none to one at rest.
LEMMA EnsureFacts ==
    ASSUME LoadsInv, NEW p \in Projects, EnsureStarted(p)
    PROVE  /\ thread' \in [Projects -> Loader] /\ ReadersBounded' /\ HandKept'
           /\ \A q \in Projects : thread'[q].req = thread[q].req
<1>1. CASE thread' = thread
  BY <1>1 DEF LoadsInv, LoadsType, ReadersBounded, HandKept, Running, Alive
<1>2. CASE /\ thread' = [thread EXCEPT ![p] = IdleThread] /\ thread[p].at = "none"
           /\ Cardinality(Alive) < MaxThreads
  <2>1. NoRequest \in Requested
    BY LoadsAssumption DEF NoRequest, Requested, LaneSet
  <2>2. IdleThread \in Loader /\ IdleThread.at = "idle" /\ IdleThread.req = NoRequest
    BY <2>1 DEF IdleThread, Loader, Resting
  <2>3. /\ thread' \in [Projects -> Loader] /\ thread'[p] = IdleThread
        /\ \A q \in Projects \ {p} : thread'[q] = thread[q]
    BY <1>2, <2>2, ThreadMoves DEF LoadsInv
  <2>4. ReadersBounded'
    BY <1>2, <2>2, BoundsKept
  <2>5. thread[p].req = NoRequest
    BY <1>2 DEF LoadsInv, HandKept, Resting
  <2> QED BY <2>2, <2>3, <2>4, <2>5 DEF LoadsInv, HandKept, Resting
<1> QED BY <1>1, <1>2 DEF EnsureStarted

----------------------------------------------------------------------------
(* Every step keeps the invariant. *)

LEMMA SubmitKeeps ==
    ASSUME LoadsInv, NEW p \in Projects, NEW l \in LaneSet, Submit(p, l) \/ CancelLane(p, l)
    PROVE  LoadsInv'
<1> DEFINE n == asks[p] + 1
<1>1. /\ asks' = [asks EXCEPT ![p] = n] /\ n \in Nat /\ asks[p] \in Nat
      /\ \E g \in Nat : requests' = [requests EXCEPT ![p][l] = g]
      /\ newestOf' = [newestOf EXCEPT ![p][l] = n]
      /\ UNCHANGED <<nextLane, stopped, outbox>>
  <2>1. asks[p] \in Nat /\ n \in Nat
    BY DEF LoadsInv, LoadsType
  <2>2. asks' = [asks EXCEPT ![p] = n] /\ UNCHANGED <<nextLane, stopped, outbox>>
    BY DEF Submit, CancelLane
  <2>3. asks'[p] = n
    BY <2>2 DEF LoadsInv, LoadsType
  <2>4. /\ newestOf' = [newestOf EXCEPT ![p][l] = n]
        /\ \/ requests' = [requests EXCEPT ![p][l] = n]
           \/ requests' = [requests EXCEPT ![p][l] = 0]
    BY <2>3 DEF Submit, CancelLane
  <2> QED BY <2>1, <2>2, <2>4
<1>2. /\ thread' \in [Projects -> Loader] /\ ReadersBounded' /\ HandKept'
  <2>1. CASE Submit(p, l)
    BY <2>1, EnsureFacts DEF Submit
  <2>2. CASE CancelLane(p, l)
    BY <2>2 DEF CancelLane, LoadsInv, LoadsType, ReadersBounded, HandKept, Running, Alive
  <2> QED BY <2>1, <2>2
<1> HIDE DEF n
<1>3. LoadsType'
  <2>1. requests' \in [Projects -> [LaneSet -> Nat]]
    BY <1>1 DEF LoadsInv, LoadsType
  <2>2. newestOf' \in [Projects -> [LaneSet -> Nat]] /\ asks' \in [Projects -> Nat]
    BY <1>1 DEF LoadsInv, LoadsType
  <2> QED BY <1>1, <1>2, <2>1, <2>2 DEF LoadsInv, LoadsType
<1>4. GensKept'
  <2> SUFFICES ASSUME NEW q \in Projects, NEW k \in LaneSet PROVE newestOf'[q][k] =< asks'[q]
    BY DEF GensKept
  <2>1. /\ asks'[q] = IF q = p THEN n ELSE asks[q]
        /\ newestOf'[q][k] = IF q = p /\ k = l THEN n ELSE newestOf[q][k]
    BY <1>1 DEF LoadsInv, LoadsType
  <2>2. newestOf[q][k] =< asks[q] /\ newestOf[q][k] \in Nat /\ asks[q] \in Nat
    BY DEF LoadsInv, LoadsType, GensKept
  <2> QED BY <1>1, <2>1, <2>2 DEF n
<1> QED BY <1>2, <1>3, <1>4 DEF LoadsInv

LEMMA QuietKeeps ==
    ASSUME LoadsInv, NEW p \in Projects,
           OpenLoader(p) \/ TryRecv(p) \/ RetryReady(p) \/ DropLoader(p)
    PROVE  LoadsInv'
<1>1. /\ UNCHANGED <<requests, newestOf, nextLane, asks>>
      /\ stopped' \in [Projects -> BOOLEAN]
  BY DEF OpenLoader, TryRecv, RetryReady, DropLoader, LoadsInv, LoadsType
<1>2. outbox' \in [Projects -> Seq(Requested)]
  <2>1. CASE TryRecv(p)
    <3>1. outbox[p] \in Seq(Requested)
      BY DEF LoadsInv, LoadsType
    <3>2. (IF outbox[p] = <<>> THEN outbox[p] ELSE Tail(outbox[p])) \in Seq(Requested)
      BY <3>1
    <3> QED BY <2>1, <3>2 DEF TryRecv, LoadsInv, LoadsType
  <2>2. CASE ~TryRecv(p)
    BY <2>2 DEF OpenLoader, RetryReady, DropLoader, LoadsInv, LoadsType
  <2> QED BY <2>1, <2>2
<1>3. /\ thread' \in [Projects -> Loader] /\ ReadersBounded' /\ HandKept'
  <2>1. CASE OpenLoader(p) \/ TryRecv(p)
    BY <2>1, EnsureFacts DEF OpenLoader, TryRecv
  <2>2. CASE RetryReady(p) \/ DropLoader(p)
    BY <2>2 DEF RetryReady, DropLoader, LoadsInv, LoadsType, ReadersBounded, HandKept, Running, Alive
  <2> QED BY <2>1, <2>2
<1> QED BY <1>1, <1>2, <1>3 DEF LoadsInv, LoadsType, GensKept

\* What the steps of a thread have in common.
LEMMA StepKeeps ==
    ASSUME LoadsInv, NEW p \in Projects, NEW r \in Loader, thread' = [thread EXCEPT ![p] = r],
           r.at \in Resting => r.req = NoRequest,
           r.at \notin Resting => r.req.gen # 0,
           r.at = "running" => Cardinality(Running) < MaxInFlight /\ RepoFree(p),
           thread[p].at \notin {"none", "done"},
           UNCHANGED <<newestOf, stopped, asks>>,
           requests' \in [Projects -> [LaneSet -> Nat]],
           nextLane' \in [Projects -> LaneSet],
           outbox' \in [Projects -> Seq(Requested)]
    PROVE  LoadsInv'
<1>1. /\ thread' \in [Projects -> Loader] /\ thread'[p] = r
      /\ \A q \in Projects \ {p} : thread'[q] = thread[q]
  BY ThreadMoves DEF LoadsInv
<1>2. ReadersBounded'
  BY BoundsKept
<1>3. HandKept'
  BY <1>1 DEF LoadsInv, HandKept
<1>4. LoadsType' /\ GensKept'
  BY <1>1 DEF LoadsInv, LoadsType, GensKept
<1> QED BY <1>2, <1>3, <1>4 DEF LoadsInv

LEMMA AtRest == IdleThread \in Loader /\ [at |-> "done", req |-> NoRequest] \in Loader
<1>1. NoRequest \in Requested
  BY LoadsAssumption DEF NoRequest, Requested, LaneSet
<1> QED BY <1>1 DEF IdleThread, Loader, Resting

LEMMA ThreadKeeps == ASSUME LoadsInv, NEW p \in Projects, ThreadStep(p) PROVE LoadsInv'
<1> DEFINE t == thread[p]
           done == [at |-> "done", req |-> NoRequest]
<1>1. t \in Loader /\ t.req \in Requested
  BY DEF LoadsInv, LoadsType, Loader
<1>2. CASE TakeNext(p)
  <2> DEFINE l == TurnOf(p)
             r == [at |-> "taken", req |-> [lane |-> l, gen |-> requests[p][l]]]
  <2>1. l \in LaneSet /\ requests[p][l] # 0 /\ requests[p][l] \in Nat /\ l \in Nat
    <3>1. l \in LaneSet /\ requests[p][l] # 0
      BY <1>2, TurnFacts DEF TakeNext, LoadsInv
    <3>2. requests[p] \in [LaneSet -> Nat]
      BY DEF LoadsInv, LoadsType
    <3> QED BY <3>1, <3>2, LoadsAssumption DEF LaneSet
  <2>2. /\ thread' = [thread EXCEPT ![p] = r] /\ requests' = [requests EXCEPT ![p][l] = 0]
        /\ nextLane' = [nextLane EXCEPT ![p] = (l + 1) % LaneCount] /\ t.at = "idle"
        /\ UNCHANGED <<newestOf, stopped, outbox, asks>>
    BY <1>2 DEF TakeNext
  <2> HIDE DEF l
  <2>3. r \in Loader /\ r.at = "taken" /\ r.req.gen # 0
    BY <2>1 DEF Loader, Requested
  <2>4. (l + 1) % LaneCount \in LaneSet
    BY <2>1, LaneOf
  <2>5. requests' \in [Projects -> [LaneSet -> Nat]] /\ nextLane' \in [Projects -> LaneSet]
        /\ outbox' \in [Projects -> Seq(Requested)]
    BY <2>1, <2>2, <2>4 DEF LoadsInv, LoadsType
  <2> HIDE DEF r
  <2> QED BY <2>2, <2>3, <2>5, StepKeeps DEF Resting
<1>3. ASSUME UNCHANGED <<requests, newestOf, nextLane, stopped, outbox, asks>>,
             NEW r \in Loader, thread' = [thread EXCEPT ![p] = r],
             r.at \in Resting => r.req = NoRequest,
             r.at \notin Resting => r.req.gen # 0,
             r.at = "running" => Cardinality(Running) < MaxInFlight /\ RepoFree(p),
             t.at \notin {"none", "done"}
      PROVE  LoadsInv'
  <2>1. /\ requests' \in [Projects -> [LaneSet -> Nat]] /\ nextLane' \in [Projects -> LaneSet]
        /\ outbox' \in [Projects -> Seq(Requested)]
    BY <1>3 DEF LoadsInv, LoadsType
  <2> QED BY <1>3, <2>1, StepKeeps
<1>4. t.at \notin Resting => t.req.gen # 0
  BY DEF LoadsInv, HandKept
<1>5. CASE LeaveIdle(p)
  <2>1. t.at = "idle" /\ t.req = NoRequest /\ thread' = [thread EXCEPT ![p] = [t EXCEPT !.at = "done"]]
    BY <1>5 DEF LeaveIdle, LoadsInv, HandKept, Resting
  <2>2. [t EXCEPT !.at = "done"] \in Loader /\ [t EXCEPT !.at = "done"].at = "done"
        /\ [t EXCEPT !.at = "done"].req = NoRequest
    BY <1>1, <2>1 DEF Loader, Resting
  <2> QED BY <1>3, <1>5, <2>1, <2>2 DEF LeaveIdle, Resting
<1>6. CASE Recheck(p)
  <2>1. [t EXCEPT !.at = "queued"] \in Loader /\ [t EXCEPT !.at = "queued"].at = "queued"
        /\ [t EXCEPT !.at = "queued"].req = t.req
    BY <1>1 DEF Loader, Resting
  <2>2. t.at = "taken" /\ t.req.gen # 0
    BY <1>4, <1>6 DEF Recheck, Resting
  <2>3. \/ thread' = [thread EXCEPT ![p] = [t EXCEPT !.at = "queued"]]
        \/ thread' = [thread EXCEPT ![p] = IdleThread]
    BY <1>6 DEF Recheck
  <2>4. IdleThread.at = "idle" /\ IdleThread.req = NoRequest
    BY DEF IdleThread
  <2> QED BY <1>3, <1>6, <2>1, <2>2, <2>3, <2>4, AtRest DEF Recheck, Resting
<1>7. CASE Admit(p)
  <2>1. [t EXCEPT !.at = "running"] \in Loader /\ [t EXCEPT !.at = "running"].at = "running"
        /\ [t EXCEPT !.at = "running"].req = t.req
    BY <1>1 DEF Loader, Resting
  <2>2. /\ t.at = "queued" /\ t.req.gen # 0 /\ thread' = [thread EXCEPT ![p] = [t EXCEPT !.at = "running"]]
    BY <1>4, <1>7 DEF Admit, Resting
  <2>3. Cardinality(Running) < MaxInFlight /\ RepoFree(p)
    BY <1>7 DEF Admit, Eligible
  <2> QED BY <1>3, <1>7, <2>1, <2>2, <2>3 DEF Admit, Resting
<1>8. CASE GiveUp(p)
  <2>1. done.at = "done" /\ done.req = NoRequest /\ done \in Loader
    BY AtRest
  <2>2. thread' = [thread EXCEPT ![p] = done] /\ t.at = "queued"
    BY <1>8 DEF GiveUp
  <2> QED BY <1>3, <1>8, <2>1, <2>2 DEF GiveUp, Resting
<1>9. CASE Execute(p)
  <2>1. done.at = "done" /\ done.req = NoRequest /\ done \in Loader
        /\ IdleThread \in Loader /\ IdleThread.at = "idle" /\ IdleThread.req = NoRequest
    BY AtRest DEF IdleThread
  <2>2. /\ t.at = "running"
        /\ \/ thread' = [thread EXCEPT ![p] = done]
           \/ thread' = [thread EXCEPT ![p] = IdleThread]
    BY <1>9 DEF Execute
  <2>3. outbox[p] \in Seq(Requested) /\ Append(outbox[p], t.req) \in Seq(Requested)
    BY <1>1 DEF LoadsInv, LoadsType
  <2>4. outbox' \in [Projects -> Seq(Requested)]
    BY <1>9, <2>3 DEF Execute, LoadsInv, LoadsType
  <2>5. /\ requests' \in [Projects -> [LaneSet -> Nat]] /\ nextLane' \in [Projects -> LaneSet]
        /\ UNCHANGED <<newestOf, stopped, asks>>
    BY <1>9 DEF Execute, LoadsInv, LoadsType
  <2> QED BY <2>1, <2>2, <2>4, <2>5, StepKeeps DEF Resting
<1> QED BY <1>2, <1>5, <1>6, <1>7, <1>8, <1>9 DEF ThreadStep

LEMMA InitLoads == GLInit => LoadsInv
<1> SUFFICES ASSUME GLInit PROVE LoadsInv
  OBVIOUS
<1>1. 0 \in LaneSet
  BY LoadsAssumption DEF LaneSet
<1>2. NoThread \in Loader /\ NoThread.at = "none" /\ NoThread.req = NoRequest
  BY <1>1 DEF NoThread, NoRequest, Loader, Requested, Resting
<1>3. LoadsType
  BY <1>1, <1>2 DEF GLInit, LoadsType
<1>4. GensKept /\ HandKept
  BY <1>2 DEF GLInit, GensKept, HandKept, Resting
<1>5. Running = {} /\ Alive = {}
  BY <1>2 DEF GLInit, Running, Alive
<1>6. ReadersBounded
  BY <1>5, FS_EmptySet, LoadsAssumption DEF ReadersBounded, MaxThreads
<1> QED BY <1>3, <1>4, <1>6 DEF LoadsInv

\* The loaders' bookkeeping agrees after every step of any project or thread
\* (git/diff/load_worker/runtime.rs, lifecycle.rs).
THEOREM LoadsInductive ==
    /\ GLInit => LoadsInv
    /\ LoadsInv /\ [GLNext]_glvars => LoadsInv'
<1>1. ASSUME LoadsInv, GLNext PROVE LoadsInv'
  BY <1>1, SubmitKeeps, QuietKeeps, ThreadKeeps DEF GLNext
<1>2. ASSUME LoadsInv, UNCHANGED glvars PROVE LoadsInv'
  BY <1>2 DEF glvars, LoadsInv, LoadsType, GensKept, HandKept, ReadersBounded, Running, Alive
<1> QED BY <1>1, <1>2, InitLoads

----------------------------------------------------------------------------
(* Every step is one of the project's lanes, or none. *)

LEMMA InitMaps == GLInit => Promise!LLInit
<1> SUFFICES ASSUME GLInit PROVE Promise!LLInit
  OBVIOUS
<1>1. Mine \in Projects
  BY LoadsAssumption
<1> QED BY <1>1 DEF GLInit, Promise!LLInit, Promise!Nothing, NoThread, NoRequest

\* A project's own steps, for any one of them.
StepMaps == [Promise!LLNext]_(Promise!llvars)

LEMMA StillMaps ==
    ASSUME requests'[Mine] = requests[Mine], newestOf'[Mine] = newestOf[Mine],
           thread'[Mine].req = thread[Mine].req, outbox'[Mine] = outbox[Mine],
           stopped'[Mine] = stopped[Mine]
    PROVE  StepMaps
BY DEF StepMaps, Promise!llvars

LEMMA OthersMap ==
    ASSUME LoadsInv, NEW p \in Projects, p # Mine,
           \/ \E l \in LaneSet : Submit(p, l) \/ CancelLane(p, l)
           \/ OpenLoader(p) \/ TryRecv(p) \/ RetryReady(p) \/ DropLoader(p) \/ ThreadStep(p)
    PROVE  StepMaps
<1>1. Mine \in Projects
  BY LoadsAssumption
<1>2. /\ requests'[Mine] = requests[Mine] /\ newestOf'[Mine] = newestOf[Mine]
      /\ outbox'[Mine] = outbox[Mine] /\ stopped'[Mine] = stopped[Mine]
  <2>1. CASE \E l \in LaneSet : Submit(p, l) \/ CancelLane(p, l)
    BY <1>1, <2>1 DEF Submit, CancelLane, LoadsInv, LoadsType
  <2>2. CASE OpenLoader(p) \/ TryRecv(p) \/ RetryReady(p) \/ DropLoader(p)
    BY <1>1, <2>2 DEF OpenLoader, TryRecv, RetryReady, DropLoader, LoadsInv, LoadsType
  <2>3. CASE TakeNext(p)
    BY <1>1, <2>3 DEF TakeNext, LoadsInv, LoadsType
  <2>4. CASE LeaveIdle(p) \/ Recheck(p) \/ Admit(p) \/ GiveUp(p) \/ Execute(p)
    BY <1>1, <2>4 DEF LeaveIdle, Recheck, Admit, GiveUp, Execute, LoadsInv, LoadsType
  <2> QED BY <2>1, <2>2, <2>3, <2>4 DEF ThreadStep
<1>3. thread'[Mine] = thread[Mine] \/ thread'[Mine].req = thread[Mine].req
  <2>1. CASE \E l \in LaneSet : Submit(p, l) \/ CancelLane(p, l)
    BY <1>1, <2>1, EnsureFacts DEF Submit, CancelLane
  <2>2. CASE OpenLoader(p) \/ TryRecv(p) \/ RetryReady(p) \/ DropLoader(p)
    BY <1>1, <2>2, EnsureFacts DEF OpenLoader, TryRecv, RetryReady, DropLoader
  <2>3. CASE ThreadStep(p)
    <3>1. \E r : thread' = [thread EXCEPT ![p] = r]
      BY <2>3 DEF ThreadStep, TakeNext, LeaveIdle, Recheck, Admit, GiveUp, Execute
    <3> QED BY <1>1, <3>1 DEF LoadsInv, LoadsType
  <2> QED BY <2>1, <2>2, <2>3
<1> QED BY <1>2, <1>3, StillMaps

LEMMA MineMaps ==
    ASSUME LoadsInv,
           \/ \E l \in LaneSet : Submit(Mine, l) \/ CancelLane(Mine, l)
           \/ OpenLoader(Mine) \/ TryRecv(Mine) \/ RetryReady(Mine) \/ DropLoader(Mine)
           \/ ThreadStep(Mine)
    PROVE  StepMaps
<1> DEFINE t == thread[Mine]
<1>1. /\ Mine \in Projects /\ t.req \in Requested /\ stopped[Mine] \in BOOLEAN
      /\ requests[Mine] \in [LaneSet -> Nat] /\ newestOf[Mine] \in [LaneSet -> Nat]
      /\ Mine \in DOMAIN thread /\ Mine \in DOMAIN outbox /\ Mine \in DOMAIN stopped
      /\ Mine \in DOMAIN requests /\ Mine \in DOMAIN newestOf
  BY LoadsAssumption DEF LoadsInv, LoadsType, Loader
<1>2. t.at \notin Resting => t.req # Promise!Nothing
  BY <1>1 DEF LoadsInv, HandKept, Promise!Nothing
<1>3. t.at \in Resting => t.req = Promise!Nothing
  BY <1>1 DEF LoadsInv, HandKept, Promise!Nothing, NoRequest
<1>4. ASSUME NEW l \in LaneSet, Submit(Mine, l) PROVE StepMaps
  <2>1. /\ asks'[Mine] = asks[Mine] + 1 /\ ~stopped[Mine]
        /\ newestOf'[Mine] = [newestOf[Mine] EXCEPT ![l] = asks[Mine] + 1]
        /\ requests'[Mine] = [requests[Mine] EXCEPT ![l] = asks[Mine] + 1]
        /\ outbox'[Mine] = outbox[Mine] /\ stopped'[Mine] = stopped[Mine]
    BY <1>1, <1>4 DEF Submit, Open, LoadsInv, LoadsType
  <2>2. thread'[Mine].req = t.req
    BY <1>1, <1>4, EnsureFacts DEF Submit
  <2>3. newestOf'[Mine][l] = asks[Mine] + 1 /\ newestOf'[Mine][l] > newestOf[Mine][l]
    BY <1>1, <2>1 DEF LoadsInv, LoadsType, GensKept
  <2>4. Promise!Ask(l, newestOf'[Mine][l])
    BY <2>1, <2>2, <2>3 DEF Promise!Ask
  <2> QED BY <2>4 DEF StepMaps, Promise!LLNext
<1>5. ASSUME NEW l \in LaneSet, CancelLane(Mine, l) PROVE StepMaps
  <2>1. /\ asks'[Mine] = asks[Mine] + 1 /\ thread' = thread
        /\ newestOf'[Mine] = [newestOf[Mine] EXCEPT ![l] = asks[Mine] + 1]
        /\ requests'[Mine] = [requests[Mine] EXCEPT ![l] = 0]
        /\ outbox'[Mine] = outbox[Mine] /\ stopped'[Mine] = stopped[Mine]
    BY <1>1, <1>5 DEF CancelLane, LoadsInv, LoadsType
  <2>3. newestOf'[Mine][l] = asks[Mine] + 1 /\ newestOf'[Mine][l] > newestOf[Mine][l]
    BY <1>1, <2>1 DEF LoadsInv, LoadsType, GensKept
  <2>4. Promise!Withdraw(l, newestOf'[Mine][l])
    BY <2>1, <2>3 DEF Promise!Withdraw
  <2> QED BY <2>4 DEF StepMaps, Promise!LLNext
<1>6. CASE TryRecv(Mine)
  <2>1. /\ requests' = requests /\ newestOf' = newestOf /\ stopped' = stopped
        /\ outbox'[Mine] = IF outbox[Mine] = <<>> THEN outbox[Mine] ELSE Tail(outbox[Mine])
    BY <1>1, <1>6 DEF TryRecv
  <2>2. thread'[Mine].req = t.req
    BY <1>1, <1>6, EnsureFacts DEF TryRecv
  <2>3. CASE outbox[Mine] = <<>>
    BY <2>1, <2>2, <2>3, StillMaps
  <2>4. CASE outbox[Mine] # <<>>
    <3>1. Promise!Fetch
      BY <2>1, <2>2, <2>4 DEF Promise!Fetch
    <3> QED BY <3>1 DEF StepMaps, Promise!LLNext
  <2> QED BY <2>3, <2>4
<1>7. CASE OpenLoader(Mine)
  <2>1. thread'[Mine].req = t.req
    BY <1>1, <1>7, EnsureFacts DEF OpenLoader
  <2> QED BY <1>7, <2>1, StillMaps DEF OpenLoader
<1>8. CASE RetryReady(Mine)
  BY <1>8, StillMaps DEF RetryReady
<1>9. CASE DropLoader(Mine)
  <2>1. Promise!CloseProject
    BY <1>1, <1>9 DEF DropLoader, Open, Promise!CloseProject
  <2> QED BY <2>1 DEF StepMaps, Promise!LLNext
<1>10. CASE TakeNext(Mine)
  <2> DEFINE l == TurnOf(Mine)
  <2>1. l \in LaneSet /\ requests[Mine][l] # 0
    BY <1>1, <1>10, TurnFacts DEF TakeNext, LoadsInv
  <2>2. /\ t.at = "idle" /\ thread'[Mine].req = [lane |-> l, gen |-> requests[Mine][l]]
        /\ requests'[Mine] = [requests[Mine] EXCEPT ![l] = 0]
        /\ newestOf' = newestOf /\ outbox' = outbox /\ stopped' = stopped
    BY <1>1, <1>10 DEF TakeNext
  <2> HIDE DEF l
  <2>3. Promise!TakeUp(l)
    BY <1>3, <2>1, <2>2 DEF Promise!TakeUp, Resting
  <2> QED BY <2>1, <2>3 DEF StepMaps, Promise!LLNext
<1>11. CASE LeaveIdle(Mine)
  <2>1. thread'[Mine].req = t.req
    BY <1>1, <1>11 DEF LeaveIdle, LoadsInv, LoadsType, Loader
  <2> QED BY <1>11, <2>1, StillMaps DEF LeaveIdle
<1>12. CASE Recheck(Mine)
  <2>1. /\ requests' = requests /\ newestOf' = newestOf /\ outbox' = outbox /\ stopped' = stopped
        /\ t.at = "taken"
    BY <1>12 DEF Recheck
  <2>2. CASE newestOf[Mine][t.req.lane] = t.req.gen
    <3>1. thread'[Mine].req = t.req
      BY <1>1, <1>12, <2>2 DEF Recheck, LoadsInv, LoadsType, Loader
    <3> QED BY <2>1, <3>1, StillMaps
  <2>3. CASE newestOf[Mine][t.req.lane] # t.req.gen
    <3>1. thread'[Mine].req = Promise!Nothing
      BY <1>1, <1>12, <2>3 DEF Recheck, IdleThread, NoRequest, Promise!Nothing
    <3>2. Promise!Drop
      BY <1>2, <2>1, <2>3, <3>1 DEF Promise!Drop, Resting
    <3> QED BY <3>2 DEF StepMaps, Promise!LLNext
  <2> QED BY <2>2, <2>3
<1>13. CASE Admit(Mine)
  <2>1. thread'[Mine].req = t.req
    BY <1>1, <1>13 DEF Admit, LoadsInv, LoadsType, Loader
  <2> QED BY <1>13, <2>1, StillMaps DEF Admit
<1>14. CASE GiveUp(Mine)
  <2>1. thread'[Mine].req = Promise!Nothing
    BY <1>1, <1>14 DEF GiveUp, NoRequest, Promise!Nothing
  <2>2. Promise!Drop
    BY <1>2, <1>14, <2>1 DEF GiveUp, Promise!Drop, Resting
  <2> QED BY <2>2 DEF StepMaps, Promise!LLNext
<1>15. CASE Execute(Mine)
  <2>1. thread'[Mine].req = Promise!Nothing
    BY <1>1, <1>15 DEF Execute, IdleThread, NoRequest, Promise!Nothing
  <2>2. outbox'[Mine] = IF stopped[Mine] THEN outbox[Mine] ELSE Append(outbox[Mine], t.req)
    BY <1>1, <1>15 DEF Execute
  <2>3. Promise!Reply
    BY <1>2, <1>15, <2>1, <2>2 DEF Execute, Promise!Reply, Resting
  <2> QED BY <2>3 DEF StepMaps, Promise!LLNext
<1> QED BY <1>4, <1>5, <1>6, <1>7, <1>8, <1>9, <1>10, <1>11, <1>12, <1>13, <1>14, <1>15
       DEF ThreadStep

\* A project's git loads are what LoadLanes promises, step by step, whatever
\* the other projects and their threads do, for any number of projects, lanes,
\* permits and refused starts; and never more readers than permits, nor two in
\* one repository (git/diff/load_worker/runtime.rs, lifecycle.rs).
THEOREM LoadsAreSafe == GLSpec => LoadsSafe
<1>1. LoadsInv /\ [GLNext]_glvars => StepMaps
  <2>1. ASSUME LoadsInv, UNCHANGED glvars PROVE StepMaps
    BY <2>1, StillMaps DEF glvars
  <2>2. ASSUME LoadsInv, GLNext PROVE StepMaps
    <3>1. PICK p \in Projects :
            \/ \E l \in LaneSet : Submit(p, l) \/ CancelLane(p, l)
            \/ OpenLoader(p) \/ TryRecv(p) \/ RetryReady(p) \/ DropLoader(p) \/ ThreadStep(p)
      BY <2>2 DEF GLNext
    <3>2. CASE p = Mine
      BY <2>2, <3>1, <3>2, MineMaps
    <3>3. CASE p # Mine
      BY <2>2, <3>1, <3>3, OthersMap
    <3> QED BY <3>2, <3>3
  <2> QED BY <2>1, <2>2
<1>2. LoadsInv => ReadersBounded
  BY DEF LoadsInv
<1> QED BY <1>1, <1>2, InitMaps, LoadsInductive, PTL DEF GLSpec, LoadsSafe, StepMaps, Promise!LLSafety

----------------------------------------------------------------------------
(* The snapshot worker *)

Wakes == {"unnamed", "stop", "source", "built", "rules", "index", "objects", "git"}
\* The wakes that are a reason to read whatever the worker knows.
Loud == {"unnamed", "source", "rules", "index", "git"}
Queued(e) == \E i \in 1 .. Len(wakes) : wakes[i] = e

WorkerType ==
    /\ wakes \in Seq(Wakes)
    /\ worker.changed \in BOOLEAN /\ worker.ignored \in BOOLEAN
    /\ DOMAIN worker = {"at", "awake", "watch", "changed", "age", "repo", "watching",
                        "ignored", "reading"}
    /\ DOMAIN worker.watch = {"tree", "tried", "git", "settled"}
    /\ DOMAIN tree = {"repo", "src", "index", "ignoring", "built"}
    /\ tree.ignoring \in BOOLEAN

\* A rule remembered and no longer true is about to be forgotten.
RulesRecalled ==
    worker.watch.tree /\ ~site.lossy /\ worker.at # "deliver" /\ worker.ignored /\ ~tree.ignoring
      => worker.changed \/ Queued("rules")

\* With nothing missed, the last reading is right, or there is a reason to read
\* again that the worker will not miss.
ReadOwed ==
    FullyWatched /\ ~site.lossy /\ ~site.forced /\ worker.repo
      => \/ worker.reading = Status(tree)
         \/ worker.changed
         \/ \E e \in Loud : Queued(e)
         \/ Queued("built") /\ ~tree.ignoring /\ (worker.ignored => worker.at = "deliver")

ReadsInv == WorkerType /\ RulesRecalled /\ ReadOwed

LEMMA WakesGrow ==
    ASSUME WorkerType, NEW w \in Seq(Wakes), wakes' = wakes \o w
    PROVE  /\ wakes' \in Seq(Wakes)
           /\ \A e : Queued(e) => Queued(e)'
           /\ \A i \in 1 .. Len(w) : Queued(w[i])'
<1>1. wakes \in Seq(Wakes)
  BY DEF WorkerType
<1>2. wakes' \in Seq(Wakes) /\ Len(wakes') = Len(wakes) + Len(w)
  BY <1>1
<1>3. \A i \in 1 .. Len(wakes) : wakes'[i] = wakes[i]
  BY <1>1
<1>4. \A i \in 1 .. Len(w) : wakes'[Len(wakes) + i] = w[i] /\ Len(wakes) + i \in 1 .. Len(wakes')
  BY <1>1, <1>2
<1>5. Len(wakes) \in Nat /\ Len(w) \in Nat
  BY <1>1
<1>6. ASSUME NEW e, Queued(e) PROVE Queued(e)'
  <2>1. PICK i \in 1 .. Len(wakes) : wakes[i] = e
    BY <1>6 DEF Queued
  <2>2. i \in 1 .. Len(wakes') /\ wakes'[i] = e
    BY <1>2, <1>3, <1>5, <2>1
  <2> QED BY <2>2 DEF Queued
<1>7. ASSUME NEW i \in 1 .. Len(w) PROVE Queued(w[i])'
  BY <1>4 DEF Queued
<1> QED BY <1>2, <1>6, <1>7

LEMMA WakeTaken ==
    ASSUME WorkerType, wakes # <<>>, wakes' = Tail(wakes)
    PROVE  /\ wakes' \in Seq(Wakes) /\ Head(wakes) \in Wakes
           /\ \A e : Queued(e) => e = Head(wakes) \/ Queued(e)'
<1>1. wakes \in Seq(Wakes)
  BY DEF WorkerType
<1>2. /\ wakes' \in Seq(Wakes) /\ Head(wakes) \in Wakes /\ Head(wakes) = wakes[1]
      /\ Len(wakes') = Len(wakes) - 1 /\ Len(wakes) \in Nat \ {0}
  BY <1>1
<1>3. \A i \in 1 .. Len(wakes') : wakes'[i] = wakes[i + 1]
  BY <1>1
<1>4. ASSUME NEW e, Queued(e), e # Head(wakes) PROVE Queued(e)'
  <2>1. PICK i \in 1 .. Len(wakes) : wakes[i] = e
    BY <1>4 DEF Queued
  <2>2. i # 1
    BY <1>2, <1>4, <2>1
  <2>3. i - 1 \in 1 .. Len(wakes') /\ (i - 1) + 1 = i
    BY <1>2, <2>1, <2>2
  <2> QED BY <1>3, <2>1, <2>3 DEF Queued
<1> QED BY <1>2, <1>4

\* More wakes for a worker that has not moved, in a tree that has not changed.
LEMMA CalledKeeps ==
    ASSUME ReadsInv, NEW w \in Seq(Wakes), wakes' = wakes \o w, UNCHANGED <<site, tree, worker>>
    PROVE  ReadsInv'
<1>1. wakes' \in Seq(Wakes) /\ \A e : Queued(e) => Queued(e)'
  BY WakesGrow DEF ReadsInv
<1> QED BY <1>1 DEF ReadsInv, WorkerType, RulesRecalled, ReadOwed, FullyWatched, Status

LEMMA StillKeeps ==
    ASSUME ReadsInv, UNCHANGED <<site, tree, worker, wakes>> PROVE ReadsInv'
BY DEF ReadsInv, WorkerType, RulesRecalled, ReadOwed, FullyWatched, Status, Queued

LEMMA EditQueues ==
    ASSUME ReadsInv, NEW t, NEW place, NEW event \in Wakes \ {"unnamed", "stop"},
           Edit(t, place, event)
    PROVE  /\ wakes' \in Seq(Wakes) /\ \A e : Queued(e) => Queued(e)'
           /\ Watched(place) /\ ~site.lossy => Queued(event)'
           /\ tree' = t /\ worker' = worker /\ site' = site
<1>1. PICK w \in Reported(place, event) : wakes' = wakes \o w
  BY DEF Edit
<1>2. ChangedPaths(event) = <<event>> /\ ChangedPaths("error") = <<"unnamed">>
  BY DEF ChangedPaths, Wakes
<1>3. w \in {<<>>, <<event>>, <<"unnamed">>} /\ (Watched(place) /\ ~site.lossy => w = <<event>>)
  BY <1>1, <1>2 DEF Reported
<1>4. w \in Seq(Wakes)
  <2>1. event \in Wakes /\ "unnamed" \in Wakes
    BY DEF Wakes
  <2>2. <<>> \in Seq(Wakes) /\ <<event>> \in Seq(Wakes) /\ <<"unnamed">> \in Seq(Wakes)
    BY <2>1
  <2> QED BY <1>3, <2>2
<1>5. /\ wakes' \in Seq(Wakes) /\ \A e : Queued(e) => Queued(e)'
      /\ \A i \in 1 .. Len(w) : Queued(w[i])'
  BY <1>1, <1>4, WakesGrow DEF ReadsInv
<1>6. w = <<event>> => Len(w) = 1 /\ w[1] = event
  OBVIOUS
<1>7. w = <<event>> => Queued(event)'
  BY <1>5, <1>6
<1> QED BY <1>3, <1>5, <1>7 DEF Edit

\* A change that is told of in any case.
LEMMA ToldKeeps ==
    ASSUME ReadsInv, NEW t, NEW place \in {Root, GitDir}, NEW event \in Loud \ {"unnamed"},
           Edit(t, place, event), DOMAIN t = DOMAIN tree, t.ignoring \in BOOLEAN,
           t.ignoring # tree.ignoring => event = "rules" /\ place = Root
    PROVE  ReadsInv'
<1>1. /\ wakes' \in Seq(Wakes) /\ \A e : Queued(e) => Queued(e)'
      /\ Watched(place) /\ ~site.lossy => Queued(event)'
      /\ tree' = t /\ worker' = worker /\ site' = site
  <2>1. event \in Wakes \ {"unnamed", "stop"}
    BY DEF Loud, Wakes
  <2> QED BY <2>1, EditQueues, Zenon
<1>2. FullyWatched => Watched(place)
  BY DEF FullyWatched, Watched
<1>3. worker.watch.tree /\ place = Root => Watched(place)
  BY DEF Watched, Root, GitDir
<1>4. WorkerType'
  BY <1>1 DEF ReadsInv, WorkerType
<1>5. RulesRecalled'
  BY <1>1, <1>3 DEF ReadsInv, RulesRecalled
<1>6. ReadOwed'
  BY <1>1, <1>2 DEF ReadOwed, FullyWatched
<1> QED BY <1>4, <1>5, <1>6 DEF ReadsInv

LEMMA EditsKeep == ASSUME ReadsInv, Environment PROVE ReadsInv'
<1>1. /\ DOMAIN tree = {"repo", "src", "index", "ignoring", "built"} /\ tree.ignoring \in BOOLEAN
  BY DEF ReadsInv, WorkerType
<1>2. CASE EditSource
  BY <1>1, <1>2, ToldKeeps DEF EditSource, Loud
<1>3. CASE EditRules
  <2> DEFINE t == [tree EXCEPT !.ignoring = ~tree.ignoring]
  <2>1. DOMAIN t = DOMAIN tree /\ t.ignoring \in BOOLEAN
    BY <1>1
  <2>2. Edit(t, Root, "rules") /\ Root \in {Root, GitDir} /\ "rules" \in Loud \ {"unnamed"}
    BY <1>3 DEF EditRules, Loud
  <2> HIDE DEF t
  <2> QED BY <2>1, <2>2, ToldKeeps
<1>4. CASE GitAdd
  BY <1>1, <1>4, ToldKeeps DEF GitAdd, Loud
<1>5. CASE InitOrRemove
  BY <1>1, <1>5, ToldKeeps DEF InitOrRemove, Loud
<1>6. CASE GitObjects
  <2>1. /\ wakes' \in Seq(Wakes) /\ \A e : Queued(e) => Queued(e)'
        /\ tree' = tree /\ worker' = worker /\ site' = site
    BY <1>6, EditQueues DEF GitObjects, Wakes
  <2> QED BY <2>1 DEF ReadsInv, WorkerType, RulesRecalled, ReadOwed, FullyWatched, Status
<1>7. CASE EditBuilt
  <2> DEFINE t == [tree EXCEPT !.built = @ + 1]
  <2>1. /\ wakes' \in Seq(Wakes) /\ \A e : Queued(e) => Queued(e)'
        /\ Watched(Root) /\ ~site.lossy => Queued("built")'
        /\ tree' = t /\ worker' = worker /\ site' = site
    BY <1>7, EditQueues DEF EditBuilt, Wakes
  <2>2. t.ignoring = tree.ignoring /\ DOMAIN t = DOMAIN tree /\ t.repo = tree.repo
    BY <1>1
  <2>3. tree.ignoring /\ ~site.forced => Status(tree)' = Status(tree)
    <3>1. [t EXCEPT !.built = 0] = [tree EXCEPT !.built = 0]
      BY <1>1
    <3> QED BY <2>1, <2>2, <3>1 DEF Status
  <2>4. WorkerType' /\ RulesRecalled'
    BY <2>1, <2>2 DEF ReadsInv, WorkerType, RulesRecalled
  <2>5. ReadOwed'
    <3>1. FullyWatched => Watched(Root)
      BY DEF FullyWatched, Watched, Root, GitDir
    <3>2. FullyWatched => worker.watch.tree
      BY DEF FullyWatched
    <3>3. CASE tree.ignoring
      BY <2>1, <2>2, <2>3, <3>3 DEF ReadsInv, ReadOwed, FullyWatched
    <3>4. CASE ~tree.ignoring
      <4> SUFFICES ASSUME FullyWatched, ~site.lossy, ~site.forced, worker.repo
                   PROVE  \/ worker.changed \/ \E e \in Loud : Queued(e)'
                          \/ Queued("built")' /\ (worker.ignored => worker.at = "deliver")
        BY <2>1, <2>2, <3>4 DEF ReadOwed, FullyWatched
      <4> QED BY <2>1, <3>1, <3>2, <3>4 DEF ReadsInv, RulesRecalled, Loud
    <3> QED BY <1>1, <3>3, <3>4
  <2> QED BY <2>4, <2>5 DEF ReadsInv
<1> QED BY <1>2, <1>3, <1>4, <1>5, <1>6, <1>7 DEF Environment

\* The worker takes a wake.
LEMMA TakeKeeps == ASSUME ReadsInv, TakeWake PROVE ReadsInv'
<1> DEFINE e == Head(wakes)
<1>1. /\ wakes' \in Seq(Wakes) /\ e \in Wakes
      /\ \A f : Queued(f) => f = e \/ Queued(f)'
      /\ site' = site /\ tree' = tree
  BY WakeTaken DEF ReadsInv, TakeWake
<1>2. /\ worker.at # "deliver" /\ worker.changed \in BOOLEAN /\ worker.ignored \in BOOLEAN
      /\ tree.ignoring \in BOOLEAN
      /\ DOMAIN worker = {"at", "awake", "watch", "changed", "age", "repo", "watching",
                          "ignored", "reading"}
  BY DEF TakeWake, ReadsInv, WorkerType
<1>3. /\ worker'.watch = worker.watch /\ worker'.repo = worker.repo
      /\ worker'.reading = worker.reading /\ DOMAIN worker' = DOMAIN worker
      /\ worker'.at # "deliver"
      /\ \/ e = "stop" /\ worker'.changed = worker.changed /\ worker'.ignored = worker.ignored
         \/ e = "unnamed" /\ worker'.changed = TRUE /\ worker'.ignored = worker.ignored
         \/ /\ e \in Wakes \ {"stop", "unnamed"}
            /\ worker'.changed = (worker.changed \/ Matters(e))
            /\ worker'.ignored = IF worker.changed THEN worker.ignored ELSE Remembers(e)
  <2>1. PICK age \in AgesBy \cup {worker.age} :
           worker' = [(IF e = "stop" THEN [worker EXCEPT !.at = "gone"] ELSE Absorb(e))
                        EXCEPT !.age = age]
    BY DEF TakeWake
  <2>2. CASE e = "stop"
    BY <1>2, <2>1, <2>2
  <2>3. CASE e = "unnamed"
    BY <1>2, <2>1, <2>3 DEF Absorb
  <2>4. CASE e \in Wakes \ {"stop", "unnamed"}
    BY <1>2, <2>1, <2>4 DEF Absorb
  <2> QED BY <1>1, <2>2, <2>3, <2>4
<1>4. /\ Matters(e) \in BOOLEAN /\ Remembers(e) \in BOOLEAN
  BY <1>1, <1>2 DEF Matters, GitMetadataMatters, Remembers, KnownIgnored, Wakes
<1>5. /\ e \in Loud \ {"unnamed"} => Matters(e)
      /\ e = "built" /\ worker.repo => (Matters(e) <=> ~worker.ignored /\ ~tree.ignoring)
  BY <1>2 DEF Loud, Matters, GitMetadataMatters, KnownIgnored
<1>6. Remembers(e) <=> (worker.ignored /\ e # "rules") \/ (e = "built" /\ worker.repo /\ tree.ignoring)
  BY DEF Remembers, KnownIgnored
<1> HIDE DEF e
<1>7. WorkerType'
  BY <1>1, <1>2, <1>3, <1>4 DEF ReadsInv, WorkerType
<1>8. RulesRecalled'
  BY <1>1, <1>2, <1>3, <1>4, <1>5, <1>6 DEF ReadsInv, RulesRecalled, Loud
<1>9. ReadOwed'
  <2> SUFFICES ASSUME FullyWatched, ~site.lossy, ~site.forced, worker.repo
               PROVE  \/ worker.reading = Status(tree) \/ worker'.changed
                      \/ \E f \in Loud : Queued(f)'
                      \/ Queued("built")' /\ ~tree.ignoring /\ ~worker'.ignored
    BY <1>1, <1>3 DEF ReadOwed, FullyWatched, Status
  <2>1. \/ worker.reading = Status(tree) \/ worker.changed
        \/ \E f \in Loud : Queued(f)
        \/ Queued("built") /\ ~tree.ignoring /\ ~worker.ignored
    BY <1>2 DEF ReadsInv, ReadOwed
  <2>2. CASE worker.changed
    BY <1>3, <2>2
  <2>3. CASE ~worker.changed /\ \E f \in Loud : Queued(f)
    BY <1>1, <1>3, <1>5, <2>3 DEF Loud
  <2>4. CASE ~worker.changed /\ Queued("built") /\ ~tree.ignoring /\ ~worker.ignored
    BY <1>1, <1>3, <1>5, <1>6, <2>4
  <2> QED BY <2>1, <2>2, <2>3, <2>4
<1> QED BY <1>7, <1>8, <1>9 DEF ReadsInv

LEMMA WorkKeeps == ASSUME ReadsInv, WorkerStep PROVE ReadsInv'
<1>1. /\ wakes \in Seq(Wakes) /\ worker.changed \in BOOLEAN /\ worker.ignored \in BOOLEAN
      /\ tree.ignoring \in BOOLEAN
      /\ DOMAIN worker = {"at", "awake", "watch", "changed", "age", "repo", "watching",
                          "ignored", "reading"}
      /\ DOMAIN worker.watch = {"tree", "tried", "git", "settled"}
  BY DEF ReadsInv, WorkerType
<1>2. CASE TakeWake
  BY <1>2, TakeKeeps
<1>3. CASE LookAtFlag
  <2> DEFINE starts == awake /\ ~worker.watch.tried
             ends == ~awake /\ worker.watch.tried
  <2>1. /\ UNCHANGED <<site, tree, wakes>> /\ worker.at = "top"
        /\ DOMAIN worker' = DOMAIN worker /\ worker'.at # "deliver"
        /\ worker'.reading = worker.reading /\ worker'.ignored = worker.ignored
        /\ worker'.changed = (worker.changed \/ starts)
        /\ worker'.repo = (worker.repo /\ ~ends)
        /\ worker'.watch = IF starts THEN [NoWatch EXCEPT !.tree = Install(Root), !.tried = TRUE]
                           ELSE IF ends THEN NoWatch ELSE worker.watch
    BY <1>1, <1>3 DEF LookAtFlag
  <2>2. DOMAIN NoWatch = {"tree", "tried", "git", "settled"} /\ ~NoWatch.tree
    BY DEF NoWatch
  <2>3. DOMAIN worker'.watch = {"tree", "tried", "git", "settled"}
    BY <1>1, <2>1, <2>2
  <2>4. CASE starts
    BY <1>1, <2>1, <2>3, <2>4 DEF ReadsInv, WorkerType, RulesRecalled, ReadOwed
  <2>5. CASE ends
    BY <1>1, <2>1, <2>2, <2>3, <2>5 DEF ReadsInv, WorkerType, RulesRecalled, ReadOwed, FullyWatched
  <2>6. CASE ~starts /\ ~ends
    <3>1. worker'.watch = worker.watch /\ worker'.changed = worker.changed
          /\ (worker'.repo <=> worker.repo) /\ \A e : Queued(e) <=> Queued(e)'
      BY <1>1, <2>1, <2>6 DEF Queued
    <3> QED BY <1>1, <2>1, <2>3, <3>1
            DEF ReadsInv, WorkerType, RulesRecalled, ReadOwed, FullyWatched, Status
  <2> QED BY <2>4, <2>5, <2>6
<1>4. CASE ReadOnce
  <2>1. /\ site' = site /\ tree' = tree /\ wakes' = wakes \o <<>> /\ wakes' \in Seq(Wakes)
        /\ worker'.at = "deliver" /\ worker'.reading = Status(tree) /\ worker'.changed = FALSE
        /\ worker'.ignored = worker.ignored /\ worker'.watch = worker.watch
        /\ DOMAIN worker' = DOMAIN worker
    BY <1>1, <1>4 DEF ReadOnce, ChangedPaths
  <2> QED BY <1>1, <2>1 DEF ReadsInv, WorkerType, RulesRecalled, ReadOwed, Status
<1>5. CASE Deliver
  <2>1. /\ UNCHANGED <<site, tree, wakes>> /\ worker'.ignored = FALSE
        /\ worker'.changed = worker.changed /\ worker'.reading = worker.reading
        /\ worker'.repo = worker.repo /\ worker'.watch = worker.watch
        /\ DOMAIN worker' = DOMAIN worker
    BY <1>1, <1>5 DEF Deliver
  <2>2. \A e : Queued(e) <=> Queued(e)'
    BY <2>1 DEF Queued
  <2> QED BY <1>1, <2>1, <2>2 DEF ReadsInv, WorkerType, RulesRecalled, ReadOwed, FullyWatched, Status
<1>6. CASE FollowGitDir
  <2>1. /\ UNCHANGED <<site, tree, wakes>> /\ worker.at = "follow" /\ worker'.at = "wait"
        /\ worker'.ignored = worker.ignored /\ worker'.reading = worker.reading
        /\ worker'.repo = worker.repo /\ DOMAIN worker' = DOMAIN worker
        /\ DOMAIN worker'.watch = DOMAIN worker.watch
        /\ worker'.watch.tree = worker.watch.tree
        /\ \/ worker'.changed = worker.changed /\ worker'.watch.git = worker.watch.git
           \/ /\ worker'.watch.git = (site.external /\ Install(GitDir))
              /\ worker'.changed = (worker.changed \/ (site.external /\ Install(GitDir)))
    BY <1>1, <1>6 DEF FollowGitDir
  <2>2. /\ FullyWatched' => FullyWatched \/ worker'.changed
        /\ worker.changed => worker'.changed /\ worker'.changed \in BOOLEAN
    BY <1>1, <2>1 DEF FullyWatched
  <2>3. \A e : Queued(e) <=> Queued(e)'
    BY <2>1 DEF Queued
  <2>4. worker'.changed \in BOOLEAN
    BY <1>1, <2>1
  <2>5. WorkerType'
    BY <1>1, <2>1, <2>4 DEF ReadsInv, WorkerType
  <2>6. RulesRecalled'
    BY <2>1, <2>2, <2>3 DEF ReadsInv, RulesRecalled
  <2>7. ReadOwed'
    BY <2>1, <2>2, <2>3 DEF ReadsInv, ReadOwed, Status
  <2> QED BY <2>5, <2>6, <2>7 DEF ReadsInv
<1>7. CASE BacklogTaken
  <2>1. /\ UNCHANGED <<site, tree, wakes>> /\ worker.at = "drain" /\ worker'.at = "top"
        /\ worker'.ignored = worker.ignored /\ worker'.reading = worker.reading
        /\ worker'.changed = worker.changed /\ worker'.repo = worker.repo
        /\ worker'.watch = worker.watch /\ DOMAIN worker' = DOMAIN worker
    BY <1>1, <1>7 DEF BacklogTaken
  <2>2. \A e : Queued(e) <=> Queued(e)'
    BY <2>1 DEF Queued
  <2> QED BY <1>1, <2>1, <2>2 DEF ReadsInv, WorkerType, RulesRecalled, ReadOwed, FullyWatched, Status
<1>8. CASE WaitEnds
  <2>1. /\ UNCHANGED <<site, tree, wakes>>
        /\ worker'.ignored = worker.ignored /\ worker'.changed = TRUE
        /\ worker'.watch = worker.watch /\ DOMAIN worker' = DOMAIN worker
    BY <1>1, <1>8 DEF WaitEnds
  <2> QED BY <1>1, <2>1 DEF ReadsInv, WorkerType, RulesRecalled, ReadOwed
<1> QED BY <1>2, <1>3, <1>4, <1>5, <1>6, <1>7, <1>8 DEF WorkerStep

LEMMA RuntimeKeeps ==
    ASSUME ReadsInv,
           \/ PumpStep \/ StopRuntime
           \/ \E c \in Clients : Subscribe(c) \/ ClientStep(c) \/ RefreshNow(c) \/ Unsubscribe(c)
    PROVE  ReadsInv'
<1>1. /\ UNCHANGED <<site, tree, worker>>
      /\ \/ wakes' = wakes \/ wakes' = Append(wakes, "stop") \/ wakes' = Append(wakes, "unnamed")
  BY DEF PumpStep, PumpTakes, PumpPublishes, PumpEnds, StopRuntime, Subscribe, ClientStep, ReadNow,
         PublishNow, ReadSeed, FillSlot, NextUpdate, RefreshNow, Unsubscribe, SetAwake
<1>2. wakes \in Seq(Wakes)
  BY DEF ReadsInv, WorkerType
<1>3. ASSUME NEW e \in {"stop", "unnamed"}, wakes' = Append(wakes, e) PROVE ReadsInv'
  <2>1. <<e>> \in Seq(Wakes) /\ wakes' = wakes \o <<e>>
    BY <1>2, <1>3 DEF Wakes
  <2> QED BY <1>1, <2>1, CalledKeeps
<1> QED BY <1>1, <1>3, StillKeeps

\* The worker's reason to read is never lost (runtime/snapshot/worker.rs,
\* filter.rs IgnoredDirs).
THEOREM ReadsInductive ==
    /\ RSInit => ReadsInv
    /\ ReadsInv /\ [RSNext]_rsvars => ReadsInv'
<1>1. RSInit => ReadsInv
  BY DEF RSInit, ReadsInv, WorkerType, RulesRecalled, ReadOwed, FullyWatched, NoWatch, EmptyTree
<1>2. ASSUME ReadsInv, RSNext PROVE ReadsInv'
  BY <1>2, EditsKeep, WorkKeeps, RuntimeKeeps DEF RSNext
<1>3. ASSUME ReadsInv, UNCHANGED rsvars PROVE ReadsInv'
  BY <1>3, StillKeeps DEF rsvars
<1> QED BY <1>1, <1>2, <1>3

\* With both watches up and no event missed, a worker that sleeps without owing
\* a read has read the tree as it is, for any site, any number of clients and
\* any edits (worker.rs follow_git_dir, filter.rs IgnoredDirs).
THEOREM NothingIsUnread == RSSpec => []NothingUnread
<1>1. ReadsInv => NothingUnread
  <2>1. wakes = <<>> => \A e : ~Queued(e)
    BY DEF Queued
  <2> QED BY <2>1 DEF ReadsInv, ReadOwed, NothingUnread
<1> QED BY <1>1, ReadsInductive, PTL DEF RSSpec

----------------------------------------------------------------------------
(* The frame loop: its inductive invariant *)

Clock == 0 .. MaxClock
OnOff == {"on", "off"}
Phases == {"none", "on", "off"}
Inputs == {"none", "idle", "resize", "redraw", "pane", "search", "mode", "other"}

Project == [pane : {1, 2}, out : [1 .. 2 -> Nat], titles : Nat, ids : Nat, unread : BOOLEAN,
            search : BOOLEAN, mode : {"status", "log"}, loads : Nat, ver : Nat,
            held : SUBSET Held, files : SUBSET Clock, files2 : SUBSET Clock,
            cache : [at : Nat, deadline : Nat]]
Redraw == [dirty : BOOLEAN, screen : Sizes, attn : [Tabs -> BOOLEAN], attnKnown : BOOLEAN,
           phase : Phases, hotSeen : BOOLEAN, hot : Nat, caret : Phases]
Geometry == [screen : Sizes, stale : BOOLEAN, key : {<< >>} \cup (Sizes \X {1, 2}), ids : Nat]
Stages == [front : Tabs, app : [Tabs -> Project], red : Redraw, geo : Geometry]
Mail == [session : Tabs \cup {0}, term : [Tabs -> {<< >>} \cup {<<e>> : e \in TermEvents}],
         input : Inputs, loads : [Tabs -> Nat],
         held : [Tabs -> [what : SUBSET Held, files : SUBSET Clock]]]

FrameType ==
    /\ clk \in [now : Clock, bright : OnOff, lit : OnOff]
    /\ front \in Tabs /\ app \in [Tabs -> Project] /\ red \in Redraw /\ geo \in Geometry
    /\ inbox \in Mail
    /\ real \in Sizes /\ turn \in BOOLEAN

\* A file's stage and its next change, at a time that is not the present.
AgeAt(m, t) == IF t > m THEN t - m ELSE 0
StageAt(m, t) == CASE AgeAt(m, t) >= HotWindow -> "cool"
                   [] AgeAt(m, t) < HotWindow /\ AgeAt(m, t) < FreshFor -> "fresh"
                   [] OTHER -> "warm"
TransitionAt(m, t) ==
    CASE AgeAt(m, t) < HotWindow /\ AgeAt(m, t) < FreshFor -> m + Lesser(FreshFor, HotWindow)
      [] AgeAt(m, t) < HotWindow /\ AgeAt(m, t) >= FreshFor -> m + HotWindow
      [] OTHER -> Never
DeadlineAt(files, t) == Earliest({TransitionAt(m, t) : m \in files})
StagesAt(files, t) == {<<m, StageAt(m, t)>> : m \in files}

\* A project that is not in front keeps its memo for when it comes back.
MemoKept(a) ==
    \/ a.cache.at = Never
    \/ a.cache.at \in Clock /\ a.cache.deadline = DeadlineAt(a.files, a.cache.at)
MemosKept == \A p \in Tabs : MemoKept(app[p])

\* What a frame takes from a project in front, the clocks left out.
Looks(a) == <<a.out[a.pane], a.pane, a.titles, a.ids, a.ver, a.loads, a.mode, a.search,
              a.files, a.cache>>

\* The frame of the last turn, which ended at t: redraw.rs remembers the
\* phases it was drawn in, and the deadline of the stages it shows.
Frame(s, r, t) ==
    LET a == s.app[s.front] IN
    [tab |-> s.front, out |-> a.out[a.pane], pane |-> a.pane, titles |-> a.titles, ids |-> a.ids,
     ver |-> a.ver, loads |-> a.loads, mode |-> a.mode, search |-> a.search,
     attn |-> r.attn, blink |-> r.phase, caret |-> r.caret,
     hot |-> IF a.mode = "status" THEN StagesAt(a.files, t) ELSE {}]
Deadline(a, r, t) ==
    a.mode = "status" => a.cache.at \in Clock /\ a.cache.at <= t /\ t < r.hot /\ r.hot = a.cache.deadline
DrawnAt(t) ==
    /\ drawn = Frame([front |-> front, app |-> app], red, t)
    /\ Deadline(app[front], red, t)
FrameKept ==
    \/ red.dirty /\ ~turn
    \/ /\ ~red.dirty /\ red.attnKnown /\ red.hotSeen
       /\ red.attn = [p \in Tabs |-> app[p].unread]
       /\ \E t \in Clock : DrawnAt(t) /\ (turn => t = clk.now)
       /\ turn => /\ red.phase = IF \E p \in Tabs : app[p].unread THEN clk.bright ELSE "none"
                  /\ red.caret = IF app[front].search THEN clk.lit ELSE "none"

\* The size is known, or it will be measured in the next turn.
SizeKnown == geo.screen \in {0, real} \/ geo.stale \/ inbox.input = "resize"
LaidOut ==
    turn => /\ real # 0 => geo.screen = real
            /\ geo.key = LayoutKey(geo, app[front]) /\ geo.ids = app[front].ids

FrameInv == FrameType /\ MemosKept /\ FrameKept /\ SizeKnown /\ LaidOut

----------------------------------------------------------------------------
(* Stages and deadlines *)

\* Earliest is the first of some deadlines, and Never when there is none.
LEMMA EarliestFacts ==
    ASSUME NEW S, S \subseteq Nat
    PROVE  Earliest(S) \in S \cup {Never} /\ Earliest(S) \in Nat /\ \A u \in S : Earliest(S) <= u
<1>1. S \cup {Never} \subseteq Nat /\ S \cup {Never} # {}
  BY DEF Never
<1>2. \E t \in S \cup {Never} : \A u \in S \cup {Never} : t =< u
  BY <1>1, LeastOf
<1>3. \E t \in S \cup {Never} : \A u \in S : t <= u
  BY <1>2
<1>4. Earliest(S) \in S \cup {Never} /\ \A u \in S : Earliest(S) <= u
  BY <1>3, Zenon DEF Earliest
<1> QED BY <1>1, <1>4

\* A file's next change lies ahead, and until then its stage is the same.
LEMMA TransitionFacts ==
    ASSUME NEW m \in Clock, NEW t \in Clock
    PROVE  /\ TransitionAt(m, t) \in Nat /\ t < TransitionAt(m, t)
           /\ \A u \in Clock : t <= u /\ u < TransitionAt(m, t) => StageAt(m, u) = StageAt(m, t)
<1> USE FrameAssumption DEF Clock, Never
<1>1. CASE AgeAt(m, t) < HotWindow /\ AgeAt(m, t) < FreshFor
  <2>1. TransitionAt(m, t) = m + Lesser(FreshFor, HotWindow) /\ StageAt(m, t) = "fresh"
    BY <1>1 DEF TransitionAt, StageAt, AgeAt
  <2>2. \A u \in Clock : u < m + Lesser(FreshFor, HotWindow) => AgeAt(m, u) < HotWindow /\ AgeAt(m, u) < FreshFor
    BY <1>1 DEF Lesser, AgeAt
  <2>3. \A u \in Clock : u < m + Lesser(FreshFor, HotWindow) => StageAt(m, u) = "fresh"
    BY <2>2 DEF StageAt, AgeAt
  <2> QED BY <1>1, <2>1, <2>3 DEF Lesser, AgeAt
<1>2. CASE AgeAt(m, t) < HotWindow /\ AgeAt(m, t) >= FreshFor
  <2>1. TransitionAt(m, t) = m + HotWindow /\ StageAt(m, t) = "warm"
    BY <1>2 DEF TransitionAt, StageAt, AgeAt
  <2>2. \A u \in Clock : t <= u /\ u < m + HotWindow => AgeAt(m, u) < HotWindow /\ AgeAt(m, u) >= FreshFor
    BY <1>2 DEF AgeAt
  <2>3. \A u \in Clock : t <= u /\ u < m + HotWindow => StageAt(m, u) = "warm"
    BY <2>2 DEF StageAt, AgeAt
  <2> QED BY <1>2, <2>1, <2>3 DEF AgeAt
<1>3. CASE AgeAt(m, t) >= HotWindow
  <2>1. TransitionAt(m, t) = Never /\ StageAt(m, t) = "cool"
    BY <1>3 DEF TransitionAt, StageAt, AgeAt
  <2>2. \A u \in Clock : t <= u => AgeAt(m, u) >= HotWindow
    BY <1>3 DEF AgeAt
  <2>3. \A u \in Clock : t <= u => StageAt(m, u) = "cool"
    BY <2>2 DEF StageAt, AgeAt
  <2> QED BY <2>1, <2>3
<1> QED BY <1>1, <1>2, <1>3 DEF AgeAt

LEMMA DeadlineFacts ==
    ASSUME NEW F, F \subseteq Clock, NEW t \in Clock
    PROVE  /\ DeadlineAt(F, t) \in Nat /\ t < DeadlineAt(F, t)
           /\ \A u \in Clock : t <= u /\ u < DeadlineAt(F, t) => StagesAt(F, u) = StagesAt(F, t)
<1> DEFINE S == {TransitionAt(m, t) : m \in F}
<1>1. S \subseteq Nat /\ \A u \in S : t < u
  BY TransitionFacts
<1>2. t < Never /\ t \in Nat
  BY FrameAssumption DEF Clock, Never
<1>3. /\ Earliest(S) \in S \cup {Never} /\ Earliest(S) \in Nat
      /\ \A m \in F : Earliest(S) <= TransitionAt(m, t)
  <2> HIDE DEF S
  <2>1. Earliest(S) \in S \cup {Never} /\ Earliest(S) \in Nat /\ \A u \in S : Earliest(S) <= u
    BY <1>1, EarliestFacts
  <2>2. \A m \in F : TransitionAt(m, t) \in S
    BY DEF S
  <2> QED BY <2>1, <2>2
<1>4. DeadlineAt(F, t) = Earliest(S)
  BY DEF DeadlineAt
<1> HIDE DEF S
<1>5. ASSUME NEW u \in Clock, t <= u, u < Earliest(S)
      PROVE  StagesAt(F, u) = StagesAt(F, t)
  <2>1. \A m \in F : StageAt(m, u) = StageAt(m, t)
    <3> SUFFICES ASSUME NEW m \in F PROVE StageAt(m, u) = StageAt(m, t)
      OBVIOUS
    <3>1. m \in Clock /\ TransitionAt(m, t) \in Nat
      BY TransitionFacts
    <3>2. u < TransitionAt(m, t)
      BY <1>3, <1>5, <3>1 DEF Clock
    <3> QED BY <1>5, <3>1, <3>2, TransitionFacts
  <2> QED BY <2>1 DEF StagesAt
<1> QED BY <1>1, <1>2, <1>3, <1>4, <1>5

----------------------------------------------------------------------------
(* The memo of the deadline *)

LEMMA NowFacts ==
    ASSUME NEW m
    PROVE  Stage(m) = StageAt(m, clk.now) /\ Transition(m) = TransitionAt(m, clk.now)
BY DEF Stage, StageAt, Transition, TransitionAt, Age, AgeAt

\* The deadline in use was computed at a time not after now, and lies ahead.
LEMMA HotCacheFacts ==
    ASSUME FrameType, NEW a \in Project, MemoKept(a)
    PROVE  /\ HotCache(a) \in [at : Nat, deadline : Nat]
           /\ HotCache(a).at \in Clock /\ HotCache(a).at <= clk.now /\ clk.now < HotCache(a).deadline
           /\ HotCache(a).deadline = DeadlineAt(a.files, HotCache(a).at)
           /\ HotCache(a) = a.cache \/ HotCache(a).at = clk.now
<1>1. clk.now \in Clock /\ a.files \subseteq Clock /\ a.cache \in [at : Nat, deadline : Nat]
  BY DEF FrameType, Project
<1>2. clk.now < Never /\ clk.now \in Nat /\ Clock \subseteq Nat
  BY <1>1, FrameAssumption DEF Clock, Never
<1>3. CASE clk.now >= a.cache.at /\ clk.now < a.cache.deadline
  <2>1. HotCache(a) = a.cache
    BY <1>3 DEF HotCache
  <2>2. a.cache.at \in Clock /\ a.cache.deadline = DeadlineAt(a.files, a.cache.at)
    BY <1>1, <1>2, <1>3 DEF MemoKept, Never
  <2> QED BY <1>1, <1>2, <1>3, <2>1, <2>2
<1>4. CASE ~(clk.now >= a.cache.at /\ clk.now < a.cache.deadline)
  <2>1. {Transition(m) : m \in a.files} = {TransitionAt(m, clk.now) : m \in a.files}
    BY NowFacts
  <2>2. HotCache(a) = [at |-> clk.now, deadline |-> DeadlineAt(a.files, clk.now)]
    BY <1>4, <2>1, Zenon DEF HotCache, DeadlineAt
  <2>3. DeadlineAt(a.files, clk.now) \in Nat /\ clk.now < DeadlineAt(a.files, clk.now)
    BY <1>1, DeadlineFacts
  <2> QED BY <1>1, <1>2, <2>2, <2>3
<1> QED BY <1>3, <1>4

\* Neither a deadline passed nor an earlier one back: the stages that were
\* shown at t are those of now, also when the clock was set back before the
\* deadline was computed.
LEMMA StagesStay ==
    ASSUME FrameType, NEW a \in Project, MemoKept(a), NEW t \in Clock,
           a.cache.at \in Clock, a.cache.at <= t, t < a.cache.deadline,
           clk.now < a.cache.deadline, ~(HotCache(a).deadline < a.cache.deadline)
    PROVE  StagesAt(a.files, t) = StagesAt(a.files, clk.now)
<1>1. clk.now \in Clock /\ a.files \subseteq Clock /\ a.cache \in [at : Nat, deadline : Nat]
  BY DEF FrameType, Project
<1>2. Clock \subseteq Nat
  BY DEF Clock
<1>3. a.cache.deadline = DeadlineAt(a.files, a.cache.at)
  BY FrameAssumption DEF MemoKept, Clock, Never
<1>4. CASE a.cache.at <= clk.now
  BY <1>1, <1>3, <1>4, DeadlineFacts
<1>5. CASE clk.now < a.cache.at
  <2>1. /\ clk.now \in Nat /\ t \in Nat /\ a.cache.at \in Nat /\ a.cache.deadline \in Nat
        /\ HotCache(a).deadline \in Nat
    BY <1>1, <1>2, HotCacheFacts
  <2>2. HotCache(a).at # a.cache.at
    BY <1>5, <2>1, HotCacheFacts
  <2>3. HotCache(a).at = clk.now
    BY <2>2, HotCacheFacts
  <2>4. HotCache(a).deadline = DeadlineAt(a.files, clk.now)
    BY <2>3, HotCacheFacts
  <2>5. clk.now <= t /\ t < HotCache(a).deadline
    BY <1>5, <2>1
  <2> QED BY <1>1, <2>4, <2>5, DeadlineFacts
<1>6. clk.now \in Nat /\ a.cache.at \in Nat
  BY <1>1, <1>2
<1>7. a.cache.at <= clk.now \/ clk.now < a.cache.at
  BY <1>6
<1> QED BY <1>4, <1>5, <1>7, Zenon

----------------------------------------------------------------------------
(* What each part of a turn does to one project *)

LEMMA SeenFacts ==
    ASSUME NEW a \in Project
    PROVE  Seen(a) \in Project /\ Looks(Seen(a)) = Looks(a) /\ (MemoKept(a) => MemoKept(Seen(a)))
BY DEF Seen, Project, Looks, MemoKept

LEMMA TermEventFacts ==
    ASSUME NEW a \in Project, NEW e \in TermEvents
    PROVE  /\ TermEvent(a, e) \in Project
           /\ MemoKept(a) => MemoKept(TermEvent(a, e))
           /\ ~FrameChanged(a, e) => Looks(TermEvent(a, e)) = Looks(a)
<1>1. e.kind \in {"output", "title", "attention", "replaced"} /\ e.pane \in {1, 2}
  BY DEF TermEvents
<1>2. CASE e.kind = "output"
  <2>1. TermEvent(a, e) = [a EXCEPT !.out[e.pane] = @ + 1] /\ (FrameChanged(a, e) <=> e.pane = a.pane)
    BY <1>2 DEF TermEvent, FrameChanged
  <2>2. [a EXCEPT !.out[e.pane] = @ + 1] \in Project
    BY <1>1 DEF Project
  <2> QED BY <1>1, <2>1, <2>2 DEF Looks, MemoKept, Project
<1>3. CASE e.kind = "title"
  BY <1>3 DEF TermEvent, FrameChanged, Looks, MemoKept, Project
<1>4. CASE e.kind = "attention"
  BY <1>4 DEF TermEvent, FrameChanged, Looks, MemoKept, Project
<1>5. CASE e.kind = "replaced"
  <2>1. TermEvent(a, e) = [a EXCEPT !.ids = @ + 1, !.unread = TRUE] /\ FrameChanged(a, e)
    BY <1>5 DEF TermEvent, FrameChanged
  <2>2. TermEvent(a, e) \in Project
    <3>1. a.ids + 1 \in Nat
      BY DEF Project
    <3> DEFINE b == [a EXCEPT !.ids = @ + 1]
    <3>2. b \in Project
      BY <3>1 DEF Project
    <3>3. TermEvent(a, e) = [b EXCEPT !.unread = TRUE]
      BY <2>1 DEF Project
    <3> HIDE DEF b
    <3> QED BY <3>2, <3>3 DEF Project
  <2>3. TermEvent(a, e).files = a.files /\ TermEvent(a, e).cache = a.cache
    BY <2>1 DEF Project
  <2> QED BY <2>1, <2>2, <2>3 DEF MemoKept
<1> QED BY <1>1, <1>2, <1>3, <1>4, <1>5

LEMMA KeyEffectFacts ==
    ASSUME NEW a \in Project, NEW k
    PROVE  KeyEffect(a, k) \in Project /\ (MemoKept(a) => MemoKept(KeyEffect(a, k)))
<1>1. CASE k = "pane"
  <2>1. KeyEffect(a, k) = [a EXCEPT !.pane = 3 - @]
    BY <1>1 DEF KeyEffect
  <2>2. 3 - a.pane \in {1, 2}
    BY DEF Project
  <2> QED BY <2>1, <2>2 DEF MemoKept, Project
<1>2. CASE k = "search"
  <2>1. KeyEffect(a, k) = [a EXCEPT !.search = ~@]
    BY <1>2 DEF KeyEffect
  <2> QED BY <2>1 DEF MemoKept, Project
<1>3. CASE k = "mode"
  <2>1. KeyEffect(a, k) = [a EXCEPT !.mode = IF @ = "status" THEN "log" ELSE "status"]
    BY <1>3 DEF KeyEffect
  <2> QED BY <2>1 DEF MemoKept, Project
<1>4. CASE k \notin {"pane", "search", "mode"}
  <2>1. KeyEffect(a, k) = a
    BY <1>4 DEF KeyEffect
  <2> QED BY <2>1
<1> QED BY <1>1, <1>2, <1>3, <1>4

Got(a, n, h) == [a EXCEPT !.loads = @ + n, !.held = @ \cup h.what,
                          !.files2 = IF "snapshot" \in h.what THEN h.files ELSE @]

LEMMA GotFacts ==
    ASSUME NEW a \in Project, NEW n \in Nat, NEW h \in [what : SUBSET Held, files : SUBSET Clock]
    PROVE  /\ Got(a, n, h) \in Project
           /\ MemoKept(a) => MemoKept(Got(a, n, h))
           /\ ~(n > 0) => Looks(Got(a, n, h)) = Looks(a)
<1>1. Got(a, n, h) \in Project
  <2> DEFINE x == a.loads + n
             y == a.held \cup h.what
             z == IF "snapshot" \in h.what THEN h.files ELSE a.files2
             b == [a EXCEPT !.loads = x]
             c == [b EXCEPT !.held = y]
  <2>1. x \in Nat /\ y \in SUBSET Held /\ z \in SUBSET Clock
    BY DEF Project
  <2>2. Got(a, n, h) = [c EXCEPT !.files2 = z]
    BY DEF Got, Project
  <2> HIDE DEF x, y, z
  <2>3. b \in Project
    BY <2>1 DEF Project
  <2> HIDE DEF b
  <2>4. c \in Project
    BY <2>1, <2>3 DEF Project
  <2> HIDE DEF c
  <2> QED BY <2>1, <2>2, <2>4 DEF Project
<1>2. /\ Got(a, n, h).files = a.files /\ Got(a, n, h).cache = a.cache
      /\ Got(a, n, h).out = a.out /\ Got(a, n, h).pane = a.pane /\ Got(a, n, h).titles = a.titles
      /\ Got(a, n, h).ids = a.ids /\ Got(a, n, h).ver = a.ver /\ Got(a, n, h).mode = a.mode
      /\ Got(a, n, h).search = a.search
  BY DEF Got, Project
<1>3. ~(n > 0) => Got(a, n, h).loads = a.loads
  BY DEF Got, Project
<1> QED BY <1>1, <1>2, <1>3 DEF Looks, MemoKept

LEMMA ApplyHeldFacts ==
    ASSUME NEW a \in Project
    PROVE  /\ ApplyHeld(a) \in Project
           /\ MemoKept(a) => MemoKept(ApplyHeld(a))
           /\ a.held = {} => Looks(ApplyHeld(a)) = Looks(a)
<1>1. IsFiniteSet(a.held)
  <2>1. IsFiniteSet({"snapshot", "page", "tree"})
    <3>1. IsFiniteSet({"tree"}) /\ IsFiniteSet({"page"}) /\ IsFiniteSet({"snapshot"})
      BY FS_Singleton
    <3>2. IsFiniteSet({"page"} \cup {"tree"})
      BY <3>1, FS_Union
    <3>3. IsFiniteSet({"snapshot"} \cup ({"page"} \cup {"tree"}))
      BY <3>1, <3>2, FS_Union
    <3>4. {"snapshot"} \cup ({"page"} \cup {"tree"}) = {"snapshot", "page", "tree"}
      OBVIOUS
    <3> QED BY <3>3, <3>4
  <2> QED BY <2>1, FS_Subset DEF Project, Held
<1>2. Cardinality(a.held) \in Nat
  BY <1>1, FS_CardinalityType
<1>3. a.held = {} => Cardinality(a.held) = 0
  BY FS_EmptySet
<1>4. NoCache \in [at : Nat, deadline : Nat] /\ NoCache.at = Never
  BY DEF NoCache, Never
<1>5. ApplyHeld(a) \in Project
  <2> DEFINE v == a.ver + Cardinality(a.held)
             f == IF "snapshot" \in a.held THEN a.files2 ELSE a.files
             k == IF "snapshot" \in a.held THEN NoCache ELSE a.cache
             b == [a EXCEPT !.held = {}]
             c == [b EXCEPT !.ver = v]
             d == [c EXCEPT !.files = f]
  <2>1. v \in Nat /\ f \in SUBSET Clock /\ k \in [at : Nat, deadline : Nat]
    BY <1>2, <1>4 DEF Project
  <2>2. ApplyHeld(a) = [d EXCEPT !.cache = k]
    BY DEF ApplyHeld, Project
  <2> HIDE DEF v, f, k
  <2>3. b \in Project
    BY DEF Project
  <2> HIDE DEF b
  <2>4. c \in Project
    BY <2>1, <2>3 DEF Project
  <2> HIDE DEF c
  <2>5. d \in Project
    BY <2>1, <2>4 DEF Project
  <2> HIDE DEF d
  <2> QED BY <2>1, <2>2, <2>5 DEF Project
<1>6. /\ ApplyHeld(a).out = a.out /\ ApplyHeld(a).pane = a.pane /\ ApplyHeld(a).titles = a.titles
      /\ ApplyHeld(a).ids = a.ids /\ ApplyHeld(a).loads = a.loads /\ ApplyHeld(a).mode = a.mode
      /\ ApplyHeld(a).search = a.search
  BY DEF ApplyHeld, Project
<1>7. CASE "snapshot" \in a.held
  <2>1. ApplyHeld(a).cache = NoCache
    BY <1>7 DEF ApplyHeld, Project
  <2> QED BY <1>4, <1>5, <1>7, <2>1 DEF MemoKept
<1>8. CASE "snapshot" \notin a.held
  <2>1. ApplyHeld(a).cache = a.cache /\ ApplyHeld(a).files = a.files
    BY <1>8 DEF ApplyHeld, Project
  <2>2. a.held = {} => ApplyHeld(a).ver = a.ver
    BY <1>3 DEF ApplyHeld, Project
  <2> QED BY <1>5, <1>6, <2>1, <2>2 DEF MemoKept, Looks
<1> QED BY <1>7, <1>8

----------------------------------------------------------------------------
(* The parts of a turn, each from what the ones before it left *)

\* All that redraw.rs remembers, the request for a frame and the size apart.
SameMarks(r) ==
    /\ r.attn = red.attn /\ r.attnKnown = red.attnKnown /\ r.phase = red.phase
    /\ r.hotSeen = red.hotSeen /\ r.hot = red.hot /\ r.caret = red.caret

\* Until the clocks are read, a frame has been asked for or the project in
\* front looks as it did.
UnderWay(s) ==
    /\ s \in Stages
    /\ \A p \in Tabs : MemoKept(s.app[p])
    /\ SameMarks(s.red)
    /\ red.dirty => s.red.dirty
    /\ s.red.dirty \/ (s.front = front /\ Looks(s.app[s.front]) = Looks(app[front]))

State(f, ap, r, g) == [front |-> f, app |-> ap, red |-> r, geo |-> g]

LEMMA StagesFacts ==
    ASSUME NEW s \in Stages
    PROVE  /\ s = State(s.front, s.app, s.red, s.geo)
           /\ s.front \in Tabs /\ s.app \in [Tabs -> Project] /\ s.red \in Redraw /\ s.geo \in Geometry
           /\ s.app[s.front] \in Project
BY DEF Stages, State

LEMMA AskFacts ==
    ASSUME NEW r \in Redraw, NEW b \in BOOLEAN
    PROVE  /\ AskFrameIf(r, b) \in Redraw
           /\ SameMarks(r) => SameMarks(AskFrameIf(r, b))
           /\ r.dirty => AskFrameIf(r, b).dirty
           /\ b => AskFrameIf(r, b).dirty
           /\ AskFrame(r) = AskFrameIf(r, TRUE) /\ r = AskFrameIf(r, FALSE)
<1>1. AskFrame(r) \in Redraw
  BY DEF AskFrame, Redraw
<1>2. AskFrame(r).dirty /\ (SameMarks(r) => SameMarks(AskFrame(r)))
  BY DEF AskFrame, Redraw, SameMarks
<1>3. AskFrame(r) = AskFrameIf(r, TRUE) /\ r = AskFrameIf(r, FALSE)
  BY Zenon DEF AskFrameIf
<1>4. CASE b
  BY <1>1, <1>2, <1>3, <1>4 DEF AskFrameIf
<1>5. CASE ~b
  BY <1>3, <1>5 DEF AskFrameIf
<1> QED BY <1>4, <1>5

LEMMA AskedFacts ==
    ASSUME NEW r \in Redraw, NEW b
    PROVE  /\ AskFrameIf(r, b) \in Redraw
           /\ AskFrameIf(r, b).attn = r.attn /\ AskFrameIf(r, b).attnKnown = r.attnKnown
           /\ AskFrameIf(r, b).phase = r.phase /\ AskFrameIf(r, b).hot = r.hot
           /\ AskFrameIf(r, b).hotSeen = r.hotSeen /\ AskFrameIf(r, b).caret = r.caret
           /\ ~AskFrameIf(r, b).dirty => ~b /\ ~r.dirty
BY DEF AskFrameIf, AskFrame, Redraw

LEMMA PartKeeps ==
    ASSUME FrameType, NEW s, UnderWay(s), NEW f \in Tabs, NEW ap \in [Tabs -> Project],
           \A p \in Tabs : MemoKept(ap[p]), NEW g \in Geometry, NEW b \in BOOLEAN,
           ~b => f = s.front /\ Looks(ap[f]) = Looks(s.app[s.front])
    PROVE  UnderWay(State(f, ap, AskFrameIf(s.red, b), g))
<1> DEFINE r == AskFrameIf(s.red, b)
           t == State(f, ap, r, g)
<1>1. s \in Stages /\ s.red \in Redraw
  BY DEF UnderWay, Stages
<1>2. /\ r \in Redraw /\ SameMarks(r) /\ (s.red.dirty => r.dirty) /\ (b => r.dirty)
  BY <1>1, AskFacts DEF UnderWay
<1> HIDE DEF r
<1>3. t.front = f /\ t.app = ap /\ t.red = r /\ t.geo = g
  BY DEF State
<1>4. t \in Stages
  BY <1>2 DEF State, Stages
<1>5. red.dirty => r.dirty
  BY <1>2 DEF UnderWay
<1>6. r.dirty \/ (f = front /\ Looks(ap[f]) = Looks(app[front]))
  <2>1. s.red.dirty \/ (s.front = front /\ Looks(s.app[s.front]) = Looks(app[front]))
    BY DEF UnderWay
  <2> QED BY <1>2, <2>1
<1> HIDE DEF t
<1>7. UnderWay(t)
  BY <1>2, <1>3, <1>4, <1>5, <1>6 DEF UnderWay
<1> QED BY <1>7 DEF t, r

LEMMA SyncKeeps ==
    ASSUME FrameType, NEW s, UnderWay(s)
    PROVE  UnderWay(Sync(s)) /\ Sync(s).geo = s.geo
<1>1. CASE inbox.session = 0
  BY <1>1 DEF Sync
<1>2. CASE inbox.session # 0
  <2> DEFINE f == inbox.session
             ap == [s.app EXCEPT ![f] = Seen(s.app[f])]
  <2>1. f \in Tabs
    BY <1>2 DEF FrameType, Mail
  <2>2. s \in Stages /\ s.app \in [Tabs -> Project] /\ \A p \in Tabs : MemoKept(s.app[p])
    BY DEF UnderWay, Stages
  <2>3. Seen(s.app[f]) \in Project /\ MemoKept(Seen(s.app[f]))
    BY <2>1, <2>2, SeenFacts
  <2>4. ap \in [Tabs -> Project] /\ \A p \in Tabs : MemoKept(ap[p])
    BY <2>1, <2>2, <2>3
  <2>5. Sync(s) = [s EXCEPT !.front = f, !.app[f] = Seen(s.app[f]), !.red = AskFrame(s.red)]
    BY <1>2 DEF Sync
  <2>6. Sync(s) = State(f, ap, AskFrame(s.red), s.geo)
    BY <2>2, <2>5 DEF Stages, State
  <2>7. AskFrame(s.red) = AskFrameIf(s.red, TRUE) /\ s.geo \in Geometry
    BY <2>2, AskFacts DEF Stages
  <2> HIDE DEF ap, f
  <2>8. UnderWay(State(f, ap, AskFrameIf(s.red, TRUE), s.geo))
    BY <2>1, <2>4, <2>7, PartKeeps
  <2> QED BY <2>6, <2>7, <2>8 DEF State
<1> QED BY <1>1, <1>2

LEMMA PollTerminalsKeeps ==
    ASSUME FrameType, NEW s, UnderWay(s)
    PROVE  UnderWay(PollTerminals(s)) /\ PollTerminals(s).geo = s.geo
<1> DEFINE after == [p \in Tabs |-> IF inbox.term[p] = << >> THEN s.app[p]
                                    ELSE TermEvent(s.app[p], inbox.term[p][1])]
           changed == inbox.term[s.front] # << >> /\ FrameChanged(s.app[s.front], inbox.term[s.front][1])
           ap == [after EXCEPT ![s.front] = Seen(after[s.front])]
<1>1. /\ s \in Stages /\ s.app \in [Tabs -> Project] /\ (\A p \in Tabs : MemoKept(s.app[p]))
      /\ s.front \in Tabs /\ s.geo \in Geometry /\ s.red \in Redraw
  BY DEF UnderWay, Stages
<1>2. \A p \in Tabs : inbox.term[p] # << >> => inbox.term[p][1] \in TermEvents
  BY DEF FrameType, Mail
<1>3. \A p \in Tabs : after[p] \in Project /\ MemoKept(after[p])
  BY <1>1, <1>2, TermEventFacts
<1>4. after \in [Tabs -> Project]
  BY <1>3
<1>5. ~changed => Looks(after[s.front]) = Looks(s.app[s.front])
  BY <1>1, <1>2, TermEventFacts
<1>6. changed \in BOOLEAN
  OBVIOUS
<1>7. PollTerminals(s) = [s EXCEPT !.app = ap, !.red = AskFrameIf(s.red, changed)]
  BY Zenon DEF PollTerminals
<1> HIDE DEF after, changed
<1>8. /\ Seen(after[s.front]) \in Project /\ MemoKept(Seen(after[s.front]))
      /\ Looks(Seen(after[s.front])) = Looks(after[s.front])
  BY <1>1, <1>3, SeenFacts
<1>9. ap \in [Tabs -> Project] /\ (\A p \in Tabs : MemoKept(ap[p]))
  BY <1>1, <1>3, <1>4, <1>8
<1>10. ~changed => s.front = s.front /\ Looks(ap[s.front]) = Looks(s.app[s.front])
  BY <1>1, <1>4, <1>5, <1>8
<1> HIDE DEF ap
<1>11. PollTerminals(s) = State(s.front, ap, AskFrameIf(s.red, changed), s.geo)
  BY <1>1, <1>7 DEF Stages, State
<1>12. UnderWay(State(s.front, ap, AskFrameIf(s.red, changed), s.geo))
  BY <1>1, <1>6, <1>9, <1>10, PartKeeps
<1> QED BY <1>11, <1>12 DEF State
LEMMA InputKeeps ==
    ASSUME FrameType, SizeKnown, NEW s, UnderWay(s), s.geo = geo
    PROVE  UnderWay(Input(s)) /\ (Input(s).geo.screen \in {0, real} \/ Input(s).geo.stale)
<1>1. /\ s \in Stages /\ s.app \in [Tabs -> Project] /\ (\A p \in Tabs : MemoKept(s.app[p]))
      /\ s.front \in Tabs /\ s.geo \in Geometry /\ s.red \in Redraw
  BY DEF UnderWay, Stages
<1>2. AskFrame(s.red) = AskFrameIf(s.red, TRUE)
  BY <1>1, AskFacts
<1>3. CASE inbox.input = "none" \/ inbox.input = "idle"
  <2>1. Input(s) = s
    BY <1>3 DEF Input
  <2> QED BY <1>3, <2>1 DEF SizeKnown
<1>4. CASE inbox.input \in {"resize", "redraw"}
  <2> DEFINE g == [s.geo EXCEPT !.stale = TRUE]
  <2>1. Input(s) = [s EXCEPT !.geo.stale = TRUE, !.red = AskFrame(s.red)]
    BY <1>4 DEF Input
  <2>2. g \in Geometry /\ g.stale
    BY <1>1 DEF Geometry
  <2>3. Input(s) = State(s.front, s.app, AskFrameIf(s.red, TRUE), g)
    BY <1>1, <1>2, <2>1 DEF Stages, State
  <2> HIDE DEF g
  <2>4. UnderWay(State(s.front, s.app, AskFrameIf(s.red, TRUE), g))
    BY <1>1, <2>2, PartKeeps
  <2> QED BY <2>2, <2>3, <2>4 DEF State
<1>5. CASE inbox.input \notin {"none", "idle", "resize", "redraw"}
  <2> DEFINE a == KeyEffect(s.app[s.front], inbox.input)
             ap == [s.app EXCEPT ![s.front] = a]
  <2>1. Input(s) = [s EXCEPT !.app[s.front] = a, !.red = AskFrame(s.red)]
    BY <1>5 DEF Input
  <2>2. a \in Project /\ MemoKept(a)
    BY <1>1, KeyEffectFacts
  <2> HIDE DEF a
  <2>3. ap \in [Tabs -> Project] /\ (\A p \in Tabs : MemoKept(ap[p]))
    BY <1>1, <2>2
  <2>4. Input(s) = State(s.front, ap, AskFrameIf(s.red, TRUE), s.geo)
    BY <1>1, <1>2, <2>1 DEF Stages, State
  <2> HIDE DEF ap
  <2>5. UnderWay(State(s.front, ap, AskFrameIf(s.red, TRUE), s.geo))
    BY <1>1, <2>3, PartKeeps
  <2> QED BY <1>5, <2>4, <2>5 DEF State, SizeKnown
<1> QED BY <1>3, <1>4, <1>5

LEMMA PollGitKeeps ==
    ASSUME FrameType, NEW s, UnderWay(s)
    PROVE  UnderWay(PollGit(s)) /\ PollGit(s).geo = s.geo
<1> DEFINE got == [p \in Tabs |-> Got(s.app[p], inbox.loads[p], inbox.held[p])]
           changed == inbox.loads[s.front] > 0 \/ got[s.front].held # {}
           ap == [got EXCEPT ![s.front] = ApplyHeld(got[s.front])]
<1>1. /\ s \in Stages /\ s.app \in [Tabs -> Project] /\ (\A p \in Tabs : MemoKept(s.app[p]))
      /\ s.front \in Tabs /\ s.geo \in Geometry /\ s.red \in Redraw
  BY DEF UnderWay, Stages
<1>2. \A p \in Tabs : inbox.loads[p] \in Nat /\ inbox.held[p] \in [what : SUBSET Held, files : SUBSET Clock]
  BY DEF FrameType, Mail
<1>3. \A p \in Tabs : got[p] \in Project /\ MemoKept(got[p])
  BY <1>1, <1>2, GotFacts
<1>4. got \in [Tabs -> Project]
  BY <1>3
<1>5. ~changed => Looks(got[s.front]) = Looks(s.app[s.front]) /\ got[s.front].held = {}
  BY <1>1, <1>2, GotFacts
<1>6. changed \in BOOLEAN
  OBVIOUS
<1>7. PollGit(s) = [s EXCEPT !.app = ap, !.red = AskFrameIf(s.red, changed)]
  BY Zenon DEF PollGit, Got
<1> HIDE DEF got, changed
<1>8. /\ ApplyHeld(got[s.front]) \in Project /\ MemoKept(ApplyHeld(got[s.front]))
      /\ got[s.front].held = {} => Looks(ApplyHeld(got[s.front])) = Looks(got[s.front])
  BY <1>1, <1>3, ApplyHeldFacts
<1>9. ap \in [Tabs -> Project] /\ (\A p \in Tabs : MemoKept(ap[p]))
  BY <1>1, <1>3, <1>4, <1>8
<1>10. ~changed => s.front = s.front /\ Looks(ap[s.front]) = Looks(s.app[s.front])
  BY <1>1, <1>4, <1>5, <1>8
<1> HIDE DEF ap
<1>11. PollGit(s) = State(s.front, ap, AskFrameIf(s.red, changed), s.geo)
  BY <1>1, <1>7 DEF Stages, State
<1>12. UnderWay(State(s.front, ap, AskFrameIf(s.red, changed), s.geo))
  BY <1>1, <1>6, <1>9, <1>10, PartKeeps
<1> QED BY <1>11, <1>12 DEF State

\* Where the panes are laid out: a size that is known or measured now.
Laid(s) ==
    /\ s.geo.screen \in {0, real} \/ s.geo.stale
    /\ real # 0 => s.geo.screen = real
    /\ s.geo.key = LayoutKey(s.geo, s.app[s.front]) /\ s.geo.ids = s.app[s.front].ids

LEMMA LayKeeps ==
    ASSUME FrameType, NEW s, UnderWay(s), s.geo.screen \in {0, real} \/ s.geo.stale
    PROVE  UnderWay(Lay(s)) /\ Laid(Lay(s))
<1> DEFINE g == Measure(s.geo)
           a == s.app[s.front]
           h == PaneSizes(g, a)
           r == ObserveScreen(s.red, g.screen)
<1>1. s \in Stages /\ s.geo \in Geometry /\ s.red \in Redraw /\ a \in Project /\ real \in Sizes
  BY DEF UnderWay, Stages, FrameType
<1>2. g \in Geometry /\ (real # 0 => g.screen = real) /\ (g.screen \in {0, real} \/ g.stale)
  <2>1. CASE s.geo.screen # 0 /\ ~s.geo.stale
    BY <1>1, <2>1 DEF Measure
  <2>2. CASE ~(s.geo.screen # 0 /\ ~s.geo.stale) /\ real = 0
    BY <1>1, <2>2 DEF Measure
  <2>3. CASE ~(s.geo.screen # 0 /\ ~s.geo.stale) /\ real # 0
    <3>1. g = [s.geo EXCEPT !.screen = real, !.stale = FALSE]
      BY <2>3 DEF Measure
    <3>2. g \in Geometry /\ g.screen = real
      BY <1>1, <3>1 DEF Geometry
    <3> QED BY <3>2
  <2> QED BY <2>1, <2>2, <2>3
<1> HIDE DEF g, a
<1>3. /\ h \in Geometry /\ h.screen = g.screen /\ h.stale = g.stale
      /\ h.key = <<h.screen, a.pane>> /\ h.ids = a.ids
  <2>1. CASE g.key = LayoutKey(g, a) /\ g.ids = a.ids
    BY <1>2, <2>1 DEF PaneSizes, LayoutKey
  <2>2. CASE ~(g.key = LayoutKey(g, a) /\ g.ids = a.ids)
    <3>1. h = [g EXCEPT !.key = LayoutKey(g, a), !.ids = a.ids]
      BY <2>2 DEF PaneSizes
    <3>2. LayoutKey(g, a) = <<g.screen, a.pane>> /\ <<g.screen, a.pane>> \in Sizes \X {1, 2} /\ a.ids \in Nat
      BY <1>1, <1>2 DEF LayoutKey, Geometry, Project
    <3> QED BY <1>2, <3>1, <3>2 DEF Geometry
  <2> QED BY <2>1, <2>2
<1>4. r \in Redraw /\ SameMarks(r) /\ (s.red.dirty => r.dirty)
  <2>0. SameMarks(s.red)
    BY DEF UnderWay
  <2>1. CASE g.screen = 0 \/ s.red.screen = g.screen
    BY <1>1, <2>0, <2>1 DEF ObserveScreen
  <2>2. CASE ~(g.screen = 0 \/ s.red.screen = g.screen)
    <3> DEFINE q == [s.red EXCEPT !.screen = g.screen]
    <3>1. r = AskFrame(q)
      BY <2>2 DEF ObserveScreen
    <3>2. q \in Redraw /\ SameMarks(q)
      BY <1>1, <1>2, <2>0 DEF Redraw, Geometry, SameMarks
    <3> HIDE DEF q
    <3>3. AskFrame(q) \in Redraw /\ SameMarks(AskFrame(q)) /\ AskFrame(q).dirty
      BY <3>2 DEF Redraw, AskFrame, SameMarks
    <3> QED BY <3>1, <3>3
  <2> QED BY <2>1, <2>2
<1>5. Lay(s) = State(s.front, s.app, r, h)
  <2>1. Lay(s) = [s EXCEPT !.geo = h, !.red = r]
    BY Zenon DEF Lay, g, a
  <2> HIDE DEF h, r
  <2> QED BY <1>1, <2>1 DEF Stages, State
<1> HIDE DEF h, r
<1> DEFINE t == State(s.front, s.app, r, h)
<1>6. t.front = s.front /\ t.app = s.app /\ t.red = r /\ t.geo = h
  BY DEF State
<1>7. t \in Stages
  BY <1>1, <1>3, <1>4 DEF State, Stages
<1> HIDE DEF t
<1>8. UnderWay(t)
  <2>1. s.red.dirty \/ (s.front = front /\ Looks(s.app[s.front]) = Looks(app[front]))
    BY DEF UnderWay
  <2>2. r.dirty \/ (s.front = front /\ Looks(s.app[s.front]) = Looks(app[front]))
    BY <1>4, <2>1, Zenon
  <2>3. (red.dirty => r.dirty) /\ \A p \in Tabs : MemoKept(s.app[p])
    BY <1>4 DEF UnderWay
  <2> QED BY <1>4, <1>6, <1>7, <2>2, <2>3 DEF UnderWay
<1>9. Laid(t)
  BY <1>2, <1>3, <1>6 DEF Laid, LayoutKey, a
<1> QED BY <1>5, <1>8, <1>9 DEF t
----------------------------------------------------------------------------
(* The clocks are read, and a frame is drawn or not *)

Blink(s) == IF \E p \in Tabs : s.app[p].unread THEN clk.bright ELSE "none"
Caret(s) == IF s.app[s.front].search THEN clk.lit ELSE "none"
Memo(a) == IF a.mode = "status" THEN HotCache(a) ELSE a.cache

\* What redraw.rs remembers after it has been told, and when it asks for nothing.
LEMMA ObserveFacts ==
    ASSUME FrameType, NEW s, UnderWay(s)
    PROVE  LET a == s.app[s.front]
               r == Observe(s).red
           IN /\ Observe(s) = State(s.front, [s.app EXCEPT ![s.front] = [a EXCEPT !.cache = Memo(a)]], r, s.geo)
              /\ r \in Redraw
              /\ r.attn = Attention(s) /\ r.attnKnown /\ r.hotSeen
              /\ r.phase = Blink(s) /\ r.caret = Caret(s) /\ r.hot = NextHot(a)
              /\ ~r.dirty => /\ ~s.red.dirty
                             /\ red.attnKnown => red.attn = Attention(s)
                             /\ red.phase = Blink(s) /\ red.caret = Caret(s)
                             /\ ~(clk.now >= red.hot)
                             /\ red.hotSeen => ~(NextHot(a) < red.hot)
<1> DEFINE a == s.app[s.front]
           attn == Attention(s)
           ph == Blink(s)
           q1 == [s.red EXCEPT !.attn = attn, !.attnKnown = TRUE, !.phase = ph]
           b1 == (s.red.attnKnown /\ s.red.attn # attn) \/ s.red.phase # ph
           r1 == AskFrameIf(q1, b1)
           nx == NextHot(a)
           q2 == [r1 EXCEPT !.hotSeen = TRUE, !.hot = nx]
           b2 == clk.now >= r1.hot \/ (r1.hotSeen /\ nx < r1.hot)
           r2 == AskFrameIf(q2, b2)
           cp == Caret(s)
           q3 == [r2 EXCEPT !.caret = cp]
           b3 == r2.caret # cp
           r3 == AskFrameIf(q3, b3)
           r == Observe(s).red
<1>1. /\ s \in Stages /\ s.front \in Tabs /\ s.app \in [Tabs -> Project] /\ a \in Project
      /\ s.red \in Redraw /\ s.geo \in Geometry /\ MemoKept(a) /\ SameMarks(s.red)
  BY DEF UnderWay, Stages
<1>2. clk.bright \in OnOff /\ clk.lit \in OnOff /\ clk.now \in Nat
  BY DEF FrameType, Clock
<1>3. attn \in [Tabs -> BOOLEAN]
  BY <1>1 DEF Attention, Project
<1>4. ph \in Phases /\ cp \in Phases
  BY <1>2 DEF Blink, Caret, OnOff, Phases
<1>5. nx \in Nat
  <2>1. HotCache(a).deadline \in Nat /\ Never \in Nat
    BY <1>1, HotCacheFacts DEF Never
  <2> QED BY <2>1 DEF NextHot
<1>6. (\E p \in Tabs : attn[p]) <=> \E p \in Tabs : s.app[p].unread
  BY DEF Attention
<1>7. /\ ObserveAttention(s.red, attn) = r1
      /\ ObserveHot(r1, nx) = r2
      /\ ObserveCaret(r2, a.search) = r3
  <2>1. ObserveAttention(s.red, attn) = r1
    <3>1. (IF \E p \in Tabs : attn[p] THEN clk.bright ELSE "none") = ph
      BY <1>6 DEF Blink
    <3> HIDE DEF attn, ph
    <3> QED BY <3>1, Zenon DEF ObserveAttention
  <2>2. ObserveHot(r1, nx) = r2
    <3> HIDE DEF r1, nx
    <3> QED BY Zenon DEF ObserveHot
  <2>3. ObserveCaret(r2, a.search) = r3
    <3> HIDE DEF r2
    <3> QED BY Zenon DEF ObserveCaret, Caret
  <2> QED BY <2>1, <2>2, <2>3
<1>8. Observe(s) = [s EXCEPT !.red = r3, !.app[s.front].cache = Memo(a)]
  <2> HIDE DEF r1, r2, r3, nx, a, attn
  <2> QED BY <1>7, Zenon DEF Observe, Memo, nx, a, attn
<1> HIDE DEF attn, ph, nx, cp, a
<1>9. /\ q1 \in Redraw /\ q1.attn = attn /\ q1.attnKnown = TRUE /\ q1.phase = ph
      /\ q1.hot = red.hot /\ q1.hotSeen = red.hotSeen /\ q1.caret = red.caret /\ q1.dirty = s.red.dirty
  BY <1>1, <1>3, <1>4 DEF Redraw, SameMarks
<1>10. b1 = ((red.attnKnown /\ red.attn # attn) \/ red.phase # ph)
  BY <1>1 DEF SameMarks
<1> HIDE DEF q1
<1>11. /\ r1 \in Redraw /\ r1.attn = attn /\ r1.attnKnown = TRUE /\ r1.phase = ph
       /\ r1.hot = red.hot /\ r1.hotSeen = red.hotSeen /\ r1.caret = red.caret
       /\ ~r1.dirty => ~b1 /\ ~s.red.dirty
  <2> HIDE DEF b1
  <2> QED BY <1>9, AskedFacts
<1> HIDE DEF r1, b1
<1>12. /\ q2 \in Redraw /\ q2.attn = attn /\ q2.attnKnown = TRUE /\ q2.phase = ph
       /\ q2.hot = nx /\ q2.hotSeen = TRUE /\ q2.caret = red.caret /\ q2.dirty = r1.dirty
  BY <1>5, <1>11 DEF Redraw
<1> HIDE DEF q2
<1>13. /\ r2 \in Redraw /\ r2.attn = attn /\ r2.attnKnown = TRUE /\ r2.phase = ph
       /\ r2.hot = nx /\ r2.hotSeen = TRUE /\ r2.caret = red.caret
       /\ ~r2.dirty => ~b2 /\ ~r1.dirty
  <2> HIDE DEF b2
  <2> QED BY <1>12, AskedFacts
<1> HIDE DEF r2
<1>14. /\ q3 \in Redraw /\ q3.attn = attn /\ q3.attnKnown = TRUE /\ q3.phase = ph
       /\ q3.hot = nx /\ q3.hotSeen = TRUE /\ q3.caret = cp /\ q3.dirty = r2.dirty
  BY <1>4, <1>13 DEF Redraw
<1> HIDE DEF q3
<1>15. /\ r3 \in Redraw /\ r3.attn = attn /\ r3.attnKnown = TRUE /\ r3.phase = ph
       /\ r3.hot = nx /\ r3.hotSeen = TRUE /\ r3.caret = cp
       /\ ~r3.dirty => ~b3 /\ ~r2.dirty
  <2> HIDE DEF b3
  <2> QED BY <1>14, AskedFacts
<1> HIDE DEF r3
<1>16. Observe(s) = State(s.front, [s.app EXCEPT ![s.front] = [a EXCEPT !.cache = Memo(a)]], r3, s.geo)
  BY <1>1, <1>8 DEF Stages, State, a
<1>17. r = r3
  BY <1>16 DEF State
<1>18. ASSUME ~r3.dirty
       PROVE  /\ ~s.red.dirty
              /\ red.attnKnown => red.attn = attn
              /\ red.phase = ph /\ red.caret = cp
              /\ ~(clk.now >= red.hot)
              /\ red.hotSeen => ~(nx < red.hot)
  <2>1. ~b3 /\ ~b2 /\ ~b1 /\ ~s.red.dirty
    BY <1>11, <1>13, <1>15, <1>18
  <2>2. (red.attnKnown => red.attn = attn) /\ red.phase = ph
    BY <1>10, <2>1 DEF b1
  <2>3. red.caret = cp
    BY <1>13, <2>1
  <2>4. ~(clk.now >= red.hot) /\ (red.hotSeen => ~(nx < red.hot))
    BY <1>11, <2>1
  <2> QED BY <2>1, <2>2, <2>3, <2>4
<1> QED BY <1>15, <1>16, <1>17, <1>18 DEF attn, ph, cp, nx, a
\* A frame drawn now is the one redraw.rs takes it for.
LEMMA PictureFacts ==
    ASSUME NEW s, NEW r, r.attn = Attention(s), r.phase = Blink(s), r.caret = Caret(s)
    PROVE  Picture(s) = Frame(s, r, clk.now)
<1>1. {<<m, Stage(m)>> : m \in s.app[s.front].files} = StagesAt(s.app[s.front].files, clk.now)
  BY NowFacts DEF StagesAt
<1> QED BY <1>1, Zenon DEF Picture, Frame, Blink, Caret

\* The project in front after its deadline was asked for.
LEMMA MemoFacts ==
    ASSUME FrameType, NEW a \in Project, MemoKept(a)
    PROVE  LET b == [a EXCEPT !.cache = Memo(a)]
           IN /\ b \in Project /\ MemoKept(b) /\ b = [a EXCEPT !.cache = b.cache]
              /\ b.out = a.out /\ b.pane = a.pane /\ b.titles = a.titles /\ b.ids = a.ids
              /\ b.ver = a.ver /\ b.loads = a.loads /\ b.mode = a.mode /\ b.search = a.search
              /\ b.files = a.files /\ b.unread = a.unread
              /\ b.mode = "status" => /\ b.cache.at \in Clock /\ b.cache.at <= clk.now
                                      /\ clk.now < b.cache.deadline
                                      /\ NextHot(a) = b.cache.deadline
<1> DEFINE c == Memo(a)
           b == [a EXCEPT !.cache = c]
<1>1. /\ HotCache(a) \in [at : Nat, deadline : Nat]
      /\ HotCache(a).at \in Clock /\ HotCache(a).at <= clk.now /\ clk.now < HotCache(a).deadline
      /\ HotCache(a).deadline = DeadlineAt(a.files, HotCache(a).at)
  BY HotCacheFacts
<1>2. c \in [at : Nat, deadline : Nat]
  BY <1>1 DEF Memo, Project
<1>3. c.at = Never \/ (c.at \in Clock /\ c.deadline = DeadlineAt(a.files, c.at))
  BY <1>1 DEF Memo, MemoKept
<1>4. a.mode = "status" => c = HotCache(a) /\ NextHot(a) = HotCache(a).deadline
  BY DEF Memo, NextHot
<1> HIDE DEF c
<1>5. b \in Project /\ b.cache = c
  BY <1>2 DEF Project
<1>6. /\ b.out = a.out /\ b.pane = a.pane /\ b.titles = a.titles /\ b.ids = a.ids
      /\ b.ver = a.ver /\ b.loads = a.loads /\ b.mode = a.mode /\ b.search = a.search
      /\ b.files = a.files /\ b.unread = a.unread
  BY DEF Project
<1> HIDE DEF b
<1>7. MemoKept(b)
  BY <1>3, <1>5, <1>6 DEF MemoKept
<1>8. b.mode = "status" => /\ b.cache.at \in Clock /\ b.cache.at <= clk.now
                           /\ clk.now < b.cache.deadline /\ NextHot(a) = b.cache.deadline
  BY <1>1, <1>4, <1>5, <1>6
<1>9. b = [a EXCEPT !.cache = b.cache]
  BY <1>5 DEF b
<1> QED BY <1>5, <1>6, <1>7, <1>8, <1>9 DEF b, c

\* What a turn does before the clocks are read.
Drained == Lay(PollGit(Input(PollTerminals(Sync(State(front, app, red, geo))))))

LEMMA DrainedFacts ==
    ASSUME FrameInv
    PROVE  UnderWay(Drained) /\ Laid(Drained)
<1> DEFINE s0 == State(front, app, red, geo)
<1>1. FrameType /\ SizeKnown
  BY DEF FrameInv
<1>2. UnderWay(s0) /\ s0.geo = geo
  BY DEF FrameInv, FrameType, State, Stages, UnderWay, SameMarks, MemosKept
<1> HIDE DEF s0
<1>3. UnderWay(Sync(s0)) /\ Sync(s0).geo = geo
  BY <1>1, <1>2, SyncKeeps
<1>4. UnderWay(PollTerminals(Sync(s0))) /\ PollTerminals(Sync(s0)).geo = geo
  BY <1>1, <1>3, PollTerminalsKeeps
<1> DEFINE s3 == Input(PollTerminals(Sync(s0)))
<1>5. UnderWay(s3) /\ (s3.geo.screen \in {0, real} \/ s3.geo.stale)
  BY <1>1, <1>4, InputKeeps
<1> HIDE DEF s3
<1>6. UnderWay(PollGit(s3)) /\ PollGit(s3).geo = s3.geo
  BY <1>1, <1>5, PollGitKeeps
<1>7. UnderWay(Lay(PollGit(s3))) /\ Laid(Lay(PollGit(s3)))
  <2>1. PollGit(s3).geo.screen \in {0, real} \/ PollGit(s3).geo.stale
    BY <1>5, <1>6
  <2> QED BY <1>1, <1>6, <2>1, LayKeeps
<1> QED BY <1>7, Zenon DEF Drained, s3, s0

\* The turn itself: what is on the screen afterwards is a frame of now.
LEMMA TurnKeeps ==
    ASSUME FrameInv, Turn
    PROVE  FrameInv'
<1> DEFINE s == Drained
           a == s.app[s.front]
           b == [a EXCEPT !.cache = Memo(a)]
           e == Observe(s)
           r == e.red
           ap == [s.app EXCEPT ![s.front] = b]
<1>1. UnderWay(s) /\ Laid(s)
  BY DrainedFacts
<1>2. FrameType /\ FrameKept /\ MemosKept
  BY DEF FrameInv
<1>3. /\ front' = e.front /\ app' = e.app /\ geo' = e.geo /\ red' = [r EXCEPT !.dirty = FALSE]
      /\ drawn' = (IF r.dirty THEN Picture(e) ELSE drawn)
      /\ inbox' = EmptyInbox /\ turn' = TRUE /\ clk' = clk /\ real' = real
  BY Zenon DEF Turn, Drained, State
<1> HIDE DEF s
<1>4. /\ s.front \in Tabs /\ s.app \in [Tabs -> Project] /\ a \in Project /\ MemoKept(a)
      /\ s.geo \in Geometry /\ (\A p \in Tabs : MemoKept(s.app[p]))
  BY <1>1 DEF UnderWay, Stages
<1>5. /\ e = State(s.front, ap, r, s.geo)
      /\ r \in Redraw
      /\ r.attn = Attention(s) /\ r.attnKnown /\ r.hotSeen
      /\ r.phase = Blink(s) /\ r.caret = Caret(s) /\ r.hot = NextHot(a)
      /\ ~r.dirty => /\ ~s.red.dirty
                     /\ red.attnKnown => red.attn = Attention(s)
                     /\ red.phase = Blink(s) /\ red.caret = Caret(s)
                     /\ ~(clk.now >= red.hot)
                     /\ red.hotSeen => ~(NextHot(a) < red.hot)
  BY <1>1, <1>2, ObserveFacts
<1>6. /\ b \in Project /\ MemoKept(b)
      /\ b.out = a.out /\ b.pane = a.pane /\ b.titles = a.titles /\ b.ids = a.ids
      /\ b.ver = a.ver /\ b.loads = a.loads /\ b.mode = a.mode /\ b.search = a.search
      /\ b.files = a.files /\ b.unread = a.unread
      /\ b.mode = "status" => /\ b.cache.at \in Clock /\ b.cache.at <= clk.now
                              /\ clk.now < b.cache.deadline
                              /\ NextHot(a) = b.cache.deadline
  BY <1>2, <1>4, MemoFacts
<1> HIDE DEF e, r, b, a
<1>7. e.front = s.front /\ e.app = ap /\ e.geo = s.geo /\ e.app[e.front] = b
  BY <1>4, <1>5 DEF State
<1>8. ap \in [Tabs -> Project] /\ (\A p \in Tabs : MemoKept(ap[p])) /\ ap[s.front] = b
  BY <1>4, <1>6
<1>9. \A p \in Tabs : ap[p].unread = s.app[p].unread
  BY <1>4, <1>6 DEF a
<1>10. Attention(e) = Attention(s) /\ Blink(e) = Blink(s) /\ Caret(e) = Caret(s)
  <2>1. Attention(e) = Attention(s)
    BY <1>7, <1>9 DEF Attention
  <2>2. (\E p \in Tabs : e.app[p].unread) <=> \E p \in Tabs : s.app[p].unread
    BY <1>7, <1>9
  <2>3. Blink(e) = Blink(s)
    BY <2>2 DEF Blink
  <2>4. Caret(e) = Caret(s)
    BY <1>6, <1>7 DEF Caret, a
  <2> QED BY <2>1, <2>3, <2>4
<1> HIDE DEF ap
<1> DEFINE F == Frame(e, r, clk.now)
<1>11. drawn' = F
  <2>1. CASE r.dirty
    <3>1. Picture(e) = F
      BY <1>5, <1>10, PictureFacts
    <3> QED BY <1>3, <2>1, <3>1
  <2>2. CASE ~r.dirty
    <3>1. ~s.red.dirty /\ ~red.dirty /\ s.front = front /\ Looks(a) = Looks(app[front])
      BY <1>1, <1>5, <2>2 DEF UnderWay, a
    <3>2. red.attnKnown /\ red.hotSeen /\ \E t \in Clock : DrawnAt(t)
      BY <1>2, <3>1 DEF FrameKept
    <3>3. PICK t \in Clock : DrawnAt(t)
      BY <3>2
    <3> DEFINE o == app[front]
    <3>4. /\ a.out[a.pane] = o.out[o.pane] /\ a.pane = o.pane /\ a.titles = o.titles /\ a.ids = o.ids
          /\ a.ver = o.ver /\ a.loads = o.loads /\ a.mode = o.mode /\ a.search = o.search
          /\ a.files = o.files /\ a.cache = o.cache
      BY <3>1 DEF Looks
    <3>5. a.mode = "status" => StagesAt(a.files, t) = StagesAt(a.files, clk.now)
      <4> SUFFICES ASSUME a.mode = "status" PROVE StagesAt(a.files, t) = StagesAt(a.files, clk.now)
        OBVIOUS
      <4>1. a.cache.at \in Clock /\ a.cache.at <= t /\ t < red.hot /\ red.hot = a.cache.deadline
        BY <3>3, <3>4 DEF DrawnAt, Deadline
      <4>2. NextHot(a) = HotCache(a).deadline
        BY DEF NextHot
      <4>3. clk.now \in Nat /\ a.cache.deadline \in Nat
        BY <1>2, <1>4 DEF FrameType, Clock, Project
      <4>4. clk.now < a.cache.deadline /\ ~(HotCache(a).deadline < a.cache.deadline)
        BY <1>5, <2>2, <3>2, <4>1, <4>2, <4>3
      <4> QED BY <1>2, <1>4, <4>1, <4>4, StagesStay
    <3>6. drawn = Frame([front |-> front, app |-> app], red, t)
      BY <3>3 DEF DrawnAt
    <3>7. red.attn = r.attn /\ red.phase = r.phase /\ red.caret = r.caret
      BY <1>5, <2>2, <3>2
    <3>8. Frame([front |-> front, app |-> app], red, t) = F
      <4> DEFINE h == IF o.mode = "status" THEN StagesAt(o.files, t) ELSE {}
                 k == IF b.mode = "status" THEN StagesAt(b.files, clk.now) ELSE {}
      <4>1. h = k
        BY <1>6, <3>4, <3>5
      <4> HIDE DEF h, k, o
      <4>2. F = [tab |-> s.front, out |-> b.out[b.pane], pane |-> b.pane, titles |-> b.titles,
                 ids |-> b.ids, ver |-> b.ver, loads |-> b.loads, mode |-> b.mode, search |-> b.search,
                 attn |-> r.attn, blink |-> r.phase, caret |-> r.caret, hot |-> k]
        BY <1>7 DEF Frame, k
      <4>3. Frame([front |-> front, app |-> app], red, t)
              = [tab |-> front, out |-> o.out[o.pane], pane |-> o.pane, titles |-> o.titles,
                 ids |-> o.ids, ver |-> o.ver, loads |-> o.loads, mode |-> o.mode, search |-> o.search,
                 attn |-> red.attn, blink |-> red.phase, caret |-> red.caret, hot |-> h]
        BY Zenon DEF Frame, h, o
      <4>4. b.out[b.pane] = o.out[o.pane]
        BY <1>6, <3>4
      <4> QED BY <1>6, <3>1, <3>4, <3>7, <4>1, <4>2, <4>3, <4>4
    <3> QED BY <1>3, <2>2, <3>6, <3>8
  <2> QED BY <2>1, <2>2
<1> HIDE DEF F
<1> DEFINE q == [r EXCEPT !.dirty = FALSE]
<1>12. /\ q \in Redraw /\ ~q.dirty /\ q.attnKnown /\ q.hotSeen /\ q.attn = r.attn
       /\ q.phase = r.phase /\ q.caret = r.caret /\ q.hot = r.hot
  BY <1>5 DEF Redraw
<1> HIDE DEF q
<1>13. front' = s.front /\ app' = ap /\ geo' = s.geo /\ red' = q
  BY <1>3, <1>7 DEF q
<1>14. FrameType'
  <2>1. EmptyInbox \in Mail
    BY DEF EmptyInbox, Mail, Inputs
  <2> QED BY <1>2, <1>3, <1>4, <1>8, <1>12, <1>13, <2>1 DEF FrameType
<1>15. MemosKept'
  BY <1>8, <1>13 DEF MemosKept, MemoKept
<1>16. FrameKept'
  <2>1. Attention(s) = [p \in Tabs |-> ap[p].unread]
    BY <1>9 DEF Attention, ap
  <2>2. clk.now \in Clock
    BY <1>2 DEF FrameType
  <2>3. F = Frame([front |-> s.front, app |-> ap], q, clk.now)
    BY <1>7, <1>12, Zenon DEF F, Frame
  <2>4. Deadline(b, q, clk.now)
    BY <1>5, <1>6, <1>12 DEF Deadline
  <2>5. drawn' = Frame([front |-> front', app |-> app'], red', clk.now)
    BY <1>11, <1>13, <2>3
  <2>6. Deadline(app'[front'], red', clk.now)
    BY <1>8, <1>13, <2>4
  <2>7. Frame([front |-> front', app |-> app'], red', clk.now) = Frame([front |-> front, app |-> app], red, clk.now)'
    BY <1>3 DEF Frame, StagesAt, StageAt, AgeAt
  <2>8. (drawn = Frame([front |-> front, app |-> app], red, clk.now))'
    BY <2>5, <2>7
  <2>9. (\E t \in Clock : DrawnAt(t) /\ (turn => t = clk.now))'
    BY <1>3, <2>2, <2>6, <2>8 DEF DrawnAt, Deadline, Clock
  <2>10. (\E p \in Tabs : ap[p].unread) <=> \E p \in Tabs : s.app[p].unread
    BY <1>9 DEF ap
  <2>11. q.phase = IF \E p \in Tabs : ap[p].unread THEN clk.bright ELSE "none"
    BY <1>5, <1>12, <2>10 DEF Blink
  <2>12. q.caret = IF ap[s.front].search THEN clk.lit ELSE "none"
    BY <1>5, <1>6, <1>8, <1>12 DEF Caret, a
  <2>13. q.attn = [p \in Tabs |-> ap[p].unread]
    BY <1>5, <1>12, <2>1
  <2> QED BY <1>3, <1>12, <1>13, <2>9, <2>11, <2>12, <2>13 DEF FrameKept
<1>17. SizeKnown' /\ LaidOut'
  <2>1. s.geo.key = LayoutKey(s.geo, b) /\ s.geo.ids = b.ids
    BY <1>1, <1>6 DEF Laid, LayoutKey, a
  <2>2. (s.geo.screen \in {0, real} \/ s.geo.stale) /\ (real # 0 => s.geo.screen = real)
    BY <1>1 DEF Laid
  <2> QED BY <1>3, <1>8, <1>13, <2>1, <2>2 DEF SizeKnown, LaidOut, LayoutKey
<1> QED BY <1>14, <1>15, <1>16, <1>17 DEF FrameInv

----------------------------------------------------------------------------
(* Between turns nothing touches what is drawn or remembered *)

LEMMA BetweenTurns ==
    ASSUME FrameInv, UNCHANGED <<front, app, geo, red, drawn>>, ~turn',
           FrameType', SizeKnown'
    PROVE  FrameInv'
<1>1. MemosKept'
  BY DEF FrameInv, MemosKept, MemoKept
<1>2. FrameKept'
  <2>1. CASE red.dirty
    BY <2>1 DEF FrameInv, FrameKept
  <2>2. CASE ~red.dirty
    <3>1. /\ red.attnKnown /\ red.hotSeen /\ red.attn = [p \in Tabs |-> app[p].unread]
          /\ \E t \in Clock : DrawnAt(t)
      BY <2>2 DEF FrameInv, FrameKept
    <3>2. PICK t \in Clock : DrawnAt(t)
      BY <3>1
    <3>3. DrawnAt(t)'
      BY <3>2 DEF DrawnAt, Frame, Deadline
    <3> QED BY <2>2, <3>1, <3>3 DEF FrameKept, Clock
  <2> QED BY <2>1, <2>2
<1> QED BY <1>1, <1>2 DEF FrameInv, LaidOut

LEMMA FrameStarts ==
    FLInit => FrameInv
<1> SUFFICES ASSUME NEW fs \in FileSets, NEW t \in 0 .. MaxClock,
                    clk = [now |-> t, bright |-> "on", lit |-> "on"], front = 1,
                    app = [p \in Tabs |-> NewApp(fs)], inbox = EmptyInbox, real = 1,
                    geo = [screen |-> 0, stale |-> FALSE, key |-> << >>, ids |-> 0],
                    red = [dirty |-> TRUE, screen |-> 0, attn |-> [p \in Tabs |-> FALSE],
                           attnKnown |-> FALSE, phase |-> "none", hotSeen |-> FALSE,
                           hot |-> Never, caret |-> "none"],
                    turn = FALSE
             PROVE  FrameInv
  BY Zenon DEF FLInit
<1>1. fs \subseteq Clock
  BY FrameAssumption DEF Clock
<1>2. NewApp(fs) \in Project /\ NewApp(fs).cache.at = Never
  <2>1. <<0, 0>> \in [1 .. 2 -> Nat]
    OBVIOUS
  <2>2. NoCache \in [at : Nat, deadline : Nat] /\ NoCache.at = Never
    BY DEF NoCache, Never
  <2> QED BY <1>1, <2>1, <2>2 DEF NewApp, Project
<1>3. FrameType
  <2>1. EmptyInbox \in Mail
    BY DEF EmptyInbox, Mail, Inputs
  <2>2. app \in [Tabs -> Project]
    BY <1>2
  <2>3. red \in Redraw
    BY DEF Redraw, Sizes, Phases, Never
  <2>4. geo \in Geometry
    BY DEF Geometry, Sizes
  <2>5. clk \in [now : Clock, bright : OnOff, lit : OnOff]
    BY DEF Clock, OnOff
  <2> QED BY <2>1, <2>2, <2>3, <2>4, <2>5, FrameAssumption DEF FrameType, Sizes
<1>4. MemosKept
  BY <1>2 DEF MemosKept, MemoKept
<1> QED BY <1>3, <1>4 DEF FrameInv, FrameKept, SizeKnown, LaidOut

LEMMA FrameNextKeeps ==
    FrameInv /\ [FLNext]_flvars => FrameInv'
<1> SUFFICES ASSUME FrameInv, [FLNext]_flvars PROVE FrameInv'
  OBVIOUS
<1>1. CASE Turn
  BY <1>1, TurnKeeps
<1>2. FrameType /\ SizeKnown
  BY DEF FrameInv
<1>3. CASE ClockMoves
  <2>1. PICK t \in 0 .. MaxClock : clk' = [clk EXCEPT !.now = t]
    BY <1>3 DEF ClockMoves
  <2>2. UNCHANGED <<front, app, inbox, real, geo, red, drawn>> /\ turn' = FALSE
    BY <1>3 DEF ClockMoves, Happens
  <2>3. clk' \in [now : Clock, bright : OnOff, lit : OnOff]
    BY <1>2, <2>1 DEF FrameType, Clock
  <2>4. FrameType' /\ SizeKnown'
    BY <1>2, <2>2, <2>3 DEF FrameType, SizeKnown
  <2> QED BY <2>2, <2>4, BetweenTurns
<1>4. CASE Blinks
  <2>1. clk' \in {[clk EXCEPT !.bright = Flip(@)], [clk EXCEPT !.lit = Flip(@)]}
    BY <1>4 DEF Blinks
  <2>2. UNCHANGED <<front, app, inbox, real, geo, red, drawn>> /\ turn' = FALSE
    BY <1>4 DEF Blinks, Happens
  <2>3. clk' \in [now : Clock, bright : OnOff, lit : OnOff]
    BY <1>2, <2>1 DEF FrameType, OnOff, Flip
  <2>4. FrameType' /\ SizeKnown'
    BY <1>2, <2>2, <2>3 DEF FrameType, SizeKnown
  <2> QED BY <2>2, <2>4, BetweenTurns
<1>5. CASE SessionMoves
  <2>1. PICK p \in Tabs : inbox' = [inbox EXCEPT !.session = p]
    BY <1>5 DEF SessionMoves
  <2>2. UNCHANGED <<clk, front, app, real, geo, red, drawn>> /\ turn' = FALSE
    BY <1>5 DEF SessionMoves, Happens
  <2>3. inbox' \in Mail /\ inbox'.input = inbox.input
    BY <1>2, <2>1 DEF FrameType, Mail
  <2>4. FrameType' /\ SizeKnown'
    BY <1>2, <2>2, <2>3 DEF FrameType, SizeKnown
  <2> QED BY <2>2, <2>4, BetweenTurns
<1>6. CASE TerminalSends
  <2>1. PICK p \in Tabs, e \in TermEvents : inbox' = [inbox EXCEPT !.term[p] = <<e>>]
    BY <1>6 DEF TerminalSends
  <2>2. UNCHANGED <<clk, front, app, real, geo, red, drawn>> /\ turn' = FALSE
    BY <1>6 DEF TerminalSends, Happens
  <2>3. inbox' \in Mail /\ inbox'.input = inbox.input
    <3> DEFINE T == {<< >>} \cup {<<x>> : x \in TermEvents}
    <3>1. <<e>> \in T
      OBVIOUS
    <3> HIDE DEF T
    <3>2. inbox \in [session : Tabs \cup {0}, term : [Tabs -> T], input : Inputs,
                     loads : [Tabs -> Nat],
                     held : [Tabs -> [what : SUBSET Held, files : SUBSET Clock]]]
      BY <1>2 DEF FrameType, Mail, T
    <3>3. inbox' \in [session : Tabs \cup {0}, term : [Tabs -> T], input : Inputs,
                      loads : [Tabs -> Nat],
                      held : [Tabs -> [what : SUBSET Held, files : SUBSET Clock]]]
      BY <2>1, <3>1, <3>2
    <3>4. inbox'.input = inbox.input
      BY <2>1, <3>2
    <3> QED BY <3>3, <3>4 DEF Mail, T
  <2>4. FrameType' /\ SizeKnown'
    BY <1>2, <2>2, <2>3 DEF FrameType, SizeKnown
  <2> QED BY <2>2, <2>4, BetweenTurns
<1>7. CASE PersonActs
  <2>1. /\ inbox.input = "none"
        /\ \E k \in {"pane", "search", "mode", "other", "idle", "redraw"} :
             inbox' = [inbox EXCEPT !.input = k]
    BY <1>7 DEF PersonActs
  <2>2. UNCHANGED <<clk, front, app, real, geo, red, drawn>> /\ turn' = FALSE
    BY <1>7 DEF PersonActs, Happens
  <2>3. inbox' \in Mail
    BY <1>2, <2>1 DEF FrameType, Mail, Inputs
  <2>4. FrameType' /\ SizeKnown'
    BY <1>2, <2>1, <2>2, <2>3 DEF FrameType, SizeKnown
  <2> QED BY <2>2, <2>4, BetweenTurns
<1>8. CASE WindowResizes
  <2>1. real' \in Sizes /\ inbox' = [inbox EXCEPT !.input = "resize"]
    BY <1>8 DEF WindowResizes
  <2>2. UNCHANGED <<clk, front, app, geo, red, drawn>> /\ turn' = FALSE
    BY <1>8 DEF WindowResizes, Happens
  <2>3. inbox' \in Mail /\ inbox'.input = "resize"
    BY <1>2, <2>1 DEF FrameType, Mail, Inputs
  <2>4. FrameType' /\ SizeKnown'
    BY <1>2, <2>1, <2>2, <2>3 DEF FrameType, SizeKnown
  <2> QED BY <2>2, <2>4, BetweenTurns
<1>9. CASE WorkersSend
  <2>1. UNCHANGED <<clk, front, app, real, geo, red, drawn>> /\ turn' = FALSE
    BY <1>9 DEF WorkersSend, Happens
  <2>2. inbox' \in Mail /\ inbox'.input = inbox.input
    <3>1. PICK p \in Tabs :
            \/ inbox' = [inbox EXCEPT !.loads[p] = @ + 1]
            \/ \E w \in Held, fs \in FileSets :
                 inbox' = [inbox EXCEPT !.held[p] = [what |-> @.what \cup {w},
                                                     files |-> IF w = "snapshot" THEN fs ELSE @.files]]
      BY <1>9 DEF WorkersSend
    <3>2. CASE inbox' = [inbox EXCEPT !.loads[p] = @ + 1]
      <4> DEFINE n == inbox.loads[p] + 1
      <4>1. n \in Nat
        BY <1>2 DEF FrameType, Mail
      <4>2. inbox' = [inbox EXCEPT !.loads[p] = n]
        BY <3>2
      <4> HIDE DEF n
      <4> QED BY <1>2, <4>1, <4>2 DEF FrameType, Mail
    <3>3. CASE \E w \in Held, fs \in FileSets :
                 inbox' = [inbox EXCEPT !.held[p] = [what |-> @.what \cup {w},
                                                     files |-> IF w = "snapshot" THEN fs ELSE @.files]]
      <4>1. PICK w \in Held, fs \in FileSets :
                 inbox' = [inbox EXCEPT !.held[p] = [what |-> @.what \cup {w},
                                                     files |-> IF w = "snapshot" THEN fs ELSE @.files]]
        BY <3>3
      <4> DEFINE h == [what |-> inbox.held[p].what \cup {w},
                       files |-> IF w = "snapshot" THEN fs ELSE inbox.held[p].files]
      <4>2. fs \subseteq Clock
        BY FrameAssumption DEF Clock
      <4>3. inbox.held[p] \in [what : SUBSET Held, files : SUBSET Clock]
        BY <1>2 DEF FrameType, Mail
      <4>4. h \in [what : SUBSET Held, files : SUBSET Clock]
        BY <4>2, <4>3
      <4>5. inbox' = [inbox EXCEPT !.held[p] = h]
        BY <4>1
      <4> HIDE DEF h
      <4> QED BY <1>2, <4>4, <4>5 DEF FrameType, Mail
    <3> QED BY <3>1, <3>2, <3>3
  <2>3. FrameType' /\ SizeKnown'
    BY <1>2, <2>1, <2>2 DEF FrameType, SizeKnown
  <2> QED BY <2>1, <2>3, BetweenTurns
<1>10. CASE UNCHANGED flvars
  BY <1>10 DEF flvars, FrameInv, FrameType, MemosKept, MemoKept, FrameKept, DrawnAt, Frame, Deadline,
               SizeKnown, LaidOut, LayoutKey, Clock
<1> QED BY <1>1, <1>3, <1>4, <1>5, <1>6, <1>7, <1>8, <1>9, <1>10 DEF FLNext

\* The loop keeps its invariant: what is drawn is a frame of the last turn,
\* and redraw.rs remembers the phases and the deadline that frame depends on.
THEOREM FrameInductive == FLSpec => []FrameInv
BY FrameStarts, FrameNextKeeps, PTL DEF FLSpec

\* What a turn leaves on the screen is what a frame drawn then would show,
\* whichever turns drew none and wherever the wall clock was set meanwhile
\* (redraw.rs, hot_stage.rs), laid out for the backend's size.
THEOREM FramesAreCurrent == FLSpec => []FrameCurrent
<1>1. FrameInv => FrameCurrent
  <2> SUFFICES ASSUME FrameInv, turn PROVE FrameCurrent
    BY DEF FrameCurrent
  <2> DEFINE s == [front |-> front, app |-> app]
  <2>1. ~red.dirty /\ red.attn = [p \in Tabs |-> app[p].unread]
    BY DEF FrameInv, FrameKept
  <2>2. /\ red.phase = IF \E p \in Tabs : app[p].unread THEN clk.bright ELSE "none"
        /\ red.caret = IF app[front].search THEN clk.lit ELSE "none"
        /\ DrawnAt(clk.now)
    BY <2>1 DEF FrameInv, FrameKept
  <2>3. red.attn = Attention(s) /\ red.phase = Blink(s) /\ red.caret = Caret(s)
    BY <2>1, <2>2 DEF Attention, Blink, Caret
  <2>4. Picture(s) = Frame(s, red, clk.now)
    BY <2>3, PictureFacts
  <2> QED BY <2>2, <2>4 DEF FrameCurrent, DrawnAt, FrameInv, LaidOut
<1> QED BY <1>1, FrameInductive, PTL
=============================================================================
