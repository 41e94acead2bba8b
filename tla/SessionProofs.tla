---------------------------- MODULE SessionProofs ----------------------------
(***************************************************************************)
(* What the session keeps for its clients.  The one clone slot and the     *)
(* dialogs that wait for it, for any number of clients and remembered jobs *)
(* and any order of requests, answers and keys; the login tokens for any   *)
(* number of threads, logins and restarts, any lifetimes and any cap, with *)
(* every write free to fail and the server stopped at any moment; the      *)
(* daemon's own life, for any number of commands, any caps, and any number *)
(* of processes killed at any point; and the repository catalog, for any   *)
(* repositories and limit and any number of callers that open, close,      *)
(* focus, reorder, persist and reload at once.                             *)
(***************************************************************************)
EXTENDS CloneJobs, LoginTokens, DaemonLife, SessionCatalog, Integers, FiniteSetTheorems,
        SequenceTheorems, WellFoundedInduction, TLAPS

----------------------------------------------------------------------------
(* Clone jobs: the inductive invariant *)

States == {"running", "done", "failed"}
Statuses == Waiting \cup {"idle", "done", "failed", "unconfirmed"}

Requests == [k : {"start"}] \cup [k : {"status", "open"}, job : Nat]
Answers == [k : {"rejected", "idle", "error"}]
           \cup [k : {"started", "unknown", "repos"}, job : Nat]
           \cup [k : {"found"}, job : Nat, state : States]

Dialog == [active : BOOLEAN, mode : {"open", "url", "parent"}, status : Statuses, job : Nat,
           owned : BOOLEAN, visible : BOOLEAN, poll : BOOLEAN, made : Nat, pending : Nat]

SlotType ==
    /\ nextJob \in Nat
    /\ starting \in [Dialogs -> 0 .. nextJob]
    /\ cloning \subseteq 1 .. nextJob

QueueType ==
    /\ ui \in [Dialogs -> Dialog]
    /\ toDaemon \in [Dialogs -> Seq(Requests)]
    /\ toDialog \in [Dialogs -> Seq(Answers)]

\* Job ids are never used twice, so an id past the last is nobody's.
JobsKept ==
    /\ DOMAIN jobs \subseteq 1 .. nextJob
    /\ \A j \in DOMAIN jobs : jobs[j] \in States

\* A job is started by one connection, and its clone thread runs only after.
StartsApart ==
    \A c \in Dialogs : starting[c] # 0 =>
        /\ starting[c] \notin cloning
        /\ \A d \in Dialogs \ {c} : starting[d] # starting[c]

\* A connection thread that starts a clone still has the request in its hand.
StartInHand ==
    \A c \in Dialogs : starting[c] # 0 =>
        /\ toDaemon[c] # <<>>
        /\ Asked(c).k = "start"

\* The session never clones two repositories at a time.
OneClone == \A i, j \in Running(jobs) : i = j

\* A dialog that waits for its clone polls.
WaitPolls == \A c \in Dialogs : ui[c].status \in {"starting", "running"} => ui[c].poll

\* A dialog that looks for a running clone has its question, or an answer that
\* settles it, on the way: it may have stopped polling, because it was left.
Discover == [k |-> "status", job |-> 0]
Resolves(m) == m.k \in {"idle", "found"}
DiscoverAsked ==
    \A c \in Dialogs : ui[c].status = "discovering" =>
        \/ Discover \in ToSet(toDaemon[c])
        \/ \E m \in ToSet(toDialog[c]) : Resolves(m)

\* The session's half, the dialogs' half, and both.
SlotKept == SlotType /\ JobsKept /\ StartsApart /\ OneClone /\ SlotTrue
DialogsKept == QueueType /\ StartInHand /\ WaitPolls /\ DiscoverAsked
CloneInv == SlotKept /\ DialogsKept

----------------------------------------------------------------------------
(* Queues of messages *)

LEMMA AppendSet ==
    ASSUME NEW S, NEW s \in Seq(S), NEW m \in S
    PROVE  /\ Append(s, m) \in Seq(S)
           /\ ToSet(Append(s, m)) = ToSet(s) \cup {m}
           /\ s # <<>> => Append(s, m) # <<>> /\ Head(Append(s, m)) = Head(s)
<1> DEFINE t == Append(s, m)
<1>1. t \in Seq(S) /\ Len(t) = Len(s) + 1 /\ DOMAIN s = 1 .. Len(s) /\ DOMAIN t = 1 .. Len(t)
      /\ Len(s) \in Nat
  OBVIOUS
<1>2. \A i \in 1 .. Len(s) : t[i] = s[i]
  OBVIOUS
<1>3. t[Len(s) + 1] = m
  OBVIOUS
<1>4. ToSet(t) \subseteq ToSet(s) \cup {m}
  <2> SUFFICES ASSUME NEW i \in 1 .. Len(t) PROVE t[i] \in ToSet(s) \cup {m}
    BY <1>1 DEF ToSet
  <2>1. i = Len(s) + 1 \/ i \in 1 .. Len(s)
    BY <1>1
  <2> QED BY <2>1, <1>1, <1>2, <1>3 DEF ToSet
<1>5. ToSet(s) \cup {m} \subseteq ToSet(t)
  <2>1. ASSUME NEW i \in 1 .. Len(s) PROVE s[i] \in ToSet(t)
    <3>1. i \in 1 .. Len(t) /\ t[i] = s[i]
      BY <1>1, <1>2
    <3> QED BY <3>1, <1>1 DEF ToSet
  <2>2. Len(s) + 1 \in 1 .. Len(t)
    BY <1>1
  <2>3. m \in ToSet(t)
    BY <2>2, <1>1, <1>3 DEF ToSet
  <2>4. \A x \in ToSet(s) : \E i \in 1 .. Len(s) : x = s[i]
    BY <1>1 DEF ToSet
  <2> QED BY <2>1, <2>3, <2>4
<1>6. s # <<>> => t # <<>> /\ Head(t) = Head(s)
  OBVIOUS
<1> QED BY <1>1, <1>4, <1>5, <1>6

LEMMA TailSet ==
    ASSUME NEW S, NEW s \in Seq(S), s # <<>>
    PROVE  /\ Tail(s) \in Seq(S)
           /\ Head(s) \in S
           /\ ToSet(s) \subseteq ToSet(Tail(s)) \cup {Head(s)}
<1>1. Tail(s) \in Seq(S) /\ Head(s) \in S /\ Len(Tail(s)) = Len(s) - 1 /\ Len(s) \in Nat
      /\ DOMAIN s = 1 .. Len(s) /\ DOMAIN Tail(s) = 1 .. Len(Tail(s)) /\ Head(s) = s[1]
  OBVIOUS
<1>2. \A i \in 1 .. Len(s) - 1 : Tail(s)[i] = s[i + 1]
  OBVIOUS
<1>3. ASSUME NEW i \in 1 .. Len(s) PROVE s[i] \in ToSet(Tail(s)) \cup {Head(s)}
  <2>1. CASE i = 1
    BY <2>1, <1>1
  <2>2. CASE i # 1
    <3>1. i - 1 \in 1 .. Len(s) - 1 /\ (i - 1) + 1 = i
      BY <2>2, <1>1
    <3>2. Tail(s)[i - 1] = s[i]
      BY <3>1, <1>2
    <3> QED BY <3>1, <3>2, <1>1 DEF ToSet
  <2> QED BY <2>1, <2>2
<1>4. \A x \in ToSet(s) : \E i \in 1 .. Len(s) : x = s[i]
  BY <1>1 DEF ToSet
<1> QED BY <1>1, <1>3, <1>4

----------------------------------------------------------------------------
(* What a message or a key makes of a dialog *)

\* A dialog that waits for its clone polls, of one dialog.
Polls(u) == u.status \in {"starting", "running"} => u.poll

LEMMA RejectedFacts ==
    ASSUME NEW u \in Dialog
    PROVE  Rejected(u) \in Dialog /\ Rejected(u).status = "failed"
BY DEF Rejected, Dialog, Statuses, Waiting

LEMMA OpenFacts ==
    ASSUME NEW u \in Dialog, NEW j \in Nat
    PROVE  /\ OpenRequested(u, j) \in Dialog
           /\ OpenRequested(u, j).status = u.status /\ OpenRequested(u, j).poll = u.poll
BY DEF OpenRequested, Dialog, Statuses, Waiting

LEMMA IdleFacts ==
    ASSUME NEW u \in Dialog, Polls(u)
    PROVE  /\ AppliedIdle(u) \in Dialog /\ Polls(AppliedIdle(u))
           /\ AppliedIdle(u).status # "discovering"
BY DEF AppliedIdle, Polls, Dialog, Statuses, Waiting

LEMMA FoundFacts ==
    ASSUME NEW u \in Dialog, NEW m, m.job \in Nat, m.state \in States
    PROVE  /\ AppliedFound(u, m) \in Dialog /\ Polls(AppliedFound(u, m))
           /\ AppliedFound(u, m).status # "discovering"
<1> DEFINE known == [u EXCEPT !.job = m.job]
           done == [known EXCEPT !.status = "done", !.made = m.job, !.poll = FALSE,
                                 !.visible = FALSE]
           shut == [done EXCEPT !.active = FALSE]
<1>1. known \in Dialog
  BY DEF Dialog
<1>2. CASE m.state = "running"
  <2>1. AppliedFound(u, m) = [known EXCEPT !.status = "running", !.poll = TRUE]
    BY <1>2 DEF AppliedFound
  <2> QED BY <1>1, <2>1 DEF Dialog, Statuses, Waiting, Polls
<1>3. CASE m.state = "failed"
  <2>1. AppliedFound(u, m) = Rejected(known)
    BY <1>3 DEF AppliedFound
  <2> QED BY <1>1, <2>1, RejectedFacts DEF Polls
<1>4. CASE m.state = "done"
  <2>1. done \in Dialog /\ done.status = "done"
    BY <1>1 DEF Dialog, Statuses
  <2>2. shut \in Dialog /\ shut.status = "done"
    BY <2>1 DEF Dialog
  <2>3. OpenRequested(shut, m.job) \in Dialog /\ OpenRequested(shut, m.job).status = "done"
    BY <2>2, OpenFacts
  <2>4. AppliedFound(u, m) = IF AutoOpens(u) THEN OpenRequested(shut, m.job) ELSE done
    BY <1>4 DEF AppliedFound
  <2> QED BY <2>1, <2>3, <2>4 DEF Polls
<1> QED BY <1>2, <1>3, <1>4 DEF States

\* The kinds of answer, and what each carries.
LEMMA AnswerFacts ==
    ASSUME NEW m \in Answers
    PROVE  /\ m.k \in {"rejected", "idle", "error", "started", "unknown", "repos", "found"}
           /\ m.k \in {"started", "unknown", "repos", "found"} => m.job \in Nat
           /\ m.k = "found" => m.state \in States
BY DEF Answers

LEMMA AppliedFacts ==
    ASSUME NEW u \in Dialog, NEW m \in Answers, Polls(u)
    PROVE  /\ Applied(u, m) \in Dialog /\ Polls(Applied(u, m))
           /\ Applied(u, m).status = "discovering" => u.status = "discovering" /\ ~Resolves(m)
<1>1. CASE m.k = "idle"
  BY <1>1, IdleFacts DEF Applied
<1>2. CASE m.k = "unknown"
  BY <1>2, RejectedFacts DEF Applied, Polls, Resolves
<1>3. CASE m.k = "found"
  <2>1. Applied(u, m) = AppliedFound(u, m)
    BY <1>3 DEF Applied
  <2> QED BY <1>3, <2>1, AnswerFacts, FoundFacts
<1>4. CASE m.k = "started"
  <2>1. Applied(u, m) = [u EXCEPT !.job = m.job, !.status = "running", !.poll = TRUE]
    BY <1>4 DEF Applied
  <2> QED BY <1>4, <2>1, AnswerFacts DEF Dialog, Statuses, Waiting, Polls
<1>5. CASE m.k = "rejected"
  BY <1>5, RejectedFacts DEF Applied, Polls
<1>6. CASE m.k = "repos"
  <2>1. Consumed(u) \in Dialog /\ Consumed(u).status = "idle"
    BY DEF Consumed, Fresh, Dialog, Statuses
  <2>2. Applied(u, m) = Consumed(u) \/ Applied(u, m) = u
    BY <1>6 DEF Applied
  <2> QED BY <1>6, <2>1, <2>2 DEF Polls, Resolves
<1>7. CASE m.k = "error"
  <2>1. Applied(u, m) = [u EXCEPT !.pending = 0]
    BY <1>7 DEF Applied
  <2> QED BY <1>7, <2>1 DEF Dialog, Polls, Resolves
<1> QED BY <1>1, <1>2, <1>3, <1>4, <1>5, <1>6, <1>7, AnswerFacts

\* A key that makes a dialog discover sends the question.
LEMMA ToggledFacts ==
    ASSUME NEW u \in Dialog, Polls(u)
    PROVE  Toggled(u) \in Dialog /\ Polls(Toggled(u))
<1> DEFINE to == CASE u.mode = "open" /\ u.status = "idle" -> "parent"
                   [] u.mode = "open" /\ u.status # "idle" -> "url"
                   [] u.mode = "url" -> "parent"
                   [] u.mode = "parent" -> "open"
           turned == [u EXCEPT !.mode = to, !.visible = @ /\ u.mode = "open"]
<1>1. to \in {"open", "url", "parent"}
  BY DEF Dialog
<1>2. turned \in Dialog /\ turned.status = u.status /\ turned.poll = u.poll
  BY <1>1 DEF Dialog
<1>3. \/ Toggled(u) = turned
      \/ Toggled(u) = [turned EXCEPT !.status = "discovering", !.poll = TRUE]
  BY DEF Toggled
<1> HIDE DEF turned, to
<1> QED BY <1>2, <1>3 DEF Dialog, Statuses, Waiting, Polls

LEMMA SubmittedFacts ==
    ASSUME NEW u \in Dialog, Polls(u)
    PROVE  Submitted(u) \in Dialog /\ Polls(Submitted(u))
<1>1. CASE u.status = "done"
  <2> DEFINE shut == [u EXCEPT !.active = FALSE, !.visible = FALSE]
  <2>1. shut \in Dialog /\ shut.status = "done" /\ u.made \in Nat
    BY <1>1 DEF Dialog
  <2>2. Submitted(u) = OpenRequested(shut, u.made)
    BY <1>1 DEF Submitted, Waiting
  <2> HIDE DEF shut
  <2> QED BY <2>1, <2>2, OpenFacts DEF Polls
<1>2. CASE u.status \in Waiting
  <2>1. Submitted(u) = u
    BY <1>2 DEF Submitted, Waiting
  <2> QED BY <2>1
<1>3. CASE u.status # "done" /\ u.status \notin Waiting
  <2>1. Submitted(u) = [u EXCEPT !.status = "starting", !.job = 0, !.owned = TRUE,
                                 !.visible = u.active, !.poll = TRUE]
    BY <1>3 DEF Submitted
  <2> DEFINE begun == [u EXCEPT !.status = "starting", !.job = 0, !.owned = TRUE]
  <2>2. begun \in Dialog
    BY DEF Dialog, Statuses, Waiting
  <2>3. Submitted(u) = [begun EXCEPT !.visible = u.active, !.poll = TRUE]
    BY <2>1
  <2>4. u.active \in BOOLEAN
    BY DEF Dialog
  <2> HIDE DEF begun
  <2> QED BY <2>2, <2>3, <2>4 DEF Dialog, Polls
<1> QED BY <1>1, <1>2, <1>3

LEMMA SendsFacts ==
    ASSUME NEW c, NEW old \in Dialog, NEW new \in Dialog
    PROVE  /\ \/ Sends(c, old, new) = <<>>
              \/ \E m \in Requests : Sends(c, old, new) = <<m>>
           /\ old.status # "discovering" /\ new.status = "discovering"
                => Sends(c, old, new) = <<Discover>> \/ old.status = "done"
BY DEF Sends, Requests, Discover, Dialog

----------------------------------------------------------------------------
(* The session's half *)

\* What a job that ends leaves in the table.
LEMMA FinishedFacts ==
    ASSUME JobsKept, NEW j \in DOMAIN jobs, NEW state \in States \ {"running"},
           jobs' = Finished(j, state)
    PROVE  /\ DOMAIN jobs' = DOMAIN jobs
           /\ \A i \in DOMAIN jobs' : jobs'[i] \in States
           /\ Running(jobs') = Running(jobs) \ {j}
<1>1. DOMAIN jobs' = DOMAIN jobs
  BY DEF Finished
<1>2. \A i \in DOMAIN jobs : jobs'[i] = IF i = j THEN state ELSE jobs[i]
  BY DEF Finished
<1> QED BY <1>1, <1>2 DEF JobsKept, Running, States

LEMMA AdmittedFacts ==
    ASSUME JobsKept, NEW n, Running(jobs) = {}, jobs' = Admitted(jobs, n)
    PROVE  /\ DOMAIN jobs' \subseteq DOMAIN jobs \cup {n}
           /\ \A i \in DOMAIN jobs' : jobs'[i] \in States
           /\ Running(jobs') = {n}
<1>1. PICK gone \in SUBSET (DOMAIN jobs \ Running(jobs)) :
         jobs' = [j \in (DOMAIN jobs \ gone) \cup {n} |-> IF j = n THEN "running" ELSE jobs[j]]
  <2> DEFINE finished == DOMAIN jobs \ Running(jobs)
             many == IF Cardinality(DOMAIN jobs) >= Retained
                     THEN Cardinality(DOMAIN jobs) - (Retained \div 2) ELSE 0
             gone == {j \in finished : Cardinality({i \in finished : i =< j}) =< many}
  <2>1. jobs' = [j \in (DOMAIN jobs \ gone) \cup {n} |-> IF j = n THEN "running" ELSE jobs[j]]
    BY Zenon DEF Admitted
  <2>2. gone \in SUBSET (DOMAIN jobs \ Running(jobs))
    OBVIOUS
  <2> HIDE DEF gone
  <2> QED BY <2>1, <2>2
<1>2. DOMAIN jobs' = (DOMAIN jobs \ gone) \cup {n}
  BY <1>1
<1>3. \A i \in DOMAIN jobs' : jobs'[i] = IF i = n THEN "running" ELSE jobs[i]
  BY <1>1
<1>4. \A i \in DOMAIN jobs : jobs[i] # "running"
  BY DEF Running
<1> QED BY <1>2, <1>3, <1>4 DEF JobsKept, Running, States

\* Every job in somebody's hand is a running one of the table.
LEMMA SlotHolds ==
    ASSUME SlotKept
    PROVE  /\ \A c \in Dialogs : starting[c] # 0 => starting[c] \in Running(jobs)
           /\ cloning \subseteq Running(jobs)
           /\ Running(jobs) \subseteq DOMAIN jobs
BY DEF SlotKept, SlotType, SlotTrue, Running

LEMMA StartKeepsSlot == ASSUME SlotKept, NEW c \in Dialogs, StartClone(c) PROVE SlotKept'
<1>1. CASE Running(jobs) # {}
  <2>1. UNCHANGED <<jobs, nextJob, starting, cloning>>
    BY <1>1 DEF StartClone
  <2> QED BY <2>1 DEF SlotKept, SlotType, JobsKept, StartsApart, OneClone, SlotTrue
<1>2. CASE Running(jobs) = {}
  <2>1. /\ nextJob' = nextJob + 1 /\ jobs' = Admitted(jobs, nextJob')
        /\ starting' = [starting EXCEPT ![c] = nextJob'] /\ cloning' = cloning
    BY <1>2 DEF StartClone
  <2>2. /\ DOMAIN jobs' \subseteq DOMAIN jobs \cup {nextJob'}
        /\ \A i \in DOMAIN jobs' : jobs'[i] \in States
        /\ Running(jobs') = {nextJob'}
    BY <1>2, <2>1, AdmittedFacts DEF SlotKept
  <2>3. nextJob' \in Nat /\ nextJob' # 0 /\ \A i \in 0 .. nextJob : i \in 0 .. nextJob' /\ i # nextJob'
    BY <2>1 DEF SlotKept, SlotType
  <2>4. \A d \in Dialogs : starting[d] = 0
    BY <1>2, SlotHolds
  <2>5. cloning = {}
    BY <1>2, SlotHolds
  <2>6. \A d \in Dialogs : starting'[d] = IF d = c THEN nextJob' ELSE 0
    BY <2>1, <2>4 DEF SlotKept, SlotType
  <2>7. SlotType'
    BY <2>1, <2>3, <2>5 DEF SlotKept, SlotType
  <2>8. JobsKept'
    BY <2>1, <2>2, <2>3 DEF SlotKept, SlotType, JobsKept
  <2>9. StartsApart' /\ OneClone'
    BY <2>1, <2>2, <2>3, <2>5, <2>6 DEF StartsApart, OneClone
  <2>10. {starting'[d] : d \in Dialogs} \ {0} = {nextJob'}
    BY <2>3, <2>6
  <2>11. SlotTrue'
    BY <2>1, <2>2, <2>3, <2>5, <2>10 DEF SlotTrue
  <2> QED BY <2>7, <2>8, <2>9, <2>11 DEF SlotKept
<1> QED BY <1>1, <1>2

\* The end of a start is told apart by what becomes of its job.
LEMMA StartEndsKeepsSlot ==
    ASSUME SlotKept, NEW c \in Dialogs, StartFails(c) \/ StartSucceeds(c) PROVE SlotKept'
<1> DEFINE s == starting[c]
<1>1. /\ s # 0 /\ s \in Running(jobs) /\ s \in DOMAIN jobs /\ s \in 0 .. nextJob
      /\ s \notin cloning
      /\ starting' = [starting EXCEPT ![c] = 0] /\ nextJob' = nextJob
  BY SlotHolds DEF StartFails, StartSucceeds, SlotKept, SlotType, StartsApart
<1>2. \A d \in Dialogs : starting'[d] = IF d = c THEN 0 ELSE starting[d]
  BY <1>1 DEF SlotKept, SlotType
<1>3. {starting'[d] : d \in Dialogs} \ {0} = ({starting[d] : d \in Dialogs} \ {0}) \ {s}
  BY <1>1, <1>2 DEF SlotKept, StartsApart
<1>4. starting' \in [Dialogs -> 0 .. nextJob']
  BY <1>1 DEF SlotKept, SlotType
<1>5. CASE StartFails(c)
  <2>1. jobs' = Finished(s, "failed") /\ cloning' = cloning
    BY <1>5 DEF StartFails, AbandonStart
  <2>2. /\ DOMAIN jobs' = DOMAIN jobs /\ \A i \in DOMAIN jobs' : jobs'[i] \in States
        /\ Running(jobs') = Running(jobs) \ {s}
    BY <1>1, <2>1, FinishedFacts DEF SlotKept, States
  <2>3. SlotType' /\ JobsKept'
    BY <1>1, <1>4, <2>1, <2>2 DEF SlotKept, SlotType, JobsKept
  <2>4. StartsApart' /\ OneClone'
    BY <1>2, <2>1, <2>2 DEF SlotKept, StartsApart, OneClone
  <2>5. SlotTrue'
    BY <1>1, <1>3, <2>1, <2>2 DEF SlotKept, SlotTrue
  <2> QED BY <2>3, <2>4, <2>5 DEF SlotKept
<1>6. CASE StartSucceeds(c)
  <2>1. cloning' = cloning \cup {s} /\ jobs' = jobs
    BY <1>6 DEF StartSucceeds
  <2>2. SlotType' /\ JobsKept'
    BY <1>1, <1>4, <2>1 DEF SlotKept, SlotType, JobsKept
  <2>3. StartsApart' /\ OneClone'
    BY <1>1, <1>2, <2>1 DEF SlotKept, StartsApart, OneClone
  <2>4. SlotTrue'
    BY <1>1, <1>3, <2>1 DEF SlotKept, SlotTrue
  <2> QED BY <2>2, <2>3, <2>4 DEF SlotKept
<1> QED BY <1>5, <1>6

LEMMA CloneEndsKeepsSlot == ASSUME SlotKept, NEW j \in cloning, CloneEnds(j) PROVE SlotKept'
<1>1. PICK state \in {"done", "failed"} : jobs' = Finished(j, state)
  BY DEF CloneEnds
<1>2. cloning' = cloning \ {j} /\ UNCHANGED <<nextJob, starting>> /\ j \in DOMAIN jobs
      /\ j # 0
  BY SlotHolds DEF CloneEnds, SlotKept, SlotType
<1>3. /\ DOMAIN jobs' = DOMAIN jobs /\ \A i \in DOMAIN jobs' : jobs'[i] \in States
      /\ Running(jobs') = Running(jobs) \ {j}
  BY <1>1, <1>2, FinishedFacts DEF SlotKept, States
<1>4. \A d \in Dialogs : starting[d] # j
  BY <1>2 DEF SlotKept, StartsApart
<1>5. SlotType' /\ JobsKept' /\ StartsApart' /\ OneClone'
  BY <1>2, <1>3 DEF SlotKept, SlotType, JobsKept, StartsApart, OneClone
<1>6. SlotTrue'
  BY <1>2, <1>3, <1>4 DEF SlotKept, SlotTrue
<1> QED BY <1>5, <1>6 DEF SlotKept

----------------------------------------------------------------------------
(* The dialogs' half *)

\* A request in the connection's hand is answered: a question is settled.
LEMMA AnswerKeeps ==
    ASSUME DialogsKept, NEW c \in Dialogs, NEW m \in Answers,
           toDaemon[c] # <<>>, Asked(c) = Discover => Resolves(m),
           Answer(c, m), Handled(c), ui' = ui, starting'[c] = 0,
           \A d \in Dialogs \ {c} : starting'[d] = starting[d]
    PROVE  DialogsKept'
<1>1. /\ toDaemon[c] \in Seq(Requests) /\ toDialog[c] \in Seq(Answers)
  BY DEF DialogsKept, QueueType
<1>2. /\ Tail(toDaemon[c]) \in Seq(Requests)
      /\ ToSet(toDaemon[c]) \subseteq ToSet(Tail(toDaemon[c])) \cup {Asked(c)}
  BY <1>1, TailSet DEF Asked
<1>3. /\ Append(toDialog[c], m) \in Seq(Answers)
      /\ ToSet(Append(toDialog[c], m)) = ToSet(toDialog[c]) \cup {m}
  BY <1>1, AppendSet
<1>4. /\ toDaemon' = [toDaemon EXCEPT ![c] = Tail(toDaemon[c])]
      /\ toDialog' = [toDialog EXCEPT ![c] = Append(toDialog[c], m)]
  BY DEF Answer, Handled
<1>5. /\ toDaemon'[c] = Tail(toDaemon[c]) /\ toDialog'[c] = Append(toDialog[c], m)
      /\ \A d \in Dialogs \ {c} : toDaemon'[d] = toDaemon[d] /\ toDialog'[d] = toDialog[d]
  BY <1>4 DEF DialogsKept, QueueType
<1>6. QueueType'
  BY <1>2, <1>3, <1>4 DEF DialogsKept, QueueType
<1>7. StartInHand' /\ WaitPolls'
  BY <1>5 DEF DialogsKept, StartInHand, WaitPolls, Asked
<1>8. DiscoverAsked'
  <2> SUFFICES ASSUME NEW d \in Dialogs, ui[d].status = "discovering"
               PROVE  \/ Discover \in ToSet(toDaemon'[d])
                      \/ \E a \in ToSet(toDialog'[d]) : Resolves(a)
    BY DEF DiscoverAsked
  <2>1. \/ Discover \in ToSet(toDaemon[d])
        \/ \E a \in ToSet(toDialog[d]) : Resolves(a)
    BY DEF DialogsKept, DiscoverAsked
  <2>2. CASE d = c
    BY <1>2, <1>3, <1>5, <2>1, <2>2
  <2>3. CASE d # c
    BY <1>5, <2>1, <2>3
  <2> QED BY <2>2, <2>3
<1> QED BY <1>6, <1>7, <1>8 DEF DialogsKept

\* A lookup for whatever runs finds it or finds nothing.
LEMMA LookupFacts ==
    ASSUME SlotKept, NEW job \in Nat
    PROVE  Lookup(job) \in Answers /\ (job = 0 => Resolves(Lookup(job)))
<1>1. CASE job # 0 /\ job \in DOMAIN jobs
  <2>1. Lookup(job) = [k |-> "found", job |-> job, state |-> jobs[job]]
    BY <1>1 DEF Lookup
  <2>2. jobs[job] \in States
    BY <1>1 DEF SlotKept, JobsKept
  <2> QED BY <1>1, <2>1, <2>2 DEF Answers
<1>2. CASE job # 0 /\ job \notin DOMAIN jobs
  <2>1. Lookup(job) = [k |-> "unknown", job |-> job]
    BY <1>2 DEF Lookup
  <2> QED BY <1>2, <2>1 DEF Answers
<1>3. CASE job = 0 /\ Running(jobs) # {}
  <2> DEFINE r == CHOOSE j \in Running(jobs) : TRUE
  <2>1. r \in Running(jobs)
    BY <1>3
  <2>2. r \in Nat
    BY <2>1 DEF SlotKept, SlotType, JobsKept, Running
  <2>3. Lookup(job) = [k |-> "found", job |-> r, state |-> "running"]
    BY <1>3 DEF Lookup
  <2> HIDE DEF r
  <2> QED BY <2>2, <2>3 DEF Answers, States, Resolves
<1>4. CASE job = 0 /\ Running(jobs) = {}
  <2>1. Lookup(job) = [k |-> "idle"]
    BY <1>4 DEF Lookup
  <2> QED BY <2>1 DEF Answers, Resolves
<1> QED BY <1>1, <1>2, <1>3, <1>4

LEMMA StartKeepsDialogs == ASSUME CloneInv, NEW c \in Dialogs, StartClone(c) PROVE DialogsKept'
<1>1. CASE Running(jobs) # {}
  <2>1. [k |-> "rejected"] \in Answers
    BY DEF Answers
  <2>2. /\ toDaemon[c] # <<>> /\ Asked(c) # Discover /\ Answer(c, [k |-> "rejected"]) /\ Handled(c)
        /\ ui' = ui /\ starting'[c] = 0 /\ starting' = starting
    BY <1>1 DEF StartClone, Discover
  <2> QED BY <2>1, <2>2, AnswerKeeps DEF CloneInv
<1>2. CASE Running(jobs) = {}
  <2>1. /\ UNCHANGED <<ui, toDaemon, toDialog>> /\ toDaemon[c] # <<>> /\ Asked(c).k = "start"
        /\ \A d \in Dialogs \ {c} : starting'[d] = starting[d]
    BY <1>2 DEF StartClone, CloneInv, SlotKept, SlotType
  <2> QED BY <2>1 DEF CloneInv, DialogsKept, QueueType, StartInHand, WaitPolls, DiscoverAsked, Asked
<1> QED BY <1>1, <1>2

LEMMA StartEndsKeepsDialogs ==
    ASSUME CloneInv, NEW c \in Dialogs, StartFails(c) \/ StartSucceeds(c) PROVE DialogsKept'
<1>1. PICK m \in Answers : Answer(c, m)
  <2>1. [k |-> "rejected"] \in Answers
    BY DEF Answers
  <2>2. [k |-> "started", job |-> starting[c]] \in Answers
    BY DEF Answers, CloneInv, SlotKept, SlotType
  <2> QED BY <2>1, <2>2 DEF StartFails, StartSucceeds
<1>2. /\ starting[c] # 0 /\ starting' = [starting EXCEPT ![c] = 0] /\ ui' = ui /\ Handled(c)
  BY DEF StartFails, StartSucceeds
<1>3. toDaemon[c] # <<>> /\ Asked(c) # Discover
  BY <1>2 DEF CloneInv, DialogsKept, StartInHand, Discover
<1>4. starting'[c] = 0 /\ \A d \in Dialogs \ {c} : starting'[d] = starting[d]
  BY <1>2 DEF CloneInv, SlotKept, SlotType
<1> QED BY <1>1, <1>2, <1>3, <1>4, AnswerKeeps DEF CloneInv

LEMMA RequestsKeepDialogs ==
    ASSUME CloneInv, NEW c \in Dialogs, AnswerStatus(c) \/ AnswerOpen(c) PROVE DialogsKept'
<1>1. /\ starting' = starting /\ starting[c] = 0 /\ ui' = ui /\ Handled(c) /\ toDaemon[c] # <<>>
  BY DEF AnswerStatus, AnswerOpen
<1>2. Asked(c) \in Requests /\ Asked(c).k \in {"status", "open"}
  BY <1>1, TailSet DEF AnswerStatus, AnswerOpen, CloneInv, DialogsKept, QueueType, Asked
<1>3. Asked(c).job \in Nat
  BY <1>2 DEF Requests
<1>4. CASE AnswerStatus(c)
  <2>1. Lookup(Asked(c).job) \in Answers /\ (Asked(c).job = 0 => Resolves(Lookup(Asked(c).job)))
    BY <1>3, LookupFacts DEF CloneInv
  <2>2. Answer(c, Lookup(Asked(c).job))
    BY <1>4 DEF AnswerStatus
  <2>3. Asked(c) = Discover => Resolves(Lookup(Asked(c).job))
    BY <2>1 DEF Discover
  <2> QED BY <1>1, <2>1, <2>2, <2>3, AnswerKeeps DEF CloneInv
<1>5. CASE AnswerOpen(c)
  <2>1. PICK ok \in BOOLEAN :
           Answer(c, IF ok THEN [k |-> "repos", job |-> Asked(c).job] ELSE [k |-> "error"])
    BY <1>5 DEF AnswerOpen
  <2>2. [k |-> "repos", job |-> Asked(c).job] \in Answers /\ [k |-> "error"] \in Answers
    BY <1>3 DEF Answers
  <2>3. PICK m \in Answers : Answer(c, m)
    BY <2>1, <2>2
  <2>4. Asked(c) # Discover
    BY <1>5 DEF AnswerOpen, Discover
  <2> QED BY <1>1, <2>3, <2>4, AnswerKeeps DEF CloneInv
<1> QED BY <1>4, <1>5

\* A step of one dialog: it is left in order, its requests only grow at the
\* end, and if it discovers, its question or an answer is on the way.
LEMMA DialogKeeps ==
    ASSUME DialogsKept, NEW c \in Dialogs, NEW u \in Dialog, Polls(u),
           ui' = [ui EXCEPT ![c] = u], starting' = starting,
           NEW out \in Seq(Requests), NEW in \in Seq(Answers),
           toDaemon' = [toDaemon EXCEPT ![c] = out], toDialog' = [toDialog EXCEPT ![c] = in],
           toDaemon[c] # <<>> => out # <<>> /\ Head(out) = Head(toDaemon[c]),
           u.status = "discovering" => \/ Discover \in ToSet(out)
                                       \/ \E m \in ToSet(in) : Resolves(m)
    PROVE  DialogsKept'
<1>1. QueueType'
  BY DEF DialogsKept, QueueType
<1>2. /\ ui'[c] = u /\ toDaemon'[c] = out /\ toDialog'[c] = in
      /\ \A d \in Dialogs \ {c} :
            ui'[d] = ui[d] /\ toDaemon'[d] = toDaemon[d] /\ toDialog'[d] = toDialog[d]
  BY DEF DialogsKept, QueueType
<1>3. StartInHand'
  BY <1>2 DEF DialogsKept, StartInHand, Asked
<1>4. WaitPolls'
  BY <1>2 DEF DialogsKept, WaitPolls, Polls
<1>5. DiscoverAsked'
  BY <1>2 DEF DialogsKept, DiscoverAsked
<1> QED BY <1>1, <1>3, <1>4, <1>5 DEF DialogsKept

LEMMA SyncKeeps == ASSUME CloneInv, NEW c \in Dialogs, SyncDialog(c) PROVE DialogsKept'
<1> DEFINE m == Head(toDialog[c])
           u == Applied(ui[c], m)
           in == Tail(toDialog[c])
           open == [k |-> "open", job |-> m.job]
<1>1. /\ toDialog[c] \in Seq(Answers) /\ toDaemon[c] \in Seq(Requests) /\ ui[c] \in Dialog
      /\ Polls(ui[c]) /\ toDialog[c] # <<>>
  BY DEF CloneInv, DialogsKept, QueueType, WaitPolls, Polls, SyncDialog
<1>2. /\ in \in Seq(Answers) /\ m \in Answers /\ ToSet(toDialog[c]) \subseteq ToSet(in) \cup {m}
  BY <1>1, TailSet
<1>3. /\ u \in Dialog /\ Polls(u)
      /\ u.status = "discovering" => ui[c].status = "discovering" /\ ~Resolves(m)
  BY <1>1, <1>2, AppliedFacts
<1>4. PICK out \in Seq(Requests) :
         /\ toDaemon' = [toDaemon EXCEPT ![c] = out] /\ ToSet(toDaemon[c]) \subseteq ToSet(out)
         /\ toDaemon[c] # <<>> => out # <<>> /\ Head(out) = Head(toDaemon[c])
  <2>1. CASE m.k = "found" /\ m.state = "done" /\ AutoOpens(ui[c])
    <3>1. toDaemon' = [toDaemon EXCEPT ![c] = Append(toDaemon[c], open)]
      BY <2>1 DEF SyncDialog
    <3>2. open \in Requests
      BY <1>2, <2>1, AnswerFacts DEF Requests
    <3> HIDE DEF open
    <3> QED BY <1>1, <3>1, <3>2, AppendSet
  <2>2. CASE ~(m.k = "found" /\ m.state = "done" /\ AutoOpens(ui[c]))
    <3>1. toDaemon' = toDaemon
      BY <2>2 DEF SyncDialog
    <3>2. toDaemon' = [toDaemon EXCEPT ![c] = toDaemon[c]]
      BY <3>1 DEF CloneInv, DialogsKept, QueueType
    <3> QED BY <1>1, <3>2
  <2> QED BY <2>1, <2>2
<1>5. /\ ui' = [ui EXCEPT ![c] = u] /\ toDialog' = [toDialog EXCEPT ![c] = in] /\ starting' = starting
  BY DEF SyncDialog
<1>6. u.status = "discovering" => \/ Discover \in ToSet(out)
                                  \/ \E a \in ToSet(in) : Resolves(a)
  BY <1>2, <1>3, <1>4 DEF CloneInv, DialogsKept, DiscoverAsked
<1> HIDE DEF u, in, m
<1> QED BY <1>2, <1>3, <1>4, <1>5, <1>6, DialogKeeps DEF CloneInv

LEMMA PollKeeps == ASSUME CloneInv, NEW c \in Dialogs, PollClone(c) PROVE DialogsKept'
<1>1. /\ toDialog[c] \in Seq(Answers) /\ toDaemon[c] \in Seq(Requests) /\ ui[c] \in Dialog
      /\ Polls(ui[c])
  BY DEF CloneInv, DialogsKept, QueueType, WaitPolls, Polls
<1>2. /\ toDialog' = [toDialog EXCEPT ![c] = toDialog[c]] /\ starting' = starting
  BY DEF PollClone, CloneInv, DialogsKept, QueueType
<1>3. ui[c].status = "discovering" => \/ Discover \in ToSet(toDaemon[c])
                                      \/ \E m \in ToSet(toDialog[c]) : Resolves(m)
  BY DEF CloneInv, DialogsKept, DiscoverAsked
<1>4. CASE ui[c].status \in {"starting", "running"} \/ (ui[c].active /\ ui[c].status = "discovering")
  <2> DEFINE ask == [k |-> "status", job |-> ui[c].job]
             out == Append(toDaemon[c], ask)
  <2>1. ask \in Requests
    BY <1>1 DEF Requests, Dialog
  <2>2. /\ toDaemon' = [toDaemon EXCEPT ![c] = out] /\ ui' = [ui EXCEPT ![c] = ui[c]]
    BY <1>4 DEF PollClone, CloneInv, DialogsKept, QueueType
  <2> HIDE DEF ask
  <2>3. /\ out \in Seq(Requests) /\ ToSet(toDaemon[c]) \subseteq ToSet(out)
        /\ toDaemon[c] # <<>> => out # <<>> /\ Head(out) = Head(toDaemon[c])
    BY <1>1, <2>1, AppendSet
  <2> HIDE DEF out
  <2> QED BY <1>1, <1>2, <1>3, <2>2, <2>3, DialogKeeps DEF CloneInv
<1>5. CASE ~(ui[c].status \in {"starting", "running"} \/ (ui[c].active /\ ui[c].status = "discovering"))
  <2> DEFINE u == [ui[c] EXCEPT !.poll = FALSE]
  <2>1. /\ toDaemon' = [toDaemon EXCEPT ![c] = toDaemon[c]] /\ ui' = [ui EXCEPT ![c] = u]
    BY <1>5 DEF PollClone, CloneInv, DialogsKept, QueueType
  <2>2. u \in Dialog /\ u.status = ui[c].status /\ Polls(u)
    BY <1>1, <1>5 DEF Dialog, Polls
  <2> HIDE DEF u
  <2> QED BY <1>1, <1>2, <1>3, <2>1, <2>2, DialogKeeps DEF CloneInv
<1> QED BY <1>4, <1>5

\* What a key makes of a dialog; only switching halves makes it discover, from idle.
LEMMA PressFacts ==
    ASSUME NEW u \in Dialog, Polls(u), NEW new,
           \/ new = [u EXCEPT !.active = TRUE, !.mode = "open", !.visible = FALSE]
           \/ new = [u EXCEPT !.active = FALSE, !.visible = FALSE]
           \/ new = Toggled(u) \/ new = [u EXCEPT !.mode = "url"] \/ new = Submitted(u)
           \/ new = [u EXCEPT !.status = IF @ \in {"failed", "unconfirmed"} THEN "idle" ELSE @]
    PROVE  /\ new \in Dialog /\ Polls(new)
           /\ new.status = "discovering" => u.status \in {"discovering", "idle"}
<1>1. CASE new = [u EXCEPT !.active = TRUE, !.mode = "open", !.visible = FALSE]
  BY <1>1 DEF Dialog, Polls
<1>2. CASE new = [u EXCEPT !.active = FALSE, !.visible = FALSE]
  BY <1>2 DEF Dialog, Polls
<1>3. CASE new = Toggled(u)
  <2>1. new \in Dialog /\ Polls(new)
    BY <1>3, ToggledFacts
  <2>2. u.status # "idle" => new.status = u.status
    <3> DEFINE to == CASE u.mode = "open" /\ u.status = "idle" -> "parent"
                       [] u.mode = "open" /\ u.status # "idle" -> "url"
                       [] u.mode = "url" -> "parent"
                       [] u.mode = "parent" -> "open"
               turned == [u EXCEPT !.mode = to, !.visible = @ /\ u.mode = "open"]
    <3>1. turned.status = u.status
      BY DEF Dialog
    <3>2. u.status # "idle" => new = turned
      BY <1>3 DEF Toggled
    <3> QED BY <3>1, <3>2
  <2> QED BY <2>1, <2>2
<1>4. CASE new = [u EXCEPT !.mode = "url"]
  BY <1>4 DEF Dialog, Polls
<1>5. CASE new = Submitted(u)
  <2>1. new \in Dialog /\ Polls(new)
    BY <1>5, SubmittedFacts
  <2>2. CASE u.status = "done"
    <3> DEFINE shut == [u EXCEPT !.active = FALSE, !.visible = FALSE]
    <3>1. shut \in Dialog /\ shut.status = "done" /\ u.made \in Nat
      BY <2>2 DEF Dialog
    <3>2. new = OpenRequested(shut, u.made)
      BY <1>5, <2>2 DEF Submitted, Waiting
    <3> HIDE DEF shut
    <3> QED BY <2>1, <3>1, <3>2, OpenFacts
  <2>3. CASE u.status \in Waiting
    <3>1. new = u
      BY <1>5, <2>3 DEF Submitted, Waiting
    <3> QED BY <2>1, <3>1
  <2>4. CASE u.status # "done" /\ u.status \notin Waiting
    <3>1. new = [u EXCEPT !.status = "starting", !.job = 0, !.owned = TRUE,
                          !.visible = u.active, !.poll = TRUE]
      BY <1>5, <2>4 DEF Submitted
    <3>2. new.status = "starting"
      BY <3>1 DEF Dialog
    <3> QED BY <2>1, <3>2
  <2> QED BY <2>2, <2>3, <2>4
<1>6. CASE new = [u EXCEPT !.status = IF @ \in {"failed", "unconfirmed"} THEN "idle" ELSE @]
  BY <1>6 DEF Dialog, Polls, Statuses
<1> QED BY <1>1, <1>2, <1>3, <1>4, <1>5, <1>6

LEMMA PressKeeps == ASSUME CloneInv, NEW c \in Dialogs, PressDialog(c) PROVE DialogsKept'
<1> DEFINE u == ui[c]
<1>1. /\ toDialog[c] \in Seq(Answers) /\ toDaemon[c] \in Seq(Requests) /\ u \in Dialog /\ Polls(u)
  BY DEF CloneInv, DialogsKept, QueueType, WaitPolls, Polls
<1>2. /\ toDialog' = [toDialog EXCEPT ![c] = toDialog[c]] /\ starting' = starting
  BY DEF PressDialog, CloneInv, DialogsKept, QueueType
<1>3. PICK new : /\ ui' = [ui EXCEPT ![c] = new]
                 /\ toDaemon' = [toDaemon EXCEPT ![c] = @ \o Sends(c, u, new)]
                 /\ \/ new = [u EXCEPT !.active = TRUE, !.mode = "open", !.visible = FALSE]
                    \/ new = [u EXCEPT !.active = FALSE, !.visible = FALSE]
                    \/ new = Toggled(u) \/ new = [u EXCEPT !.mode = "url"] \/ new = Submitted(u)
                    \/ new = [u EXCEPT !.status = IF @ \in {"failed", "unconfirmed"}
                                                  THEN "idle" ELSE @]
  BY Zenon DEF PressDialog
<1>4. /\ new \in Dialog /\ Polls(new)
      /\ new.status = "discovering" => u.status \in {"discovering", "idle"}
  BY <1>1, <1>3, PressFacts
<1> DEFINE more == Sends(c, u, new)
           out == toDaemon[c] \o more
<1>5. /\ more = <<>> \/ \E m \in Requests : more = <<m>>
      /\ u.status = "idle" /\ new.status = "discovering" => more = <<Discover>>
  BY <1>1, <1>4, SendsFacts
<1>6. toDaemon' = [toDaemon EXCEPT ![c] = out]
  BY <1>3
<1> HIDE DEF more
<1>7. /\ out \in Seq(Requests) /\ ToSet(toDaemon[c]) \subseteq ToSet(out)
      /\ more = <<Discover>> => Discover \in ToSet(out)
      /\ toDaemon[c] # <<>> => out # <<>> /\ Head(out) = Head(toDaemon[c])
  <2>1. CASE more = <<>>
    <3>1. out = toDaemon[c]
      BY <1>1, <2>1
    <3> HIDE DEF out
    <3> QED BY <1>1, <2>1, <3>1
  <2>2. CASE \E m \in Requests : more = <<m>>
    <3>1. PICK m \in Requests : more = <<m>>
      BY <2>2
    <3>2. out = Append(toDaemon[c], m)
      BY <1>1, <3>1
    <3>3. more = <<Discover>> => m = Discover
      BY <3>1
    <3> HIDE DEF out
    <3> QED BY <1>1, <3>1, <3>2, <3>3, AppendSet
  <2> QED BY <1>5, <2>1, <2>2
<1>8. new.status = "discovering" => \/ Discover \in ToSet(out)
                                    \/ \E m \in ToSet(toDialog[c]) : Resolves(m)
  <2>1. u.status = "discovering" => \/ Discover \in ToSet(toDaemon[c])
                                    \/ \E m \in ToSet(toDialog[c]) : Resolves(m)
    BY DEF CloneInv, DialogsKept, DiscoverAsked
  <2> HIDE DEF out, u
  <2> QED BY <1>4, <1>5, <1>7, <2>1
<1> HIDE DEF out
<1> QED BY <1>1, <1>2, <1>3, <1>4, <1>6, <1>7, <1>8, DialogKeeps DEF CloneInv

----------------------------------------------------------------------------
(* The theorems *)

LEMMA InitCloneInv == CLInit => CloneInv
<1> SUFFICES ASSUME CLInit PROVE CloneInv
  OBVIOUS
<1>1. Fresh \in Dialog /\ Fresh.status = "idle"
  BY DEF Fresh, Dialog, Statuses
<1>2. <<>> \in Seq(Requests) /\ <<>> \in Seq(Answers)
  OBVIOUS
<1>3. DialogsKept
  BY <1>1, <1>2 DEF CLInit, DialogsKept, QueueType, StartInHand, WaitPolls, DiscoverAsked
<1>4. DOMAIN jobs = {} /\ Running(jobs) = {}
  BY DEF CLInit, Running
<1>5. SlotKept
  BY <1>4 DEF CLInit, SlotKept, SlotType, JobsKept, StartsApart, OneClone, SlotTrue
<1> QED BY <1>3, <1>5 DEF CloneInv

LEMMA CloneNextKeeps == CloneInv /\ [CLNext]_clvars => CloneInv'
<1> SUFFICES ASSUME CloneInv, [CLNext]_clvars PROVE CloneInv'
  OBVIOUS
<1>1. CASE \E j \in cloning : CloneEnds(j)
  <2>1. PICK j \in cloning : CloneEnds(j)
    BY <1>1
  <2>2. SlotKept'
    BY <2>1, CloneEndsKeepsSlot DEF CloneInv
  <2>3. DialogsKept'
    BY <2>1 DEF CloneInv, CloneEnds, DialogsKept, QueueType, StartInHand, WaitPolls,
                DiscoverAsked, Asked
  <2> QED BY <2>2, <2>3 DEF CloneInv
<1>2. ASSUME NEW c \in Dialogs, StartClone(c) PROVE CloneInv'
  BY <1>2, StartKeepsSlot, StartKeepsDialogs DEF CloneInv
<1>3. ASSUME NEW c \in Dialogs, StartFails(c) \/ StartSucceeds(c) PROVE CloneInv'
  BY <1>3, StartEndsKeepsSlot, StartEndsKeepsDialogs DEF CloneInv
<1>4. ASSUME UNCHANGED <<jobs, nextJob, starting, cloning>> PROVE SlotKept'
  BY <1>4 DEF CloneInv, SlotKept, SlotType, JobsKept, StartsApart, OneClone, SlotTrue
<1>5. ASSUME NEW c \in Dialogs, AnswerStatus(c) \/ AnswerOpen(c) PROVE CloneInv'
  BY <1>4, <1>5, RequestsKeepDialogs DEF AnswerStatus, AnswerOpen, CloneInv
<1>6. ASSUME NEW c \in Dialogs, SyncDialog(c) PROVE CloneInv'
  BY <1>4, <1>6, SyncKeeps DEF SyncDialog, CloneInv
<1>7. ASSUME NEW c \in Dialogs, PollClone(c) PROVE CloneInv'
  BY <1>4, <1>7, PollKeeps DEF PollClone, CloneInv
<1>8. ASSUME NEW c \in Dialogs, PressDialog(c) PROVE CloneInv'
  BY <1>4, <1>8, PressKeeps DEF PressDialog, CloneInv
<1>9. CASE UNCHANGED clvars
  <2>1. DialogsKept'
    BY <1>9 DEF clvars, CloneInv, DialogsKept, QueueType, StartInHand, WaitPolls, DiscoverAsked, Asked
  <2> QED BY <1>4, <1>9, <2>1 DEF clvars, CloneInv
<1> QED BY <1>1, <1>2, <1>3, <1>5, <1>6, <1>7, <1>8, <1>9 DEF CLNext

\* The session never clones two repositories at a time, every job id is used
\* once, and a waiting dialog polls or has its answer on the way
\* (clone.rs, clone_dialog.rs, clone_status.rs).
THEOREM CloneInductive == CLSpec => []CloneInv
BY InitCloneInv, CloneNextKeeps, PTL DEF CLSpec

\* The slot is taken exactly while a clone is started or runs, and no dialog
\* keeps waiting once nothing is on its way (clone.rs, clone_status.rs).
THEOREM CloneIsRight == CLSpec => []CloneRight
<1>1. ASSUME CloneInv PROVE CloneRight
  <2>1. SlotTrue
    BY <1>1 DEF CloneInv, SlotKept
  <2>2. ToSet(<<>>) = {}
    BY DEF ToSet
  <2>3. DialogSettles
    BY <1>1, <2>2 DEF CloneInv, DialogsKept, WaitPolls, DiscoverAsked, DialogSettles, Waiting
  <2> QED BY <2>1, <2>3 DEF CloneRight
<1> QED BY <1>1, CloneInductive, PTL

----------------------------------------------------------------------------
(* Login tokens *)

----------------------------------------------------------------------------
(* The inductive invariant *)

Login == [value : 1 .. MaxLogins, expiry : Nat]

Thread == [pc : {"idle", "lock", "snapshot"}, gone : SUBSET (1 .. MaxLogins)]
          \cup [pc : {"write"}, gone : SUBSET (1 .. MaxLogins), data : Seq(Login)]

LoginType ==
    /\ ttl \in Lifetimes /\ loginClock \in Nat /\ minted \in 0 .. MaxLogins
    /\ lgThread \in [LoginThreads -> Thread]
    /\ due \in [1 .. MaxLogins -> Nat]
    /\ dead \subseteq 1 .. minted
    /\ tokens \in Seq(Login) /\ disk \in Seq(Login)

\* A list within the cap whose tokens were handed out, are not repeated with
\* another deadline, respect every deadline set for them and are not dead.
Sound(list) ==
    /\ Len(list) =< MaxSessions
    /\ \A x, y \in ToSet(list) : x.value = y.value => x = y
    /\ \A x \in ToSet(list) : /\ x.value =< minted
                              /\ x.value \notin dead
                              /\ x.expiry =< due[x.value]

\* The snapshot a thread is about to write is as sound as the lists.
ListsSound ==
    /\ Sound(tokens) /\ Sound(disk)
    /\ \A t \in LoginThreads : lgThread[t].pc = "write" => Sound(lgThread[t].data)

\* The write lock is with the one thread between its snapshot and its write.
LockHeld == \A t \in LoginThreads : lgThread[t].pc \in {"snapshot", "write"} => lgWriter = t

\* What a request removed was handed out. It is out of the list, or expired and
\* so out of the next snapshot; once the snapshot is taken it is in neither.
GoneStays ==
    \A t \in LoginThreads :
        /\ \A v \in lgThread[t].gone : v =< minted
        /\ \A x \in ToSet(tokens) : x.value \in lgThread[t].gone => x.expiry =< loginClock
        /\ lgThread[t].pc = "write" =>
             \A x \in ToSet(tokens) \cup ToSet(lgThread[t].data) : x.value \notin lgThread[t].gone

TokensInv == LoginType /\ ListsSound /\ LockHeld /\ GoneStays

----------------------------------------------------------------------------
(* Lists *)

Total(R, S) ==
    /\ \A i, j \in S : <<i, j>> \in R \/ <<j, i>> \in R
    /\ \A i, j \in S : <<i, j>> \in R /\ <<j, i>> \in R => i = j
    /\ \A i, j, k \in S : <<i, j>> \in R /\ <<j, k>> \in R => <<i, k>> \in R

Rank(i, S, R) == Cardinality({j \in S : <<j, i>> \in R})

\* In a total order on a finite set every rank is taken.
LEMMA RankTaken ==
    ASSUME NEW S, IsFiniteSet(S), NEW R, Total(R, S),
           NEW n \in 1 .. Cardinality(S)
    PROVE  \E i \in S : Rank(i, S, R) = n
<1> DEFINE upto(i) == {j \in S : <<j, i>> \in R}
           rank == [i \in S |-> Cardinality(upto(i))]
           others == (1 .. Cardinality(S)) \ {n}
<1>1. Cardinality(S) \in Nat
  BY FS_CardinalityType
<1>2. ASSUME NEW i \in S
      PROVE  /\ IsFiniteSet(upto(i)) /\ Cardinality(upto(i)) =< Cardinality(S)
             /\ Cardinality(upto(i)) \in Nat /\ Cardinality(upto(i)) # 0
  <2>1. upto(i) \in SUBSET S /\ i \in upto(i)
    BY DEF Total
  <2>2. IsFiniteSet(upto(i)) /\ Cardinality(upto(i)) =< Cardinality(S)
    BY <2>1, FS_Subset
  <2>3. Cardinality(upto(i)) \in Nat
    BY <2>2, FS_CardinalityType
  <2>4. Cardinality(upto(i)) # 0
    BY <2>1, <2>2, FS_EmptySet
  <2> QED BY <2>2, <2>3, <2>4
<1>3. ASSUME NEW i \in S, NEW k \in S, i # k PROVE rank[i] # rank[k]
  <2>1. ASSUME NEW a \in S, NEW b \in S, a # b, <<a, b>> \in R PROVE rank[a] # rank[b]
    <3>1. upto(a) \in SUBSET upto(b) /\ b \in upto(b) /\ b \notin upto(a)
      BY <2>1 DEF Total
    <3>2. Cardinality(upto(b)) # Cardinality(upto(a))
      BY <1>2, <3>1, FS_Subset
    <3> QED BY <3>2
  <2>2. <<i, k>> \in R \/ <<k, i>> \in R
    BY DEF Total
  <2> QED BY <1>3, <2>1, <2>2
<1>4. SUFFICES ASSUME \A i \in S : Cardinality(upto(i)) # n PROVE FALSE
  BY DEF Rank
<1>5. rank \in [S -> others]
  BY <1>1, <1>2, <1>4
<1>6. IsFiniteSet(others) /\ Cardinality(others) = Cardinality(S) - 1
  <2>1. IsFiniteSet(1 .. Cardinality(S)) /\ Cardinality(1 .. Cardinality(S)) = Cardinality(S)
    BY <1>1, FS_Interval
  <2> QED BY <2>1, FS_RemoveElement
<1>7. \E i, k \in S : i # k /\ rank[i] = rank[k]
  <2> HIDE DEF rank, others
  <2> QED BY <1>1, <1>5, <1>6, FS_PigeonHole
<1> QED BY <1>3, <1>7

\* Every entry of an arranged list is one of those arranged.
LEMMA RankedFacts ==
    ASSUME NEW L, NEW list \in Seq(L), NEW S \in SUBSET (DOMAIN list), NEW R, Total(R, S)
    PROVE  /\ Ranked(list, S, R) \in Seq(L)
           /\ Len(Ranked(list, S, R)) =< Len(list)
           /\ \A x \in ToSet(Ranked(list, S, R)) : \E i \in S : x = list[i]
<1> DEFINE rank(i) == Cardinality({j \in S : <<j, i>> \in R})
           out == Ranked(list, S, R)
<1>1. IsFiniteSet(S) /\ Cardinality(S) =< Len(list) /\ Cardinality(S) \in Nat
  <2>1. DOMAIN list = 1 .. Len(list) /\ Len(list) \in Nat
    OBVIOUS
  <2>2. IsFiniteSet(1 .. Len(list)) /\ Cardinality(1 .. Len(list)) = Len(list)
    <3>1. 1 \in Int /\ Len(list) \in Int
      BY <2>1
    <3>2. /\ IsFiniteSet(1 .. Len(list))
          /\ Cardinality(1 .. Len(list)) = IF 1 > Len(list) THEN 0 ELSE Len(list) - 1 + 1
      BY <3>1, FS_Interval
    <3> QED BY <2>1, <3>2
  <2>3. IsFiniteSet(S) /\ Cardinality(S) =< Len(list)
    BY <2>1, <2>2, FS_Subset
  <2> QED BY <2>3, FS_CardinalityType
<1>2. out = [n \in 1 .. Cardinality(S) |-> list[CHOOSE i \in S : rank(i) = n]]
  BY Zenon DEF Ranked
<1>3. ASSUME NEW n \in 1 .. Cardinality(S) PROVE \E i \in S : out[n] = list[i]
  <2>1. \E i \in S : rank(i) = n
    <3>1. \E i \in S : Rank(i, S, R) = n
      BY <1>1, RankTaken
    <3> QED BY <3>1, Zenon DEF Rank
  <2>2. (CHOOSE i \in S : rank(i) = n) \in S
    BY <2>1
  <2>3. out[n] = list[CHOOSE i \in S : rank(i) = n]
    BY <1>2
  <2> QED BY <2>2, <2>3
<1> HIDE DEF out
<1>4. DOMAIN out = 1 .. Cardinality(S)
  BY <1>2
<1>5. \A i \in S : list[i] \in L
  OBVIOUS
<1>6. out \in [1 .. Cardinality(S) -> L]
  <2>1. \A n \in 1 .. Cardinality(S) : out[n] \in L
    BY <1>3, <1>5
  <2>2. out = [n \in 1 .. Cardinality(S) |-> out[n]]
    BY <1>2
  <2> QED BY <2>1, <2>2
<1>7. out \in Seq(L) /\ Len(out) = Cardinality(S)
  BY <1>1, <1>6
<1>8. \A x \in ToSet(out) : \E i \in S : x = list[i]
  BY <1>3, <1>4 DEF ToSet
<1> QED BY <1>1, <1>7, <1>8 DEF out

LEMMA RetainFacts ==
    ASSUME NEW L, NEW list \in Seq(L), NEW S \in SUBSET (DOMAIN list)
    PROVE  /\ Retain(list, S) \in Seq(L)
           /\ Len(Retain(list, S)) =< Len(list)
           /\ \A x \in ToSet(Retain(list, S)) : \E i \in S : x = list[i]
<1> DEFINE R == AsListed(list)
<1>1. \A i, j \in S : i \in Int /\ j \in Int /\ (<<i, j>> \in R <=> i =< j)
  BY DEF AsListed
<1>2. Total(R, S)
  <2> HIDE DEF R
  <2> QED BY <1>1 DEF Total
<1>3. Retain(list, S) = Ranked(list, S, R)
  BY DEF Retain
<1> HIDE DEF R
<1>4. /\ Ranked(list, S, R) \in Seq(L)
      /\ Len(Ranked(list, S, R)) =< Len(list)
      /\ \A x \in ToSet(Ranked(list, S, R)) : \E i \in S : x = list[i]
  BY <1>2, RankedFacts
<1> QED BY <1>3, <1>4, Zenon

LEMMA NormalizeFacts ==
    ASSUME NEW list \in Seq(Login)
    PROVE  /\ Normalize(list) \in Seq(Login)
           /\ Len(Normalize(list)) =< Len(list)
           /\ ToSet(Normalize(list)) \subseteq ToSet(list)
<1> DEFINE R == ByExpiry(list)
           S == DOMAIN list
<1>1. \A i \in S : i \in Int /\ list[i].expiry \in Int
  <2>1. \A i \in S : i \in Int /\ list[i] \in Login
    OBVIOUS
  <2> QED BY <2>1 DEF Login
<1>2. \A i, j \in S : <<i, j>> \in R <=> \/ list[i].expiry < list[j].expiry
                                         \/ list[i].expiry = list[j].expiry /\ i =< j
  BY DEF ByExpiry
<1>3. Total(R, S)
  <2> HIDE DEF R
  <2> QED BY <1>1, <1>2 DEF Total
<1>4. Normalize(list) = Ranked(list, S, R)
  BY DEF Normalize
<1> HIDE DEF R
<1>5. /\ Ranked(list, S, R) \in Seq(Login)
      /\ Len(Ranked(list, S, R)) =< Len(list)
      /\ \A x \in ToSet(Ranked(list, S, R)) : \E i \in S : x = list[i]
  <2>1. S \in SUBSET (DOMAIN list)
    OBVIOUS
  <2> HIDE DEF S
  <2> QED BY <1>3, <2>1, RankedFacts
<1> QED BY <1>4, <1>5 DEF ToSet

LEMMA SweepFacts ==
    ASSUME NEW list \in Seq(Login)
    PROVE  /\ Sweep(list) \in Seq(Login)
           /\ Len(Sweep(list)) =< Len(list)
           /\ ToSet(Sweep(list)) \subseteq ToSet(list)
           /\ \A x \in ToSet(Sweep(list)) : x.expiry > loginClock
<1> DEFINE S == {i \in DOMAIN list : list[i].expiry > loginClock}
<1>1. S \in SUBSET (DOMAIN list)
  OBVIOUS
<1>2. \A i \in S : i \in DOMAIN list /\ list[i].expiry > loginClock
  OBVIOUS
<1>3. Sweep(list) = Retain(list, S)
  BY Zenon DEF Sweep
<1> HIDE DEF S
<1>4. /\ Retain(list, S) \in Seq(Login)
      /\ Len(Retain(list, S)) =< Len(list)
      /\ \A x \in ToSet(Retain(list, S)) : \E i \in S : x = list[i]
  BY <1>1, RetainFacts
<1> QED BY <1>2, <1>3, <1>4 DEF ToSet

LEMMA TrimFacts ==
    ASSUME NEW list \in Seq(Login)
    PROVE  /\ Trim(list) \in Seq(Login)
           /\ Len(Trim(list)) =< MaxSessions
           /\ ToSet(Trim(list)) \subseteq ToSet(list)
<1> DEFINE alive == Sweep(list)
           from == (IF Len(alive) > MaxSessions THEN Len(alive) - MaxSessions ELSE 0) + 1
<1>1. alive \in Seq(Login) /\ ToSet(alive) \subseteq ToSet(list)
  BY SweepFacts
<1>2. Trim(list) = SubSeq(alive, from, Len(alive))
  BY DEF Trim
<1> HIDE DEF alive
<1>3. /\ MaxSessions \in Nat /\ Len(alive) \in Nat /\ from \in Nat /\ from >= 1
      /\ from =< Len(alive) + 1 /\ Len(alive) - from + 1 =< MaxSessions
  BY <1>1, LoginAssumption
<1> HIDE DEF from
<1>4. /\ SubSeq(alive, from, Len(alive)) \in Seq(Login)
      /\ Len(SubSeq(alive, from, Len(alive))) = Len(alive) - from + 1
      /\ \A i \in 1 .. Len(alive) - from + 1 :
            SubSeq(alive, from, Len(alive))[i] = alive[from + i - 1]
  BY <1>1, <1>3
<1>5. ASSUME NEW x \in ToSet(Trim(list)) PROVE x \in ToSet(alive)
  <2>1. DOMAIN Trim(list) = 1 .. Len(alive) - from + 1 /\ DOMAIN alive = 1 .. Len(alive)
    BY <1>1, <1>2, <1>4
  <2>2. PICK i \in 1 .. Len(alive) - from + 1 : x = Trim(list)[i]
    BY <2>1 DEF ToSet
  <2>3. x = alive[from + i - 1] /\ from + i - 1 \in 1 .. Len(alive)
    BY <1>2, <1>3, <1>4, <2>2
  <2> QED BY <2>1, <2>3 DEF ToSet
<1> QED BY <1>1, <1>2, <1>3, <1>4, <1>5

LEMMA DeadlineFacts ==
    ASSUME LoginType, NEW lifetime \in Lifetimes
    PROVE  Deadline(lifetime) \in Nat
BY LoginAssumption DEF LoginType, Deadline

\* A clamped entry is the old one with the smaller of the two deadlines.
LEMMA ClampFacts ==
    ASSUME LoginType, NEW lifetime \in Lifetimes, NEW list \in Seq(Login)
    PROVE  /\ Clamp(list, lifetime) \in Seq(Login)
           /\ Len(Clamp(list, lifetime)) = Len(list)
           /\ \A x \in ToSet(Clamp(list, lifetime)) : \E y \in ToSet(list) :
                /\ x \in Login /\ y \in Login
                /\ x.value = y.value
                /\ x.expiry = IF y.expiry > Deadline(lifetime) THEN Deadline(lifetime)
                              ELSE y.expiry
<1> DEFINE new == Clamp(list, lifetime)
           limit == Deadline(lifetime)
<1>1. limit \in Nat
  BY DeadlineFacts
<1>2. new = [i \in DOMAIN list |->
               [list[i] EXCEPT !.expiry = IF @ > limit THEN limit ELSE @]]
  BY Zenon DEF Clamp
<1> HIDE DEF new, limit
<1>3. DOMAIN list = 1 .. Len(list) /\ Len(list) \in Nat /\ \A i \in DOMAIN list : list[i] \in Login
  OBVIOUS
<1>4. ASSUME NEW i \in DOMAIN list
      PROVE  /\ new[i] \in Login /\ new[i].value = list[i].value
             /\ new[i].expiry = IF list[i].expiry > limit THEN limit ELSE list[i].expiry
  <2>1. new[i] = [list[i] EXCEPT !.expiry = IF @ > limit THEN limit ELSE @]
    BY <1>2
  <2> QED BY <1>1, <1>3, <2>1 DEF Login
<1>5. new \in [1 .. Len(list) -> Login]
  <2>1. new = [i \in 1 .. Len(list) |-> new[i]]
    BY <1>2, <1>3
  <2> QED BY <1>3, <1>4, <2>1
<1>6. new \in Seq(Login) /\ Len(new) = Len(list) /\ DOMAIN new = DOMAIN list
  BY <1>3, <1>5
<1>7. ASSUME NEW x \in ToSet(new)
      PROVE  \E y \in ToSet(list) :
                /\ x \in Login /\ y \in Login /\ x.value = y.value
                /\ x.expiry = IF y.expiry > limit THEN limit ELSE y.expiry
  <2>1. PICK i \in DOMAIN list : x = new[i]
    BY <1>6 DEF ToSet
  <2>2. list[i] \in ToSet(list) /\ list[i] \in Login
    BY <1>3 DEF ToSet
  <2> QED BY <1>4, <2>1, <2>2
<1> QED BY <1>6, <1>7 DEF new, limit

\* The values of a list, through its entries.
LEMMA ValuesFacts ==
    ASSUME NEW list, NEW v
    PROVE  v \in Values(list) <=> \E x \in ToSet(list) : x.value = v
BY DEF Values, ToSet

LEMMA EntryFacts ==
    ASSUME NEW list \in Seq(Login), NEW x \in ToSet(list)
    PROVE  x \in Login /\ x.value \in 1 .. MaxLogins /\ x.value \in Nat /\ x.expiry \in Nat
<1>1. \A i \in DOMAIN list : list[i] \in Login
  OBVIOUS
<1>2. x \in Login
  BY <1>1 DEF ToSet
<1> QED BY <1>2 DEF Login

LEMMA AppendFacts ==
    ASSUME NEW list \in Seq(Login), NEW x \in Login
    PROVE  Append(list, x) \in Seq(Login) /\ ToSet(Append(list, x)) \subseteq ToSet(list) \cup {x}
<1> DEFINE new == Append(list, x)
<1>1. /\ new \in Seq(Login) /\ Len(new) = Len(list) + 1 /\ Len(list) \in Nat
      /\ DOMAIN new = 1 .. Len(new) /\ DOMAIN list = 1 .. Len(list)
  OBVIOUS
<1>2. \A i \in 1 .. Len(new) : new[i] = IF i =< Len(list) THEN list[i] ELSE x
  OBVIOUS
<1>3. \A i \in 1 .. Len(new) : i =< Len(list) => i \in 1 .. Len(list)
  BY <1>1
<1> HIDE DEF new
<1>4. ToSet(new) \subseteq ToSet(list) \cup {x}
  BY <1>1, <1>2, <1>3 DEF ToSet
<1> QED BY <1>1, <1>4 DEF new

----------------------------------------------------------------------------
(* The steps *)

\* A thread's record, before and after its snapshot.
LEMMA ThreadFacts ==
    ASSUME NEW r \in Thread
    PROVE  /\ r.pc \in {"idle", "lock", "snapshot", "write"}
           /\ r.gone \in SUBSET (1 .. MaxLogins)
           /\ r.pc = "write" => r.data \in Seq(Login)
           /\ r.pc # "write" => [r EXCEPT !.pc = "snapshot"] = [pc |-> "snapshot", gone |-> r.gone]
<1>1. CASE r \in [pc : {"idle", "lock", "snapshot"}, gone : SUBSET (1 .. MaxLogins)]
  BY <1>1
<1>2. CASE r \in [pc : {"write"}, gone : SUBSET (1 .. MaxLogins), data : Seq(Login)]
  BY <1>2
<1> QED BY <1>1, <1>2 DEF Thread

LEMMA ThreadsOfKind ==
    ASSUME NEW gone \in SUBSET (1 .. MaxLogins)
    PROVE  /\ \A pc \in {"idle", "lock", "snapshot"} : [pc |-> pc, gone |-> gone] \in Thread
           /\ \A data \in Seq(Login) : [pc |-> "write", gone |-> gone, data |-> data] \in Thread
           /\ Resting \in Thread
BY DEF Thread, Resting

\* A list that only lost entries is as sound as it was.
LEMMA SoundSublist ==
    ASSUME NEW list, Sound(list), NEW new, ToSet(new) \subseteq ToSet(list),
           Len(new) =< MaxSessions
    PROVE  Sound(new)
BY DEF Sound

LEMMA TickKeeps == ASSUME TokensInv, Tick PROVE TokensInv'
<1>1. /\ loginClock \in Nat /\ loginClock' = loginClock + 1
      /\ UNCHANGED <<tokens, disk, ttl, minted, starts, lgThread, lgWriter, dead, due>>
  BY DEF Tick, TokensInv, LoginType
<1>2. LoginType' /\ ListsSound' /\ LockHeld'
  BY <1>1 DEF TokensInv, LoginType, ListsSound, Sound, LockHeld
<1>3. \A x \in ToSet(tokens) : x.expiry \in Nat
  BY EntryFacts DEF TokensInv, LoginType
<1>4. GoneStays'
  BY <1>1, <1>3 DEF TokensInv, GoneStays
<1> QED BY <1>2, <1>4 DEF TokensInv

LEMMA WriteLockKeeps == ASSUME TokensInv, NEW t \in LoginThreads, WriteLock(t) PROVE TokensInv'
<1> DEFINE r == [pc |-> "snapshot", gone |-> lgThread[t].gone]
<1>1. lgThread[t] \in Thread /\ lgThread[t].pc = "lock"
  BY DEF TokensInv, LoginType, WriteLock
<1>2. lgThread' = [lgThread EXCEPT ![t] = r]
  BY <1>1, ThreadFacts DEF WriteLock
<1>3. r \in Thread /\ r.pc = "snapshot" /\ r.gone = lgThread[t].gone
  BY <1>1, ThreadFacts, ThreadsOfKind
<1> HIDE DEF r
<1>4. /\ lgThread'[t] = r /\ \A u \in LoginThreads \ {t} : lgThread'[u] = lgThread[u]
      /\ lgThread' \in [LoginThreads -> Thread]
  BY <1>2, <1>3 DEF TokensInv, LoginType
<1>5. /\ lgWriter = 0 /\ lgWriter' = t
      /\ UNCHANGED <<tokens, disk, ttl, loginClock, minted, starts, dead, due>>
  BY DEF WriteLock
<1>6. LoginType'
  BY <1>4, <1>5 DEF TokensInv, LoginType
<1>7. LockHeld'
  BY <1>4, <1>5, LoginAssumption DEF TokensInv, LockHeld
<1>8. ListsSound'
  BY <1>3, <1>4, <1>5 DEF TokensInv, ListsSound, Sound
<1>9. GoneStays'
  BY <1>3, <1>4, <1>5 DEF TokensInv, GoneStays
<1> QED BY <1>6, <1>7, <1>8, <1>9 DEF TokensInv

LEMMA SnapshotKeeps == ASSUME TokensInv, NEW t \in LoginThreads, Snapshot(t) PROVE TokensInv'
<1> DEFINE swept == Sweep(tokens)
           r == [pc |-> "write", gone |-> lgThread[t].gone, data |-> swept]
<1>1. /\ lgThread[t] \in Thread /\ lgThread[t].pc = "snapshot" /\ tokens' = swept
      /\ lgThread' = [lgThread EXCEPT ![t] = r]
      /\ UNCHANGED <<disk, ttl, loginClock, minted, starts, lgWriter, dead, due>>
  BY DEF TokensInv, LoginType, Snapshot
<1>2. /\ tokens \in Seq(Login) /\ swept \in Seq(Login) /\ Len(swept) =< Len(tokens)
      /\ ToSet(swept) \subseteq ToSet(tokens)
      /\ \A x \in ToSet(swept) : x.expiry > loginClock
  BY SweepFacts DEF TokensInv, LoginType
<1> HIDE DEF swept
<1>3. /\ r \in Thread /\ r.pc = "write" /\ r.gone = lgThread[t].gone /\ r.data = swept
  BY <1>1, <1>2, ThreadFacts, ThreadsOfKind
<1> HIDE DEF r
<1>4. /\ lgThread'[t] = r /\ \A u \in LoginThreads \ {t} : lgThread'[u] = lgThread[u]
      /\ lgThread' \in [LoginThreads -> Thread]
  BY <1>1, <1>3 DEF TokensInv, LoginType
<1>5. LoginType'
  BY <1>1, <1>2, <1>4 DEF TokensInv, LoginType
<1>6. LockHeld'
  BY <1>1, <1>3, <1>4 DEF TokensInv, LockHeld
<1>7. Len(swept) =< MaxSessions /\ Len(swept) \in Nat
  BY <1>2, LoginAssumption DEF TokensInv, ListsSound, Sound
<1>8. Sound(swept)
  BY <1>2, <1>7, SoundSublist DEF TokensInv, ListsSound
<1>9. ListsSound'
  BY <1>1, <1>3, <1>4, <1>8 DEF TokensInv, ListsSound, Sound
<1>10. \A x \in ToSet(swept) : x.expiry \in Nat /\ x.value \notin lgThread[t].gone
  <2>1. \A x \in ToSet(swept) : x.expiry \in Nat
    BY <1>2, EntryFacts
  <2>2. loginClock \in Nat
    BY DEF TokensInv, LoginType
  <2> QED BY <1>2, <2>1, <2>2 DEF TokensInv, GoneStays
<1>11. GoneStays'
  BY <1>1, <1>2, <1>3, <1>4, <1>10 DEF TokensInv, GoneStays
<1> QED BY <1>5, <1>6, <1>9, <1>11 DEF TokensInv

LEMMA WriteFileKeeps == ASSUME TokensInv, NEW t \in LoginThreads, WriteFile(t) PROVE TokensInv'
<1> DEFINE r == lgThread[t]
<1>1. /\ r \in Thread /\ r.pc = "write" /\ lgWriter = t
      /\ UNCHANGED <<tokens, ttl, loginClock, minted, starts, due>>
      /\ lgThread' = [lgThread EXCEPT ![t] = Resting] /\ lgWriter' = 0
  BY DEF TokensInv, LoginType, LockHeld, WriteFile
<1>2. r.data \in Seq(Login) /\ r.gone \subseteq 1 .. MaxLogins
  BY <1>1, ThreadFacts
<1>3. Resting \in Thread /\ Resting.pc = "idle" /\ Resting.gone = {}
  BY ThreadsOfKind DEF Resting
<1>4. /\ lgThread'[t] = Resting /\ \A u \in LoginThreads \ {t} : lgThread'[u] = lgThread[u]
      /\ lgThread' \in [LoginThreads -> Thread]
  BY <1>1, <1>3 DEF TokensInv, LoginType
<1>5. \A u \in LoginThreads \ {t} : lgThread'[u].pc \notin {"snapshot", "write"}
  BY <1>1, <1>4 DEF TokensInv, LockHeld
<1>6. \A u \in LoginThreads : lgThread'[u].pc \notin {"snapshot", "write"}
  BY <1>3, <1>4, <1>5
<1>7. LockHeld'
  BY <1>6 DEF LockHeld
<1>8. GoneStays'
  BY <1>1, <1>3, <1>4, <1>6 DEF TokensInv, GoneStays
<1>9. CASE disk' = r.data /\ dead' = dead \cup r.gone
  <2>1. \A v \in r.gone : v \in 1 .. minted
    BY <1>2 DEF TokensInv, GoneStays, LoginType
  <2>2. LoginType'
    BY <1>1, <1>2, <1>4, <1>9, <2>1 DEF TokensInv, LoginType
  <2>3. Sound(r.data) /\ Sound(tokens)
    BY <1>1 DEF TokensInv, ListsSound
  <2>4. \A x \in ToSet(tokens) \cup ToSet(r.data) : x.value \notin r.gone
    BY <1>1 DEF TokensInv, GoneStays
  <2>5. Sound(tokens)' /\ Sound(disk)'
    BY <1>1, <1>9, <2>3, <2>4 DEF Sound
  <2> QED BY <1>6, <1>7, <1>8, <2>2, <2>5 DEF TokensInv, ListsSound
<1>10. CASE UNCHANGED <<disk, dead>>
  <2>1. LoginType'
    BY <1>1, <1>4, <1>10 DEF TokensInv, LoginType
  <2>2. Sound(tokens)' /\ Sound(disk)'
    BY <1>1, <1>10 DEF TokensInv, ListsSound, Sound
  <2> QED BY <1>6, <1>7, <1>8, <2>1, <2>2 DEF TokensInv, ListsSound
<1> QED BY <1>9, <1>10 DEF WriteFile

\* A request that only removes: what it removed is out of the list, or expired.
LEMMA RemovalKeeps ==
    ASSUME TokensInv, NEW t \in LoginThreads, NEW v \in 1 .. minted,
           lgThread[t].pc = "idle",
           lgThread' = [lgThread EXCEPT ![t] = [pc |-> "lock", gone |-> {v}]],
           tokens' \in Seq(Login), Len(tokens') =< Len(tokens),
           ToSet(tokens') \subseteq ToSet(tokens),
           \A x \in ToSet(tokens') : x.value = v => x.expiry =< loginClock,
           UNCHANGED <<disk, ttl, loginClock, minted, starts, lgWriter, dead, due>>
    PROVE  TokensInv'
<1> DEFINE r == [pc |-> "lock", gone |-> {v}]
<1>1. {v} \in SUBSET (1 .. MaxLogins) /\ v =< minted
  BY LoginAssumption DEF TokensInv, LoginType
<1>2. r \in Thread /\ r.pc = "lock" /\ r.gone = {v}
  BY <1>1, ThreadsOfKind
<1> HIDE DEF r
<1>3. /\ lgThread'[t] = r /\ \A u \in LoginThreads \ {t} : lgThread'[u] = lgThread[u]
      /\ lgThread' \in [LoginThreads -> Thread]
  BY <1>2 DEF TokensInv, LoginType, r
<1>4. LoginType'
  BY <1>3 DEF TokensInv, LoginType
<1>5. LockHeld'
  BY <1>2, <1>3 DEF TokensInv, LockHeld
<1>6. Len(tokens') =< MaxSessions
  <2>1. Len(tokens') \in Nat /\ Len(tokens) \in Nat
    BY DEF TokensInv, LoginType
  <2> QED BY <2>1, LoginAssumption DEF TokensInv, ListsSound, Sound
<1>7. ListsSound'
  BY <1>2, <1>3, <1>6 DEF TokensInv, ListsSound, Sound
<1>8. GoneStays'
  BY <1>1, <1>2, <1>3 DEF TokensInv, GoneStays
<1> QED BY <1>4, <1>5, <1>7, <1>8 DEF TokensInv

LEMMA RevokeKeeps ==
    ASSUME TokensInv, NEW t \in LoginThreads, NEW v \in 1 .. MaxLogins, Revoke(t, v) PROVE TokensInv'
<1> DEFINE S == {i \in DOMAIN tokens : tokens[i].value # v}
<1>1. S \in SUBSET (DOMAIN tokens) /\ \A i \in S : tokens[i].value # v
  OBVIOUS
<1>2. tokens' = Retain(tokens, S) /\ tokens \in Seq(Login)
  BY DEF Revoke, TokensInv, LoginType
<1> HIDE DEF S
<1>3. /\ tokens' \in Seq(Login) /\ Len(tokens') =< Len(tokens)
      /\ \A x \in ToSet(tokens') : \E i \in S : x = tokens[i]
  BY <1>1, <1>2, RetainFacts
<1>4. ToSet(tokens') \subseteq ToSet(tokens) /\ \A x \in ToSet(tokens') : x.value # v
  BY <1>1, <1>3 DEF ToSet
<1>5. v \in 1 .. minted
  BY ValuesFacts DEF Revoke, TokensInv, LoginType, ListsSound, Sound
<1> QED BY <1>3, <1>4, <1>5, RemovalKeeps DEF Revoke

LEMMA CheckExpiredKeeps ==
    ASSUME TokensInv, NEW t \in LoginThreads, NEW v \in 1 .. MaxLogins, CheckExpired(t, v)
    PROVE TokensInv'
<1>1. PICK y \in ToSet(tokens) : y.value = v /\ y.expiry =< loginClock
  BY DEF CheckExpired, ToSet
<1>2. tokens' = tokens /\ tokens \in Seq(Login) /\ Len(tokens') =< Len(tokens)
  BY DEF CheckExpired, TokensInv, LoginType
<1>3. \A x \in ToSet(tokens') : x.value = v => x.expiry =< loginClock
  BY <1>1, <1>2 DEF TokensInv, ListsSound, Sound
<1>4. v \in 1 .. minted
  BY <1>1 DEF TokensInv, LoginType, ListsSound, Sound
<1> QED BY <1>2, <1>3, <1>4, RemovalKeeps DEF CheckExpired

LEMMA IssueKeeps == ASSUME TokensInv, NEW t \in LoginThreads, Issue(t) PROVE TokensInv'
<1> DEFINE n == minted + 1
           limit == Deadline(ttl)
           x == [value |-> n, expiry |-> limit]
           list == Append(tokens, x)
           g == Values(list) \ Values(Trim(list))
           r == [pc |-> "lock", gone |-> g]
<1>1. /\ minted' = n /\ tokens' = Trim(list) /\ lgThread' = [lgThread EXCEPT ![t] = r]
      /\ due' = [due EXCEPT ![n] = limit] /\ lgThread[t].pc = "idle"
      /\ UNCHANGED <<disk, ttl, loginClock, starts, lgWriter, dead>>
  BY DEF Issue
<1>2. n \in 1 .. MaxLogins /\ minted \in Nat /\ n \in Nat /\ n > minted
  BY LoginAssumption DEF Issue, TokensInv, LoginType
<1>3. limit \in Nat
  BY DeadlineFacts DEF TokensInv, LoginType
<1>4. x \in Login /\ x.value = n /\ x.expiry = limit
  BY <1>2, <1>3 DEF Login
<1> HIDE DEF x, limit
<1>5. tokens \in Seq(Login)
  BY DEF TokensInv, LoginType
<1>6. list \in Seq(Login) /\ ToSet(list) \subseteq ToSet(tokens) \cup {x}
  BY <1>4, <1>5, AppendFacts
<1> HIDE DEF list
<1>7. /\ Trim(list) \in Seq(Login) /\ Len(Trim(list)) =< MaxSessions
      /\ ToSet(Trim(list)) \subseteq ToSet(list)
  BY <1>6, TrimFacts
<1>8. \A y \in ToSet(tokens) : y.value =< minted /\ y.value \in Nat /\ y.value \in 1 .. MaxLogins
  BY <1>5, EntryFacts DEF TokensInv, ListsSound, Sound
<1>9. /\ g \in SUBSET (1 .. MaxLogins) /\ \A v \in g : v =< n
      /\ \A y \in ToSet(Trim(list)) : y.value \notin g
  <2>1. \A v \in Values(list) : v \in 1 .. MaxLogins /\ v =< n
    BY <1>2, <1>4, <1>6, <1>8, ValuesFacts
  <2>2. \A y \in ToSet(Trim(list)) : y.value \in Values(Trim(list))
    BY ValuesFacts
  <2> QED BY <2>1, <2>2
<1> HIDE DEF g
<1>10. r \in Thread /\ r.pc = "lock" /\ r.gone = g
  BY <1>9, ThreadsOfKind
<1> HIDE DEF r
<1>11. /\ lgThread'[t] = r /\ \A u \in LoginThreads \ {t} : lgThread'[u] = lgThread[u]
       /\ lgThread' \in [LoginThreads -> Thread]
  BY <1>1, <1>10 DEF TokensInv, LoginType
<1>12. /\ due' \in [1 .. MaxLogins -> Nat] /\ due'[n] = limit
       /\ \A v \in 1 .. MaxLogins : v # n => due'[v] = due[v]
  BY <1>1, <1>2, <1>3 DEF TokensInv, LoginType
<1>13. LoginType'
  <2>1. minted' \in 0 .. MaxLogins /\ 1 .. minted \subseteq 1 .. minted'
    BY <1>1, <1>2
  <2> QED BY <1>1, <1>7, <1>11, <1>12, <2>1 DEF TokensInv, LoginType
<1>14. LockHeld'
  BY <1>1, <1>10, <1>11 DEF TokensInv, LockHeld
<1>15. ASSUME NEW l \in Seq(Login), Sound(l)
       PROVE  \A y \in ToSet(l) : /\ y.value =< minted' /\ y.value \notin dead'
                                  /\ y.expiry =< due'[y.value]
  <2> SUFFICES ASSUME NEW y \in ToSet(l)
               PROVE  y.value =< minted' /\ y.value \notin dead' /\ y.expiry =< due'[y.value]
    OBVIOUS
  <2>1. y.value =< minted /\ y.value \notin dead /\ y.expiry =< due[y.value]
    BY <1>15 DEF Sound
  <2>2. y.value \in 1 .. MaxLogins /\ y.value \in Nat
    BY EntryFacts
  <2>3. y.value # n /\ y.value =< n
    BY <1>2, <2>1, <2>2
  <2> QED BY <1>1, <1>12, <2>1, <2>2, <2>3
<1>16. n \notin dead
  BY <1>2 DEF TokensInv, LoginType
<1>17. Sound(tokens)'
  <2>1. Sound(tokens)
    BY DEF TokensInv, ListsSound
  <2>2. \A y \in ToSet(tokens') : y \in ToSet(tokens) \/ y = x
    BY <1>1, <1>6, <1>7
  <2>3. \A y \in ToSet(tokens) : y.value # n
    BY <1>2, <1>8
  <2>4. \A y, z \in ToSet(tokens') : y.value = z.value => y = z
    BY <1>4, <2>1, <2>2, <2>3 DEF Sound
  <2>5. x.value =< minted' /\ x.value \notin dead' /\ x.expiry =< due'[x.value]
    BY <1>1, <1>2, <1>3, <1>4, <1>12, <1>16
  <2>6. \A y \in ToSet(tokens') : y.value =< minted' /\ y.value \notin dead' /\ y.expiry =< due'[y.value]
    BY <1>5, <1>15, <2>1, <2>2, <2>5
  <2> QED BY <1>1, <1>7, <2>4, <2>6 DEF Sound
<1>18. Sound(disk)'
  <2>1. Sound(disk) /\ disk \in Seq(Login) /\ disk' = disk
    BY <1>1 DEF TokensInv, ListsSound, LoginType
  <2> QED BY <1>15, <2>1 DEF Sound
<1>19. ASSUME NEW u \in LoginThreads, lgThread'[u].pc = "write" PROVE Sound(lgThread[u].data)'
  <2>1. u # t /\ lgThread'[u] = lgThread[u]
    BY <1>10, <1>11, <1>19
  <2>2. Sound(lgThread[u].data) /\ lgThread[u] \in Thread /\ lgThread[u].pc = "write"
    BY <1>19, <2>1 DEF TokensInv, ListsSound, LoginType
  <2>3. lgThread[u].data \in Seq(Login) /\ lgThread'[u].data = lgThread[u].data
    BY <2>1, <2>2, ThreadFacts
  <2> QED BY <1>15, <2>2, <2>3 DEF Sound
<1>20. GoneStays'
  <2> SUFFICES ASSUME NEW u \in LoginThreads
               PROVE  /\ \A v \in lgThread'[u].gone : v =< minted'
                      /\ \A y \in ToSet(tokens') : y.value \in lgThread'[u].gone => y.expiry =< loginClock'
                      /\ lgThread'[u].pc = "write" =>
                           \A y \in ToSet(tokens') \cup ToSet(lgThread'[u].data) :
                               y.value \notin lgThread'[u].gone
    BY DEF GoneStays
  <2>1. CASE u = t
    BY <1>1, <1>9, <1>10, <1>11, <2>1
  <2>2. CASE u # t
    <3>1. lgThread'[u] = lgThread[u] /\ lgThread[u] \in Thread
      BY <1>11, <2>2 DEF TokensInv, LoginType
    <3>2. \A v \in lgThread[u].gone : v =< minted /\ v \in Nat
      <4>1. lgThread[u].gone \in SUBSET (1 .. MaxLogins)
        BY <3>1, ThreadFacts
      <4> QED BY <4>1 DEF TokensInv, GoneStays
    <3>3. \A v \in lgThread[u].gone : v =< minted' /\ v # n
      BY <1>1, <1>2, <3>2
    <3>4. \A y \in ToSet(tokens') : y \in ToSet(tokens) \/ y.value = n
      BY <1>1, <1>4, <1>6, <1>7
    <3> QED BY <1>1, <3>1, <3>3, <3>4 DEF TokensInv, GoneStays
  <2> QED BY <2>1, <2>2
<1> QED BY <1>13, <1>14, <1>17, <1>18, <1>19, <1>20 DEF TokensInv, ListsSound

LEMMA RestartKeeps ==
    ASSUME TokensInv, NEW lifetime \in Lifetimes, Restart(lifetime) PROVE TokensInv'
<1> DEFINE limit == Deadline(lifetime)
           sorted == Normalize(disk)
           clamped == Clamp(sorted, lifetime)
<1>1. /\ ttl' = lifetime /\ tokens' = Trim(clamped) /\ lgThread' = [t \in LoginThreads |-> Resting]
      /\ lgWriter' = 0 /\ UNCHANGED <<loginClock, minted, dead>>
  BY DEF Restart
<1>2. disk \in Seq(Login) /\ Sound(disk) /\ LoginType /\ limit \in Nat
  BY DeadlineFacts DEF TokensInv, LoginType, ListsSound
<1>3. sorted \in Seq(Login) /\ ToSet(sorted) \subseteq ToSet(disk)
  BY <1>2, NormalizeFacts
<1> HIDE DEF sorted
<1>4. /\ clamped \in Seq(Login)
      /\ \A x \in ToSet(clamped) : \E y \in ToSet(sorted) :
            /\ x \in Login /\ y \in Login /\ x.value = y.value
            /\ x.expiry = IF y.expiry > limit THEN limit ELSE y.expiry
  BY <1>2, <1>3, ClampFacts
<1> HIDE DEF clamped, limit
<1>5. /\ tokens' \in Seq(Login) /\ Len(tokens') =< MaxSessions
      /\ ToSet(tokens') \subseteq ToSet(clamped)
  BY <1>1, <1>4, TrimFacts
<1>6. \A x \in ToSet(tokens') : \E y \in ToSet(disk) :
         /\ x \in Login /\ y \in Login /\ x.value = y.value
         /\ x.expiry = IF y.expiry > limit THEN limit ELSE y.expiry
  BY <1>3, <1>4, <1>5
<1>7. \A x, y \in ToSet(tokens') : x.value = y.value => x = y
  <2> SUFFICES ASSUME NEW x \in ToSet(tokens'), NEW y \in ToSet(tokens'), x.value = y.value
               PROVE  x = y
    OBVIOUS
  <2>1. PICK a \in ToSet(disk) : /\ x \in Login /\ x.value = a.value
                                 /\ x.expiry = IF a.expiry > limit THEN limit ELSE a.expiry
    BY <1>6
  <2>2. PICK b \in ToSet(disk) : /\ y \in Login /\ y.value = b.value
                                 /\ y.expiry = IF b.expiry > limit THEN limit ELSE b.expiry
    BY <1>6
  <2>3. a = b
    BY <1>2, <2>1, <2>2 DEF Sound
  <2>4. x.value = y.value /\ x.expiry = y.expiry /\ x \in Login /\ y \in Login
    BY <2>1, <2>2, <2>3
  <2> QED BY <2>4 DEF Login
<1>8. \A x \in ToSet(tokens') :
         /\ x.value =< minted /\ x.value \notin dead /\ x.expiry =< limit
         /\ x.expiry =< due[x.value] /\ x.value \in 1 .. MaxLogins
  <2> SUFFICES ASSUME NEW x \in ToSet(tokens')
               PROVE  /\ x.value =< minted /\ x.value \notin dead /\ x.expiry =< limit
                      /\ x.expiry =< due[x.value] /\ x.value \in 1 .. MaxLogins
    OBVIOUS
  <2>1. PICK a \in ToSet(disk) : /\ x \in Login /\ a \in Login /\ x.value = a.value
                                 /\ x.expiry = IF a.expiry > limit THEN limit ELSE a.expiry
    BY <1>6
  <2>2. a.value =< minted /\ a.value \notin dead /\ a.expiry =< due[a.value]
    BY <1>2 DEF Sound
  <2>3. a.expiry \in Nat /\ a.value \in 1 .. MaxLogins
    BY <2>1 DEF Login
  <2>4. due[a.value] \in Nat
    BY <1>2, <2>3 DEF LoginType
  <2> QED BY <1>2, <2>1, <2>2, <2>3, <2>4
<1>9. Resting \in Thread /\ Resting.pc = "idle" /\ Resting.gone = {}
  BY ThreadsOfKind DEF Resting
<1>10. /\ \A t \in LoginThreads : lgThread'[t] = Resting
       /\ lgThread' \in [LoginThreads -> Thread]
  BY <1>1, <1>9
<1>11. LockHeld' /\ GoneStays'
  BY <1>9, <1>10 DEF LockHeld, GoneStays
<1>12. CASE disk' = tokens' /\ due' = [v \in DOMAIN due |-> IF v \in Values(tokens') /\ due[v] > limit
                                                         THEN limit ELSE due[v]]
  <2>1. /\ due' \in [1 .. MaxLogins -> Nat]
        /\ \A v \in 1 .. MaxLogins : due'[v] = due[v] \/ due'[v] = limit
    BY <1>2, <1>12 DEF LoginType
  <2>2. LoginType'
    BY <1>1, <1>2, <1>5, <1>10, <1>12, <2>1 DEF LoginType
  <2>3. \A x \in ToSet(tokens') : x.expiry =< due'[x.value]
    BY <1>8, <2>1
  <2>4. Sound(tokens)' /\ Sound(disk)'
    BY <1>1, <1>5, <1>7, <1>8, <1>12, <2>3 DEF Sound
  <2> QED BY <1>9, <1>10, <1>11, <2>2, <2>4 DEF TokensInv, ListsSound
<1>13. CASE UNCHANGED <<disk, due>>
  <2>1. LoginType'
    BY <1>1, <1>2, <1>5, <1>10, <1>13 DEF LoginType
  <2>2. Sound(tokens)' /\ Sound(disk)'
    BY <1>1, <1>2, <1>5, <1>7, <1>8, <1>13 DEF Sound
  <2> QED BY <1>9, <1>10, <1>11, <2>1, <2>2 DEF TokensInv, ListsSound
<1> QED BY <1>12, <1>13 DEF Restart, limit

----------------------------------------------------------------------------
(* The theorems *)

LEMMA InitTokensInv == LGInit => TokensInv
<1> SUFFICES ASSUME LGInit PROVE TokensInv
  OBVIOUS
<1>1. Resting \in Thread /\ Resting.pc = "idle" /\ Resting.gone = {}
  BY ThreadsOfKind DEF Resting
<1>2. ToSet(<<>>) = {} /\ <<>> \in Seq(Login) /\ Len(<<>>) = 0
  BY DEF ToSet
<1>3. LoginType
  BY <1>1, <1>2, LoginAssumption DEF LGInit, LoginType
<1>4. Sound(tokens) /\ Sound(disk)
  BY <1>2, LoginAssumption DEF LGInit, Sound
<1> QED BY <1>1, <1>2, <1>3, <1>4 DEF LGInit, TokensInv, ListsSound, LockHeld, GoneStays

LEMMA LoginNextKeeps == TokensInv /\ [LGNext]_lgvars => TokensInv'
<1> SUFFICES ASSUME TokensInv, [LGNext]_lgvars PROVE TokensInv'
  OBVIOUS
<1>1. CASE UNCHANGED lgvars
  <2>1. LoginType' /\ LockHeld' /\ GoneStays'
    BY <1>1 DEF lgvars, TokensInv, LoginType, LockHeld, GoneStays
  <2>2. ListsSound'
    BY <1>1 DEF lgvars, TokensInv, ListsSound, Sound
  <2> QED BY <2>1, <2>2 DEF TokensInv
<1> QED BY <1>1, TickKeeps, RestartKeeps, IssueKeeps, WriteLockKeeps, SnapshotKeeps,
           WriteFileKeeps, RevokeKeeps, CheckExpiredKeeps DEF LGNext

\* The lists and every snapshot under way are sound, the write lock covers the
\* snapshot and its write, and what a request removed stays removed
\* (sessions.rs persist, load).
THEOREM TokensInductive == LGSpec => []TokensInv
BY InitTokensInv, LoginNextKeeps, PTL DEF LGSpec

\* What ends a login ends it for good, and no restart prolongs one
\* (sessions.rs, sessions_file.rs).
THEOREM TokensAreRight == LGSpec => []TokensRight
<1>1. ASSUME TokensInv PROVE TokensRight
  <2>1. /\ \A v \in Values(tokens) : v \notin dead
        /\ \A v \in Values(disk) : v \notin dead
    BY <1>1, ValuesFacts DEF TokensInv, ListsSound, Sound
  <2>2. \A i \in DOMAIN tokens : tokens[i] \in ToSet(tokens)
    BY DEF ToSet
  <2> QED BY <1>1, <2>1, <2>2
          DEF TokensInv, ListsSound, Sound, TokensRight, NothingReturns, PolicyHolds
<1> QED BY <1>1, TokensInductive, PTL

----------------------------------------------------------------------------
(* The daemon's lifecycle: the inductive invariant *)

Places == {"none", "port", "lock", "clear", "bind", "dead"} \cup Bound
CommandPlaces == {"try", "hello", "status", "attached", "failed", "spawn", "wait", "stop",
                  "ack", "gone", "stopped", "done"}
LinePlaces == {"none", "queued", "permit", "attached", "answered", "closed"}
Frames == {"none", "hello", "shutdown", "status"}
Somebody == Daemons \cup {0}

Process == [pc : Places, port : Ports, build : Builds, asked : BOOLEAN]
Command == [kind : Kinds, pc : CommandPlaces, asked : Somebody]
Connection == [to : Somebody, at : LinePlaces, said : Frames, mismatch : BOOLEAN]

DaemonType ==
    /\ proc \in [Daemons -> Process]
    /\ portOf \in [Ports -> Somebody]
    /\ lock \in Somebody /\ socketFile \in Somebody
    /\ cli \in [Commands -> Command]
    /\ line \in [Commands -> Connection]
    /\ pre \in [Daemons -> Int] /\ kills \in Nat

\* From the lock's acquisition to its release.
Holding == {"clear", "bind", "serve", "shutdown", "unlink", "unlock"}

\* The lock is with whoever is past acquiring it, so there is one such daemon;
\* nobody clears or replaces the socket file of one that serves.
LockKept == \A x \in Daemons : proc[x].pc \in Holding => lock = x
FileKept == \A x \in Daemons : Serving(x) => socketFile = x

\* A daemon that was asked to stop was accepting connections then: it is on
\* its way from serving to its end, and never starts again.
AskedKept ==
    \A c \in Commands :
        /\ cli[c].pc = "try" => cli[c].asked = 0
        /\ cli[c].asked # 0 => proc[cli[c].asked].pc \in Bound \cup {"dead"}

\* A command spawns its child once.
NotYetSpawned ==
    \A c \in Commands :
        cli[c].pc \in {"try", "stop", "ack", "gone", "spawn"} => proc[c].pc = "none"

\* A command about to connect has no connection.
LineIdle ==
    \A c \in Commands :
        cli[c].pc \in {"try", "spawn", "wait", "stop", "gone"} => line[c].at \in {"none", "closed"}

\* A stop that was seen through means that the daemon it asked has left the
\* socket file behind it.
StopMeant ==
    \A c \in Commands :
        (cli[c].pc \in {"stopped", "spawn", "wait"} /\ cli[c].asked # 0)
            => proc[cli[c].asked].pc \in {"unlock", "exit", "dead"}

Permits(x) == {c \in Commands : line[c].to = x /\ line[c].at = "permit"}
Admission ==
    \A x \in Daemons :
        /\ pre[x] = Cardinality(Permits(x)) /\ pre[x] <= PreAttachCap
        /\ Cardinality(Attached(x)) <= AttachedCap

Lifecycle == LockKept /\ FileKept /\ AskedKept /\ NotYetSpawned /\ LineIdle /\ StopMeant
DaemonInv == DaemonType /\ Lifecycle /\ Admission

----------------------------------------------------------------------------
(* Types *)

\* Every command's number is also its child's, and 0 is nobody.
LEMMA Numbers ==
    /\ Commands \subseteq Daemons /\ Daemons \subseteq Somebody
    /\ 0 \in Somebody /\ 0 \notin Daemons /\ 1 \in Daemons
BY CommandsAssumption DEF Daemons, Somebody

\* A daemon that moves on is still a process.
LEMMA AtType ==
    ASSUME proc \in [Daemons -> Process], NEW x \in Daemons, NEW at \in Places, At(x, at)
    PROVE  proc' \in [Daemons -> Process]
BY DEF Process, At

\* A command that moves on is still a command.
LEMMA GoesType ==
    ASSUME cli \in [Commands -> Command], NEW c \in Commands, NEW at \in CommandPlaces, Goes(c, at)
    PROVE  cli' \in [Commands -> Command]
BY DEF Command, Goes

\* A connection that is made is one to whoever the socket file leads to.
LEMMA ConnectsType ==
    ASSUME line \in [Commands -> Connection], socketFile \in Somebody,
           NEW c \in Commands, NEW said \in Frames, Connects(c, said)
    PROVE  line' \in [Commands -> Connection]
<1>1. [NoConn EXCEPT !.to = socketFile, !.at = "queued", !.said = said] \in Connection
  BY DEF NoConn, Connection, LinePlaces
<1> QED BY <1>1 DEF Connects

\* A connection leaves its place among the unknown ones.
LEMMA SettlesType ==
    ASSUME line \in [Commands -> Connection], pre \in [Daemons -> Int],
           NEW c \in Commands, NEW x \in Daemons, NEW at \in LinePlaces, Settles(c, x, at)
    PROVE  line' \in [Commands -> Connection] /\ pre' \in [Daemons -> Int]
BY DEF Settles, Connection

\* What the end of a process leaves is well typed.
LEMMA EndType ==
    ASSUME DaemonType, NEW x \in Daemons, ProcessEnds(x)
    PROVE  /\ proc' \in [Daemons -> Process] /\ portOf' \in [Ports -> Somebody]
           /\ lock' \in Somebody /\ line' \in [Commands -> Connection]
           /\ pre' \in [Daemons -> Int]
<1> USE DEF ProcessEnds, DaemonType
<1>1. proc' \in [Daemons -> Process]
  BY AtType DEF Places
<1>2. portOf' \in [Ports -> Somebody] /\ lock' \in Somebody
  BY Numbers
<1>3. \A c \in Commands : [line[c] EXCEPT !.at = "closed"] \in Connection
  BY DEF Connection, LinePlaces
<1>4. line' \in [Commands -> Connection]
  BY <1>3
<1>5. pre' \in [Daemons -> Int]
  OBVIOUS
<1> QED BY <1>1, <1>2, <1>4, <1>5

\* Every step keeps the types.
LEMMA TypeStep == DaemonType /\ [DLNext]_dvars => DaemonType'
<1> SUFFICES ASSUME DaemonType, [DLNext]_dvars PROVE DaemonType'
  OBVIOUS
<1>1. ASSUME NEW x \in Daemons, TakesPort(x) PROVE DaemonType'
  BY <1>1, EndType, AtType, Numbers DEF TakesPort, DaemonType, Places
<1>2. ASSUME NEW x \in Daemons, TakesLock(x) PROVE DaemonType'
  BY <1>2, EndType, AtType, Numbers DEF TakesLock, DaemonType, Places
<1>3. ASSUME NEW x \in Daemons, ClearsStale(x) PROVE DaemonType'
  BY <1>3, AtType, Numbers DEF ClearsStale, DaemonType, Places, Bound
<1>4. ASSUME NEW x \in Daemons, BindsSocket(x) PROVE DaemonType'
  BY <1>4, AtType, Numbers DEF BindsSocket, DaemonType, Places, Bound
<1>5. ASSUME NEW x \in Daemons, SignalArrives(x) PROVE DaemonType'
  <2>1. proc' \in [Daemons -> Process]
    BY <1>5, Numbers DEF SignalArrives, DaemonType, Process, Places, Bound
  <2> QED BY <1>5, <2>1 DEF SignalArrives, DaemonType
<1>6. ASSUME NEW x \in Daemons, StopsServing(x) PROVE DaemonType'
  <2>1. proc' \in [Daemons -> Process]
    BY <1>6, Numbers DEF StopsServing, DaemonType, Process, Places, Bound
  <2> QED BY <1>6, <2>1 DEF StopsServing, DaemonType
<1>7. ASSUME NEW x \in Daemons, StopsSession(x) PROVE DaemonType'
  BY <1>7, AtType, Numbers DEF StopsSession, DaemonType, Places, Bound
<1>8. ASSUME NEW x \in Daemons, UnlinksSocket(x) PROVE DaemonType'
  BY <1>8, AtType, Numbers DEF UnlinksSocket, DaemonType, Places, Bound
<1>9. ASSUME NEW x \in Daemons, ReleasesLock(x) PROVE DaemonType'
  BY <1>9, AtType, Numbers DEF ReleasesLock, DaemonType, Places, Bound
<1>10. ASSUME NEW x \in Daemons, ExitsProcess(x) PROVE DaemonType'
  BY <1>10, EndType DEF ExitsProcess, DaemonType
<1>11. ASSUME NEW x \in Daemons, Killed(x) PROVE DaemonType'
  BY <1>11, EndType DEF Killed, DaemonType
<1>12. ASSUME NEW x \in Daemons, NEW c \in Commands, Accepts(x, c) PROVE DaemonType'
  <2>1. line' \in [Commands -> Connection]
    BY <1>12 DEF Accepts, DaemonType, Connection, LinePlaces
  <2>2. pre' \in [Daemons -> Int]
    BY <1>12 DEF Accepts, DaemonType, LinePlaces
  <2> QED BY <1>12, <2>1, <2>2 DEF Accepts, DaemonType
<1>13. ASSUME NEW x \in Daemons, NEW c \in Commands, ReadsHello(x, c) PROVE DaemonType'
  <2>1. line' \in [Commands -> Connection]
    BY <1>13, SettlesType DEF ReadsHello, DaemonType, Connection, LinePlaces
  <2>2. pre' \in [Daemons -> Int]
    BY <1>13, SettlesType DEF ReadsHello, DaemonType, LinePlaces
  <2> QED BY <1>13, <2>1, <2>2 DEF ReadsHello, DaemonType
<1>14. ASSUME NEW x \in Daemons, NEW c \in Commands, ReadsShutdown(x, c) PROVE DaemonType'
  <2>1. proc' \in [Daemons -> Process]
    BY <1>14, Numbers DEF ReadsShutdown, DaemonType, Process, Places, Bound
  <2>2. line' \in [Commands -> Connection] /\ pre' \in [Daemons -> Int]
    BY <1>14, SettlesType DEF ReadsShutdown, DaemonType, LinePlaces
  <2> QED BY <1>14, <2>1, <2>2 DEF ReadsShutdown, DaemonType
<1>15. ASSUME NEW x \in Daemons, NEW c \in Commands, AnswersOneShot(x, c) PROVE DaemonType'
  BY <1>15, SettlesType DEF AnswersOneShot, DaemonType, LinePlaces
<1>16. ASSUME NEW x \in Daemons, NEW c \in Commands, GivesUpOnSilent(x, c) PROVE DaemonType'
  BY <1>16, SettlesType DEF GivesUpOnSilent, DaemonType, LinePlaces
<1>17. ASSUME NEW c \in Commands, FirstConnect(c) PROVE DaemonType'
  BY <1>17, GoesType, ConnectsType DEF FirstConnect, DaemonType, CommandPlaces, Frames
<1>18. ASSUME NEW c \in Commands, AsksStatus(c) PROVE DaemonType'
  BY <1>18, GoesType, ConnectsType DEF AsksStatus, DaemonType, CommandPlaces, Frames
<1>19. ASSUME NEW c \in Commands, HearsStatus(c) PROVE DaemonType'
  BY <1>19, GoesType DEF HearsStatus, DaemonType, CommandPlaces
<1>20. ASSUME NEW c \in Commands, HearsHello(c) PROVE DaemonType'
  BY <1>20, GoesType DEF HearsHello, DaemonType, CommandPlaces
<1>21. ASSUME NEW c \in Commands, SpawnsDaemon(c) PROVE DaemonType'
  <2>1. proc' \in [Daemons -> Process]
    BY <1>21, Numbers DEF SpawnsDaemon, DaemonType, Process, Places, Bound
  <2>2. cli' \in [Commands -> Command]
    BY <1>21, GoesType DEF SpawnsDaemon, DaemonType, CommandPlaces
  <2> QED BY <1>21, <2>1, <2>2 DEF SpawnsDaemon, DaemonType
<1>22. ASSUME NEW c \in Commands, WaitsForDaemon(c) PROVE DaemonType'
  BY <1>22, GoesType, ConnectsType DEF WaitsForDaemon, DaemonType, CommandPlaces, Frames
<1>23. ASSUME NEW c \in Commands, AsksStop(c) PROVE DaemonType'
  <2>1. line' \in [Commands -> Connection]
    BY <1>23, ConnectsType DEF AsksStop, DaemonType, Frames
  <2>2. cli' \in [Commands -> Command]
    BY <1>23, GoesType DEF AsksStop, DaemonType, CommandPlaces, Command
  <2> QED BY <1>23, <2>1, <2>2 DEF AsksStop, DaemonType
<1>24. ASSUME NEW c \in Commands, HearsAck(c) PROVE DaemonType'
  BY <1>24, GoesType DEF HearsAck, DaemonType, CommandPlaces
<1>25. ASSUME NEW c \in Commands, SeesGone(c) PROVE DaemonType'
  BY <1>25, GoesType DEF SeesGone, DaemonType, CommandPlaces
<1>26. ASSUME NEW c \in Commands, ClientLeaves(c) PROVE DaemonType'
  <2>1. line' \in [Commands -> Connection]
    BY <1>26 DEF ClientLeaves, DaemonType, Connection, LinePlaces
  <2>2. cli' \in [Commands -> Command]
    BY <1>26, GoesType DEF ClientLeaves, DaemonType, CommandPlaces
  <2> QED BY <1>26, <2>1, <2>2 DEF ClientLeaves, DaemonType
<1>27. CASE UNCHANGED dvars
  BY <1>27 DEF dvars, DaemonType
<1> QED
  BY <1>1, <1>2, <1>3, <1>4, <1>5, <1>6, <1>7, <1>8, <1>9, <1>10, <1>11, <1>12,
     <1>13, <1>14, <1>15, <1>16, <1>17, <1>18, <1>19, <1>20, <1>21, <1>22,
     <1>23, <1>24, <1>25, <1>26, <1>27
     DEF DLNext

----------------------------------------------------------------------------
(* The lifecycle *)

\* One daemon moves.
LEMMA AtFacts ==
    ASSUME DaemonType, NEW x \in Daemons, NEW at, At(x, at)
    PROVE  \A y \in Daemons : proc'[y].pc = IF y = x THEN at ELSE proc[y].pc
BY DEF At, DaemonType, Process

\* One command moves and keeps what it asked.
LEMMA GoesFacts ==
    ASSUME DaemonType, NEW c \in Commands, NEW at, Goes(c, at)
    PROVE  \A d \in Commands : /\ cli'[d].pc = IF d = c THEN at ELSE cli[d].pc
                               /\ cli'[d].asked = cli[d].asked
BY DEF Goes, DaemonType, Command

\* One connection is made.
LEMMA ConnectsFacts ==
    ASSUME DaemonType, NEW c \in Commands, NEW said, Connects(c, said)
    PROVE  /\ \A d \in Commands : d # c => line'[d] = line[d]
           /\ line'[c].at = "queued" /\ line'[c].to = socketFile
BY DEF Connects, DaemonType, Connection, NoConn

\* One connection settles.
LEMMA SettlesFacts ==
    ASSUME DaemonType, NEW c \in Commands, NEW x \in Daemons, NEW at, Settles(c, x, at)
    PROVE  /\ \A d \in Commands : d # c => line'[d] = line[d]
           /\ line'[c].at = at /\ line'[c].to = line[c].to
           /\ \A y \in Daemons : pre'[y] = IF y = x THEN pre[y] - 1 ELSE pre[y]
BY DEF Settles, DaemonType, Connection

\* The end of a process: its lock is free and its connections are closed.
LEMMA EndFacts ==
    ASSUME DaemonType, NEW x \in Daemons, ProcessEnds(x)
    PROVE  /\ \A y \in Daemons : proc'[y].pc = IF y = x THEN "dead" ELSE proc[y].pc
           /\ lock' = IF lock = x THEN 0 ELSE lock
           /\ \A c \in Commands :
                 /\ line'[c].to = line[c].to
                 /\ line'[c].at = IF line[c].to = x /\ line[c].at # "answered"
                                  THEN "closed" ELSE line[c].at
           /\ \A y \in Daemons : pre'[y] = IF y = x THEN 0 ELSE pre[y]
<1> USE DEF ProcessEnds
<1>1. \A y \in Daemons : proc'[y].pc = IF y = x THEN "dead" ELSE proc[y].pc
  BY AtFacts
<1>2. \A c \in Commands :
        /\ line'[c].to = line[c].to
        /\ line'[c].at = IF line[c].to = x /\ line[c].at # "answered" THEN "closed" ELSE line[c].at
  BY DEF DaemonType, Connection
<1>3. \A y \in Daemons : pre'[y] = IF y = x THEN 0 ELSE pre[y]
  BY DEF DaemonType
<1> QED BY <1>1, <1>2, <1>3

\* What the lifecycle says of every command, whatever its place.
LEMMA AskedType ==
    ASSUME DaemonType, NEW c \in Commands
    PROVE  cli[c].asked \in Somebody /\ (cli[c].asked # 0 => cli[c].asked \in Daemons)
BY DEF DaemonType, Command, Somebody

\* The place of a daemon is all that the lifecycle says of it.
LEMMA StopRequestStep ==
    ASSUME DaemonType, Lifecycle, UNCHANGED <<lock, socketFile, cli>>,
           \A y \in Daemons : proc'[y].pc = proc[y].pc,
           \A c \in Commands : line'[c].at = line[c].at \/ line'[c].at = "closed"
    PROVE  Lifecycle'
BY AskedType, Numbers
   DEF Lifecycle, LockKept, FileKept, AskedKept, NotYetSpawned, LineIdle, StopMeant, Serving

\* Every step keeps the lifecycle.
LEMMA LifecycleStep == DaemonType /\ Lifecycle /\ [DLNext]_dvars => Lifecycle'
<1> SUFFICES ASSUME DaemonType, Lifecycle, [DLNext]_dvars PROVE Lifecycle'
  OBVIOUS
<1> USE AskedType, Numbers
    DEF Lifecycle, LockKept, FileKept, AskedKept, NotYetSpawned, LineIdle, StopMeant, Serving,
        Holding, Bound
<1>1. ASSUME NEW x \in Daemons, TakesPort(x) PROVE Lifecycle'
  BY <1>1, EndFacts, AtFacts DEF TakesPort
<1>2. ASSUME NEW x \in Daemons, TakesLock(x) PROVE Lifecycle'
  BY <1>2, EndFacts, AtFacts DEF TakesLock
<1>3. ASSUME NEW x \in Daemons, ClearsStale(x) PROVE Lifecycle'
  BY <1>3, AtFacts DEF ClearsStale
<1>4. ASSUME NEW x \in Daemons, BindsSocket(x) PROVE Lifecycle'
  BY <1>4, AtFacts DEF BindsSocket
<1>5. ASSUME NEW x \in Daemons, SignalArrives(x) PROVE Lifecycle'
  BY <1>5 DEF SignalArrives, DaemonType, Process
<1>6. ASSUME NEW x \in Daemons, StopsServing(x) PROVE Lifecycle'
  BY <1>6 DEF StopsServing, DaemonType, Process
<1>7. ASSUME NEW x \in Daemons, StopsSession(x) PROVE Lifecycle'
  BY <1>7, AtFacts DEF StopsSession
<1>8. ASSUME NEW x \in Daemons, UnlinksSocket(x) PROVE Lifecycle'
  BY <1>8, AtFacts DEF UnlinksSocket
<1>9. ASSUME NEW x \in Daemons, ReleasesLock(x) PROVE Lifecycle'
  BY <1>9, AtFacts DEF ReleasesLock
<1>10. ASSUME NEW x \in Daemons, ExitsProcess(x) PROVE Lifecycle'
  BY <1>10, EndFacts DEF ExitsProcess
<1>11. ASSUME NEW x \in Daemons, Killed(x) PROVE Lifecycle'
  BY <1>11, EndFacts DEF Killed, Alive
<1>12. ASSUME NEW x \in Daemons, NEW c \in Commands, Accepts(x, c) PROVE Lifecycle'
  BY <1>12 DEF Accepts, DaemonType, Connection
<1>13. ASSUME NEW x \in Daemons, NEW c \in Commands, ReadsHello(x, c) PROVE Lifecycle'
  <2>1. \A d \in Commands : line'[d].at = line[d].at \/ (d = c /\ line[c].at = "permit")
    <3>1. CASE proc[x].build = "new"
      BY <1>13, <3>1, SettlesFacts DEF ReadsHello
    <3>2. CASE proc[x].build # "new"
      BY <1>13, <3>2 DEF ReadsHello, DaemonType, Connection
    <3> QED BY <3>1, <3>2
  <2> QED BY <1>13, <2>1 DEF ReadsHello
<1>14. ASSUME NEW x \in Daemons, NEW c \in Commands, ReadsShutdown(x, c) PROVE Lifecycle'
  <2>1. \A y \in Daemons : proc'[y].pc = proc[y].pc
    BY <1>14 DEF ReadsShutdown, DaemonType, Process
  <2>2. \A d \in Commands : line'[d].at = line[d].at \/ line'[d].at = "closed"
    BY <1>14, SettlesFacts DEF ReadsShutdown
  <2> QED BY <1>14, <2>1, <2>2, StopRequestStep DEF ReadsShutdown
<1>15. ASSUME NEW x \in Daemons, NEW c \in Commands, AnswersOneShot(x, c) PROVE Lifecycle'
  BY <1>15, SettlesFacts DEF AnswersOneShot
<1>16. ASSUME NEW x \in Daemons, NEW c \in Commands, GivesUpOnSilent(x, c) PROVE Lifecycle'
  BY <1>16, SettlesFacts DEF GivesUpOnSilent
<1>17. ASSUME NEW c \in Commands, FirstConnect(c) PROVE Lifecycle'
  BY <1>17, GoesFacts, ConnectsFacts DEF FirstConnect, Reachable
<1>18. ASSUME NEW c \in Commands, AsksStatus(c) PROVE Lifecycle'
  BY <1>18, GoesFacts, ConnectsFacts DEF AsksStatus, Reachable
<1>19. ASSUME NEW c \in Commands, HearsStatus(c) PROVE Lifecycle'
  BY <1>19, GoesFacts DEF HearsStatus
<1>20. ASSUME NEW c \in Commands, HearsHello(c) PROVE Lifecycle'
  BY <1>20, GoesFacts DEF HearsHello
<1>21. ASSUME NEW c \in Commands, SpawnsDaemon(c) PROVE Lifecycle'
  <2>1. \A y \in Daemons : proc'[y].pc = IF y = c THEN "port" ELSE proc[y].pc
    BY <1>21 DEF SpawnsDaemon, DaemonType, Process
  <2>2. \A d \in Commands : /\ cli'[d].pc = IF d = c THEN "wait" ELSE cli[d].pc
                            /\ cli'[d].asked = cli[d].asked
    BY <1>21, GoesFacts DEF SpawnsDaemon
  <2>3. proc[c].pc = "none"
    BY <1>21 DEF SpawnsDaemon
  <2> QED BY <1>21, <2>1, <2>2, <2>3 DEF SpawnsDaemon
<1>22. ASSUME NEW c \in Commands, WaitsForDaemon(c) PROVE Lifecycle'
  BY <1>22, GoesFacts, ConnectsFacts DEF WaitsForDaemon, Reachable
<1>23. ASSUME NEW c \in Commands, AsksStop(c) PROVE Lifecycle'
  <2>1. CASE Reachable
    <3>1. \A d \in Commands : /\ cli'[d].pc = IF d = c THEN "ack" ELSE cli[d].pc
                              /\ cli'[d].asked = IF d = c THEN socketFile ELSE cli[d].asked
      BY <1>23, <2>1 DEF AsksStop, DaemonType, Command
    <3>2. \A d \in Commands : d # c => line'[d] = line[d]
      BY <1>23, <2>1, ConnectsFacts DEF AsksStop
    <3>3. proc[c].pc = "none"
      BY <1>23 DEF AsksStop
    <3> QED BY <1>23, <2>1, <3>1, <3>2, <3>3 DEF AsksStop, Reachable
  <2>2. CASE ~Reachable
    BY <1>23, <2>2, GoesFacts DEF AsksStop
  <2> QED BY <2>1, <2>2
<1>24. ASSUME NEW c \in Commands, HearsAck(c) PROVE Lifecycle'
  BY <1>24, GoesFacts DEF HearsAck
<1>25. ASSUME NEW c \in Commands, SeesGone(c) PROVE Lifecycle'
  BY <1>25, GoesFacts DEF SeesGone
<1>26. ASSUME NEW c \in Commands, ClientLeaves(c) PROVE Lifecycle'
  <2>1. \A d \in Commands : line'[d].at = line[d].at \/ line'[d].at = "closed"
    BY <1>26 DEF ClientLeaves, DaemonType, Connection
  <2> QED BY <1>26, <2>1, GoesFacts DEF ClientLeaves
<1>27. CASE UNCHANGED dvars
  BY <1>27 DEF dvars
<1> HIDE DEF Lifecycle
<1> QED
  BY <1>1, <1>2, <1>3, <1>4, <1>5, <1>6, <1>7, <1>8, <1>9, <1>10, <1>11, <1>12,
     <1>13, <1>14, <1>15, <1>16, <1>17, <1>18, <1>19, <1>20, <1>21, <1>22,
     <1>23, <1>24, <1>25, <1>26, <1>27
     DEF DLNext

----------------------------------------------------------------------------
(* Admission *)

\* Sets of connections can be counted.
LEMMA Countable ==
    ASSUME NEW S, S \subseteq Commands
    PROVE  IsFiniteSet(S) /\ Cardinality(S) \in Nat
BY CommandsAssumption, FS_Subset, FS_CardinalityType

\* A smaller set of connections is not larger.
LEMMA FewerIsLess ==
    ASSUME NEW S, NEW T, S \subseteq T, T \subseteq Commands
    PROVE  Cardinality(S) <= Cardinality(T)
BY Countable, FS_Subset

\* The connections that are waiting to be read or attached, now and next.
LEMMA PlacesAreCommands ==
    \A x : /\ Permits(x) \subseteq Commands /\ Permits(x)' \subseteq Commands
           /\ Attached(x) \subseteq Commands /\ Attached(x)' \subseteq Commands
BY DEF Permits, Attached

\* Nobody takes or returns a place, and nobody attaches.
LEMMA NoPlaceMoves ==
    ASSUME Admission, pre' = pre,
           \A y \in Daemons : Permits(y)' = Permits(y) /\ Attached(y)' \subseteq Attached(y)
    PROVE  Admission'
<1>1. \A y \in Daemons : Cardinality(Attached(y)') <= AttachedCap
  BY FewerIsLess, PlacesAreCommands, Countable, CapsAssumption DEF Admission
<1> QED BY <1>1 DEF Admission

\* A connection takes a place that was free.
LEMMA PlaceTaken ==
    ASSUME DaemonType, Admission, NEW x \in Daemons, NEW c \in Commands,
           pre[x] < PreAttachCap, c \notin Permits(x),
           \A y \in Daemons : /\ pre'[y] = IF y = x THEN pre[y] + 1 ELSE pre[y]
                              /\ Permits(y)' = IF y = x THEN Permits(y) \cup {c} ELSE Permits(y)
                              /\ Attached(y)' = Attached(y)
    PROVE  Admission'
<1> SUFFICES ASSUME NEW y \in Daemons
             PROVE  /\ pre'[y] = Cardinality(Permits(y)') /\ pre'[y] <= PreAttachCap
                    /\ Cardinality(Attached(y)') <= AttachedCap
  BY DEF Admission
<1>1. Cardinality(Permits(x) \cup {c}) = Cardinality(Permits(x)) + 1
  BY FS_AddElement, Countable, PlacesAreCommands
<1>2. Cardinality(Permits(y)) \in Nat
  BY Countable, PlacesAreCommands
<1>3. pre[y] = Cardinality(Permits(y)) /\ pre[y] <= PreAttachCap
  BY DEF Admission
<1>4. pre'[y] = Cardinality(Permits(y)')
  BY <1>1, <1>3
<1>5. pre'[y] <= PreAttachCap
  BY <1>2, <1>3, CapsAssumption
<1>6. Cardinality(Attached(y)') <= AttachedCap
  BY DEF Admission
<1> QED BY <1>4, <1>5, <1>6

\* A connection returns its place; who attaches with it stays within the cap.
LEMMA PlaceReturned ==
    ASSUME DaemonType, Admission, NEW x \in Daemons, NEW c \in Commands, c \in Permits(x),
           \A y \in Daemons : /\ pre'[y] = IF y = x THEN pre[y] - 1 ELSE pre[y]
                              /\ Permits(y)' = IF y = x THEN Permits(y) \ {c} ELSE Permits(y)
                              /\ Cardinality(Attached(y)') <= AttachedCap
    PROVE  Admission'
<1> SUFFICES ASSUME NEW y \in Daemons
             PROVE  pre'[y] = Cardinality(Permits(y)') /\ pre'[y] <= PreAttachCap
  BY DEF Admission
<1>1. Cardinality(Permits(x) \ {c}) = Cardinality(Permits(x)) - 1
  BY FS_RemoveElement, Countable, PlacesAreCommands
<1>2. Cardinality(Permits(y)) \in Nat
  BY Countable, PlacesAreCommands
<1>3. pre[y] = Cardinality(Permits(y)) /\ pre[y] <= PreAttachCap
  BY DEF Admission
<1>4. pre'[y] = Cardinality(Permits(y)')
  BY <1>1, <1>3
<1>5. pre'[y] <= PreAttachCap
  BY <1>2, <1>3, CapsAssumption
<1> QED BY <1>4, <1>5

\* The places of a process go with it.
LEMMA EndAdmission ==
    ASSUME DaemonType, Admission, NEW x \in Daemons, ProcessEnds(x)
    PROVE  Admission'
<1>1. \A y \in Daemons : /\ Permits(y)' = IF y = x THEN {} ELSE Permits(y)
                         /\ Attached(y)' \subseteq Attached(y)
                         /\ pre'[y] = IF y = x THEN 0 ELSE pre[y]
  BY EndFacts DEF Permits, Attached
<1>2. Cardinality({}) = 0
  BY FS_EmptySet
<1>3. \A y \in Daemons : Cardinality(Attached(y)') <= AttachedCap
  BY <1>1, FewerIsLess, PlacesAreCommands, Countable, CapsAssumption DEF Admission
<1>4. \A y \in Daemons : pre'[y] = Cardinality(Permits(y)')
  BY <1>1, <1>2 DEF Admission
<1>5. \A y \in Daemons : pre'[y] <= PreAttachCap
  BY <1>1, CapsAssumption DEF Admission
<1> QED BY <1>3, <1>4, <1>5 DEF Admission

\* A connection that had a place settles without attaching.
LEMMA SettlesAdmission ==
    ASSUME DaemonType, Admission, NEW x \in Daemons, NEW c \in Commands, NEW at,
           line[c].to = x, line[c].at = "permit", Settles(c, x, at),
           at \in {"closed", "answered"}
    PROVE  Admission'
<1>1. c \in Permits(x)
  BY DEF Permits
<1>2. \A y \in Daemons : /\ pre'[y] = IF y = x THEN pre[y] - 1 ELSE pre[y]
                         /\ Permits(y)' = IF y = x THEN Permits(y) \ {c} ELSE Permits(y)
                         /\ Attached(y)' = Attached(y)
  BY SettlesFacts DEF Permits, Attached
<1>3. \A y \in Daemons : Cardinality(Attached(y)') <= AttachedCap
  BY <1>2 DEF Admission
<1> QED BY <1>1, <1>2, <1>3, PlaceReturned

\* A command without a connection makes one.
LEMMA ConnectsAdmission ==
    ASSUME DaemonType, Admission, NEW c \in Commands, NEW said, Connects(c, said),
           line[c].at \in {"none", "closed"}, pre' = pre
    PROVE  Admission'
<1>1. \A y \in Daemons : Permits(y)' = Permits(y) /\ Attached(y)' = Attached(y)
  BY ConnectsFacts DEF Permits, Attached
<1> QED BY <1>1, NoPlaceMoves

\* Every step keeps the admission exact and both caps.
LEMMA AdmissionStep == DaemonType /\ Lifecycle /\ Admission /\ [DLNext]_dvars => Admission'
<1> SUFFICES ASSUME DaemonType, Lifecycle, Admission, [DLNext]_dvars PROVE Admission'
  OBVIOUS
<1>1. ASSUME UNCHANGED <<line, pre>> PROVE Admission'
  BY <1>1, NoPlaceMoves DEF Permits, Attached
<1>2. ASSUME NEW x \in Daemons, TakesPort(x) PROVE Admission'
  BY <1>1, <1>2, EndAdmission DEF TakesPort
<1>3. ASSUME NEW x \in Daemons, TakesLock(x) PROVE Admission'
  BY <1>1, <1>3, EndAdmission DEF TakesLock
<1>4. ASSUME NEW x \in Daemons, ExitsProcess(x) PROVE Admission'
  BY <1>4, EndAdmission DEF ExitsProcess
<1>5. ASSUME NEW x \in Daemons, Killed(x) PROVE Admission'
  BY <1>5, EndAdmission DEF Killed
<1>6. ASSUME NEW x \in Daemons, NEW c \in Commands, Accepts(x, c) PROVE Admission'
  <2>1. CASE pre[x] < PreAttachCap
    <3>1. \A y \in Daemons : /\ pre'[y] = IF y = x THEN pre[y] + 1 ELSE pre[y]
                             /\ Permits(y)' = IF y = x THEN Permits(y) \cup {c} ELSE Permits(y)
                             /\ Attached(y)' = Attached(y)
      BY <1>6, <2>1 DEF Accepts, DaemonType, Connection, Permits, Attached
    <3>2. c \notin Permits(x)
      BY <1>6 DEF Accepts, Permits
    <3> QED BY <2>1, <3>1, <3>2, PlaceTaken
  <2>2. CASE ~(pre[x] < PreAttachCap)
    <3>1. \A y \in Daemons : Permits(y)' = Permits(y) /\ Attached(y)' = Attached(y)
      BY <1>6, <2>2 DEF Accepts, DaemonType, Connection, Permits, Attached
    <3> QED BY <1>6, <2>2, <3>1, NoPlaceMoves DEF Accepts
  <2> QED BY <2>1, <2>2
<1>7. ASSUME NEW x \in Daemons, NEW c \in Commands, ReadsHello(x, c) PROVE Admission'
  <2>1. c \in Permits(x) /\ c \notin Attached(x)
    BY <1>7 DEF ReadsHello, Permits, Attached
  <2>2. CASE proc[x].build # "new"
    <3>1. \A y \in Daemons : /\ pre'[y] = IF y = x THEN pre[y] - 1 ELSE pre[y]
                             /\ Permits(y)' = IF y = x THEN Permits(y) \ {c} ELSE Permits(y)
                             /\ Attached(y)' = Attached(y)
      BY <1>7, <2>2 DEF ReadsHello, DaemonType, Connection, Permits, Attached
    <3> QED BY <2>1, <3>1, PlaceReturned DEF Admission
  <2>3. CASE proc[x].build = "new" /\ ~(Cardinality(Attached(x)) < AttachedCap)
    BY <1>7, <2>3, SettlesAdmission DEF ReadsHello
  <2>4. CASE proc[x].build = "new" /\ Cardinality(Attached(x)) < AttachedCap
    <3>1. \A y \in Daemons : /\ pre'[y] = IF y = x THEN pre[y] - 1 ELSE pre[y]
                             /\ Permits(y)' = IF y = x THEN Permits(y) \ {c} ELSE Permits(y)
                             /\ Attached(y)' = IF y = x THEN Attached(y) \cup {c} ELSE Attached(y)
      BY <1>7, <2>4, SettlesFacts DEF ReadsHello, Permits, Attached
    <3>2. Cardinality(Attached(x) \cup {c}) = Cardinality(Attached(x)) + 1
      BY <2>1, FS_AddElement, Countable, PlacesAreCommands
    <3>3. Cardinality(Attached(x)) \in Nat
      BY Countable, PlacesAreCommands
    <3>4. \A y \in Daemons : Cardinality(Attached(y)') <= AttachedCap
      <4> TAKE y \in Daemons
      <4>1. CASE y = x
        <5>1. Cardinality(Attached(y)') = Cardinality(Attached(x)) + 1
          BY <3>1, <3>2, <4>1, Zenon
        <5> QED BY <5>1, <2>4, <3>3, CapsAssumption
      <4>2. CASE y # x
        BY <3>1, <4>2 DEF Admission
      <4> QED BY <4>1, <4>2
    <3> QED BY <2>1, <3>1, <3>4, PlaceReturned
  <2> QED BY <2>2, <2>3, <2>4
<1>8. ASSUME NEW x \in Daemons, NEW c \in Commands, ReadsShutdown(x, c) PROVE Admission'
  BY <1>8, SettlesAdmission DEF ReadsShutdown
<1>9. ASSUME NEW x \in Daemons, NEW c \in Commands, AnswersOneShot(x, c) PROVE Admission'
  BY <1>9, SettlesAdmission DEF AnswersOneShot
<1>10. ASSUME NEW x \in Daemons, NEW c \in Commands, GivesUpOnSilent(x, c) PROVE Admission'
  BY <1>10, SettlesAdmission DEF GivesUpOnSilent
<1>11. ASSUME NEW c \in Commands, FirstConnect(c) PROVE Admission'
  BY <1>1, <1>11, ConnectsAdmission DEF FirstConnect, Lifecycle, LineIdle
<1>12. ASSUME NEW c \in Commands, AsksStatus(c) PROVE Admission'
  BY <1>1, <1>12, ConnectsAdmission DEF AsksStatus, Lifecycle, LineIdle
<1>13. ASSUME NEW c \in Commands, WaitsForDaemon(c) PROVE Admission'
  BY <1>1, <1>13, ConnectsAdmission DEF WaitsForDaemon, Lifecycle, LineIdle
<1>14. ASSUME NEW c \in Commands, AsksStop(c) PROVE Admission'
  BY <1>1, <1>14, ConnectsAdmission DEF AsksStop, Lifecycle, LineIdle
<1>15. ASSUME NEW c \in Commands, ClientLeaves(c) PROVE Admission'
  <2>1. \A y \in Daemons : Permits(y)' = Permits(y) /\ Attached(y)' \subseteq Attached(y)
    BY <1>15 DEF ClientLeaves, DaemonType, Connection, Permits, Attached
  <2> QED BY <1>15, <2>1, NoPlaceMoves DEF ClientLeaves
<1> QED
  BY <1>1, <1>2, <1>3, <1>4, <1>5, <1>6, <1>7, <1>8, <1>9, <1>10, <1>11, <1>12,
     <1>13, <1>14, <1>15
     DEF DLNext, dvars, ClearsStale, BindsSocket, SignalArrives, StopsServing, StopsSession,
         UnlinksSocket, ReleasesLock, HearsStatus, HearsHello, SpawnsDaemon, HearsAck, SeesGone

----------------------------------------------------------------------------
(* The theorems *)

\* Daemon 1 serves, is dead or never was; no command has done anything.
LEMMA DaemonStarts == DLInit => DaemonInv
<1> SUFFICES ASSUME DLInit PROVE DaemonInv
  OBVIOUS
<1>1. PICK st \in Settings :
        /\ proc = [x \in Daemons |->
                     IF x = 1 THEN [pc |-> st.first, port |-> 1, build |-> st.build, asked |-> FALSE]
                     ELSE [pc |-> "none", port |-> st.port[x], build |-> "new", asked |-> FALSE]]
        /\ portOf = [p \in Ports |-> IF p = 1 /\ st.first = "serve" THEN 1 ELSE 0]
        /\ lock = IF st.first = "serve" THEN 1 ELSE 0
        /\ socketFile = IF st.first = "none" THEN 0 ELSE 1
        /\ cli = [c \in Commands |-> [kind |-> st.kind[c], pc |-> "try", asked |-> 0]]
  BY DEF DLInit
<1>2. /\ st.first \in {"serve", "dead", "none"} /\ st.build \in Builds
      /\ st.kind \in [Commands -> Kinds] /\ st.port \in [Commands -> Ports]
  BY SettingsAssumption
<1>3. DaemonType
  <2>1. proc \in [Daemons -> Process]
    BY <1>1, <1>2, CommandsAssumption DEF Process, Places, Bound, Ports, Builds, Daemons
  <2>2. cli \in [Commands -> Command]
    BY <1>1, <1>2, Numbers DEF Command, CommandPlaces
  <2>3. line \in [Commands -> Connection]
    BY Numbers DEF DLInit, NoConn, Connection, LinePlaces, Frames
  <2>4. portOf \in [Ports -> Somebody] /\ lock \in Somebody /\ socketFile \in Somebody
    BY <1>1, Numbers
  <2>5. pre \in [Daemons -> Int] /\ kills \in Nat
    BY DEF DLInit
  <2> QED BY <2>1, <2>2, <2>3, <2>4, <2>5 DEF DaemonType
<1>4. Lifecycle
  <2>1. \A x \in Daemons : proc[x].pc = IF x = 1 THEN st.first ELSE "none"
    BY <1>1
  <2>2. \A c \in Commands : cli[c].pc = "try" /\ cli[c].asked = 0 /\ line[c].at = "none" /\ c # 1
    BY <1>1, CommandsAssumption DEF DLInit, NoConn
  <2> QED BY <1>1, <1>2, <2>1, <2>2, Numbers
          DEF Lifecycle, LockKept, FileKept, AskedKept, NotYetSpawned, LineIdle, StopMeant,
              Serving, Holding, Bound
<1>5. Admission
  <2>1. \A x \in Daemons : Permits(x) = {} /\ Attached(x) = {} /\ pre[x] = 0
    BY DEF DLInit, NoConn, Permits, Attached
  <2> QED BY <2>1, FS_EmptySet, CapsAssumption DEF Admission
<1> QED BY <1>3, <1>4, <1>5 DEF DaemonInv

\* DaemonInv is an inductive invariant of the daemon's lifecycle.
THEOREM DaemonInductive == DLSpec => []DaemonInv
<1>1. DaemonInv /\ [DLNext]_dvars => DaemonInv'
  BY TypeStep, LifecycleStep, AdmissionStep DEF DaemonInv
<1> QED BY <1>1, DaemonStarts, PTL DEF DLSpec

\* While a daemon serves or is on its way out the socket file and the lock are
\* its own, a stop that succeeded means that the session it asked has ended,
\* and the connections before they are clients are counted exactly and within
\* both caps: run_daemon, attach, stop and the admission in every order, with
\* any process killed at any point.
THEOREM DaemonIsRight == DLSpec => []DaemonRight
<1>1. DaemonInv => DaemonRight
  BY DEF DaemonInv, Lifecycle, LockKept, FileKept, StopMeant, Admission, Permits, DaemonRight,
         Serving, Holding
<1> QED BY <1>1, DaemonInductive, PTL

----------------------------------------------------------------------------
(* The catalog: the inductive invariant *)

\* A call, with whatever it has read so far.
CatalogOps == {"none", "open", "focus", "close", "reorder", "reload", "persist"}
CatalogSteps == {"idle", "add", "added", "get", "set", "read", "resolve", "first", "successor",
                 "remove", "check", "write", "front", "paths", "arrange", "load", "mirror", "save",
                 "return", "lock", "swap", "tell"}
CatalogCall == [op : CatalogOps, pc : CatalogSteps, path : Nat, focus : Nat, succ : Nat,
                todo : Seq(SCPaths), desired : Seq(SCPaths), version : Nat, hubs : Seq(Nat),
                repos : Seq(SCPaths), active : Nat]

CatalogLists == [base : Seq(SCPaths), added : Seq(SCPaths), hidden : SUBSET SCPaths,
                 order : Seq(SCPaths)]

CatalogType ==
    /\ lists \in CatalogLists
    /\ entries \in Seq([path : SCPaths, hub : Nat])
    /\ plug \in Seq(Nat) /\ tables \in Nat /\ config \in Nat /\ missed \subseteq Nat
    /\ pref \in Nat /\ file \in [repos : Seq(SCPaths), active : Nat]
    /\ call \in [Callers -> CatalogCall] /\ reloading \in Callers \cup {0}
    /\ front \in [tab : Nat, twice : BOOLEAN] /\ tabs \in Seq(SCPaths)

\* Which steps each operation goes through, and what it is about.
StepsRight(k) ==
    /\ k.op = "none" => k.pc = "idle"
    /\ k.op = "open" => k.pc \in {"add", "added", "set", "load", "return"}
    /\ k.op = "focus" => k.pc \in {"get", "set", "return"}
    /\ k.op = "close" => k.pc \in {"get", "read", "resolve", "first", "successor", "remove",
                                   "check", "write", "load", "return"}
    /\ k.op = "reorder" => k.pc \in {"read", "resolve", "first", "front", "paths", "write",
                                     "arrange", "load", "return"}
    /\ k.op = "reload" => k.pc \in {"lock", "swap", "tell"}
    /\ k.op = "persist" => k.pc \in {"mirror", "save"}
    /\ k.op \in {"open", "focus", "close"} => k.path \in SCPaths
    /\ k.pc \in {"get", "read"} => k.focus = 0
    /\ k.pc \in {"get", "read", "resolve"} => k.succ = 0

Stages == \A c \in Callers : StepsRight(call[c])

\* Each list names a path at most once, what was closed is in none of them, and
\* the order remembers nothing that is not served.
Once(list) == Within(list, SCPaths) = list
Orderly(l) ==
    /\ Once(l.base) /\ Once(l.added) /\ Once(l.order)
    /\ ToSet(l.base) \cap ToSet(l.added) = {}
    /\ (ToSet(l.base) \cup ToSet(l.added)) \cap l.hidden = {}
    /\ ToSet(l.order) \subseteq ToSet(l.base) \cup ToSet(l.added)

\* The preference names the tab in front, and nobody who read it means to change
\* it but by closing that very tab.
NoThief(k) ==
    /\ k.pc \notin {"first", "front", "check", "write"}
    /\ k.pc = "successor" => k.path = k.focus
    /\ k.pc = "remove" => k.succ = 0 \/ k.path = k.focus
    /\ k.pc = "paths" => k.succ = 0
Named ==
    /\ pref = front.tab
    /\ \A c \in Callers :
         call[c].op \in {"close", "reorder"} /\ call[c].focus = pref => NoThief(call[c])

\* The preference names nothing that is served and the first tab is in front:
\* who read it means to write that tab, or closes it.
Keeper(k) ==
    /\ k.pc \notin {"get", "read"} => k.focus = pref
    /\ k.op = "close" =>
         /\ k.pc \notin {"check", "write"}
         /\ k.pc = "successor" => k.path = front.tab
         /\ k.pc = "remove" => k.path = front.tab \/ k.succ = 0
    /\ k.op = "reorder" => /\ k.pc # "arrange"
                           /\ k.pc \in {"front", "paths", "write"} => k.succ = front.tab
Fallen ==
    /\ pref \notin Served /\ Paths[1] = front.tab
    /\ \A c \in Callers : call[c].op \in {"close", "reorder"} => Keeper(call[c])

FrontRight == front.tab # 0 => front.tab \in Served /\ (front.twice \/ Named \/ Fallen)

\* Who reloads holds the lock, and every open hub has the tables, was counted
\* as missed, or is still to be told.
ReloadRight ==
    /\ \A c \in Callers : call[c].pc \in {"swap", "tell"} <=> reloading = c
    /\ \A c \in Callers : call[c].pc = "tell" => call[c].version = tables
    /\ \A c \in Callers : ToSet(call[c].hubs) \subseteq 1 .. Len(plug)
    /\ \A i \in DOMAIN entries :
         /\ entries[i].hub \in 1 .. Len(plug)
         /\ \/ plug[entries[i].hub] = tables \/ entries[i].hub \in missed
            \/ \E c \in Callers : call[c].pc = "tell" /\ entries[i].hub \in ToSet(call[c].hubs)

CatalogInv ==
    CatalogType /\ Stages /\ Orderly(lists) /\ TabsKept /\ FrontRight /\ ReloadRight


----------------------------------------------------------------------------
(* The catalog: lists *)

\* A set of naturals that is not empty has a least element.
LEMMA LeastOf ==
    ASSUME NEW T, T \subseteq Nat, T # {}
    PROVE  \E x \in T : \A y \in T : x =< y
<1> DEFINE R == OpToRel(<, Nat)
<1>1. IsWellFoundedOn(R, Nat)
  BY NatLessThanWellFounded
<1>2. \A x, y \in Nat : y < x => <<y, x>> \in R
  BY DEF OpToRel
<1> HIDE DEF R
<1>3. PICK x \in T : \A y \in T : ~ (<<y, x>> \in R)
  BY <1>1, WFMin
<1>4. ASSUME NEW y \in T PROVE x =< y
  <2>1. x \in Nat /\ y \in Nat
    OBVIOUS
  <2>2. ~(y < x)
    BY <1>2, <1>3, <2>1
  <2> QED BY <2>1, <2>2
<1> QED BY <1>4


\* What holds of the empty list and is kept by one more entry holds of all lists.
LEMMA ListInduction ==
    ASSUME NEW S, NEW G, <<>> \in G,
           \A s \in Seq(S), e \in S : s \in G => Append(s, e) \in G
    PROVE  \A s \in Seq(S) : s \in G
<1> SUFFICES ASSUME NEW z \in Seq(S), z \notin G PROVE FALSE
  OBVIOUS
<1> DEFINE B == {s \in Seq(S) : s \notin G}
           T == {Len(s) : s \in B}
<1>1. T \subseteq Nat /\ T # {}
  OBVIOUS
<1>2. PICK n \in T : \A m \in T : n =< m
  BY <1>1, LeastOf
<1>3. PICK s \in B : n = Len(s)
  OBVIOUS
<1>4. s \in Seq(S) /\ s # <<>>
  OBVIOUS
<1>5. PICK t \in Seq(S), e \in S : s = Append(t, e)
  BY <1>4, SequenceEmptyOrAppend
<1>6. Len(t) < Len(s) /\ Len(t) \in Nat
  BY <1>5
<1>7. t \in G
  BY <1>2, <1>3, <1>6
<1> QED BY <1>3, <1>5, <1>7

\* Within, entry by entry.
Turn(out, p, set) == IF p \in set THEN PushNew(out, p) ELSE out
Runs(list, set, out) ==
    out = [n \in 0 .. Len(list) |-> IF n = 0 THEN <<>> ELSE Turn(out[n - 1], list[n], set)]

LEMMA RunIs ==
    ASSUME NEW list \in Seq(SCPaths), NEW set
    PROVE  Within(list, set) = (CHOOSE out : Runs(list, set, out))[Len(list)]
BY Zenon DEF Within, Runs, Turn

LEMMA RunStep ==
    ASSUME NEW list \in Seq(SCPaths), NEW set, NEW out, Runs(list, set, out)
    PROVE  /\ DOMAIN out = 0 .. Len(list) /\ out[0] = <<>>
           /\ \A n \in 1 .. Len(list) : out[n] = Turn(out[n - 1], list[n], set)
           /\ out = [n \in 0 .. Len(list) |-> out[n]]
BY DEF Runs

LEMMA OneRun ==
    ASSUME NEW list \in Seq(SCPaths), NEW set, NEW f, NEW g,
           Runs(list, set, f), Runs(list, set, g)
    PROVE  f = g
<1> DEFINE T == {n \in 0 .. Len(list) : f[n] # g[n]}
<1>1. CASE T = {}
  <2>1. \A n \in 0 .. Len(list) : f[n] = g[n]
    BY <1>1
  <2> HIDE DEF T
  <2> QED BY <2>1, RunStep
<1>2. CASE T # {}
  <2>1. T \subseteq Nat
    OBVIOUS
  <2>2. PICK n \in T : \A m \in T : n =< m
    BY <1>2, <2>1, LeastOf
  <2>3. n \in 0 .. Len(list) /\ f[n] # g[n]
    OBVIOUS
  <2>4. n # 0
    BY <2>3, RunStep
  <2>5. n \in 1 .. Len(list) /\ n - 1 \in 0 .. Len(list) /\ ~ (n =< n - 1)
    BY <2>3, <2>4
  <2>6. f[n - 1] = g[n - 1]
    BY <2>2, <2>5
  <2> HIDE DEF T
  <2> QED BY <2>3, <2>5, <2>6, RunStep
<1> QED BY <1>1, <1>2

\* A run of a list is a run of the list with one more entry, up to that entry.
LEMMA RunGrows ==
    ASSUME NEW list \in Seq(SCPaths), NEW e \in SCPaths, NEW set, NEW f, Runs(list, set, f)
    PROVE  \E g : /\ Runs(Append(list, e), set, g) /\ g[Len(list)] = f[Len(list)]
                  /\ g[Len(list) + 1] = Turn(f[Len(list)], e, set)
<1> DEFINE n == Len(list)
           more == Append(list, e)
           g == [i \in 0 .. n + 1 |-> IF i = n + 1 THEN Turn(f[n], e, set) ELSE f[i]]
<1>1. n \in Nat /\ Len(more) = n + 1 /\ more[n + 1] = e /\ \A i \in 1 .. n : more[i] = list[i]
  OBVIOUS
<1>2. f[0] = <<>> /\ \A i \in 1 .. n : f[i] = Turn(f[i - 1], list[i], set)
  BY RunStep
<1> HIDE DEF n, more
<1>3. n \in 0 .. n + 1 /\ n # n + 1 /\ n + 1 \in 0 .. n + 1 /\ 0 \in 0 .. n + 1 /\ 0 # n + 1
  BY <1>1
<1>4. g[n] = f[n] /\ g[n + 1] = Turn(f[n], e, set) /\ g[0] = <<>>
  BY <1>2, <1>3
<1>5. ASSUME NEW i \in 1 .. n + 1 PROVE g[i] = Turn(g[i - 1], more[i], set)
  <2>1. CASE i = n + 1
    <3>1. i - 1 = n
      BY <1>1, <2>1
    <3> HIDE DEF g
    <3> QED BY <1>1, <1>4, <2>1, <3>1
  <2>2. CASE i # n + 1
    <3>1. i \in 1 .. n /\ i - 1 \in 0 .. n + 1 /\ i - 1 # n + 1 /\ i \in 0 .. n + 1
      BY <1>1, <2>2
    <3>2. g[i] = f[i] /\ g[i - 1] = f[i - 1]
      BY <2>2, <3>1
    <3> HIDE DEF g
    <3> QED BY <1>1, <1>2, <3>1, <3>2
  <2> QED BY <2>1, <2>2
<1>6. g = [i \in 0 .. n + 1 |-> g[i]]
  OBVIOUS
<1> HIDE DEF g
<1>7. \A i \in 0 .. n + 1 : g[i] = IF i = 0 THEN <<>> ELSE Turn(g[i - 1], more[i], set)
  <2> TAKE i \in 0 .. n + 1
  <2>1. CASE i = 0
    BY <1>4, <2>1
  <2>2. CASE i # 0
    <3>1. i \in 1 .. n + 1
      BY <1>1, <2>2
    <3> QED BY <1>5, <2>2, <3>1
  <2> QED BY <2>1, <2>2
<1>8. Runs(more, set, g)
  BY <1>1, <1>6, <1>7 DEF Runs
<1> QED BY <1>4, <1>8 DEF n, more

LEMMA RunExists ==
    ASSUME NEW list \in Seq(SCPaths), NEW set
    PROVE  \E out : Runs(list, set, out)
<1> DEFINE G == {s \in Seq(SCPaths) : \E out : Runs(s, set, out)}
<1>1. <<>> \in G
  <2> DEFINE out == [n \in 0 .. 0 |-> <<>>]
  <2>1. Runs(<<>>, set, out)
    BY DEF Runs
  <2> HIDE DEF out
  <2> QED BY <2>1
<1>2. ASSUME NEW s \in Seq(SCPaths), NEW e \in SCPaths, s \in G PROVE Append(s, e) \in G
  <2>1. PICK f : Runs(s, set, f)
    BY <1>2
  <2>2. Append(s, e) \in Seq(SCPaths)
    OBVIOUS
  <2> QED BY <2>1, <2>2, RunGrows
<1> HIDE DEF G
<1>3. list \in G
  BY <1>1, <1>2, ListInduction
<1> QED BY <1>3 DEF G

\* The two equations of Within.
LEMMA WithinEmpty == \A set : Within(<<>>, set) = <<>>
<1> SUFFICES ASSUME NEW set PROVE Within(<<>>, set) = <<>>
  OBVIOUS
<1> DEFINE out == CHOOSE o : Runs(<<>>, set, o)
<1>1. <<>> \in Seq(SCPaths) /\ Len(<<>>) = 0
  OBVIOUS
<1>2. Runs(<<>>, set, out)
  BY <1>1, RunExists
<1>3. Within(<<>>, set) = out[0]
  BY <1>1, RunIs
<1> HIDE DEF out
<1> QED BY <1>1, <1>2, <1>3, RunStep

LEMMA WithinMore ==
    ASSUME NEW list \in Seq(SCPaths), NEW e \in SCPaths, NEW set
    PROVE  Within(Append(list, e), set) = Turn(Within(list, set), e, set)
<1> DEFINE f == CHOOSE o : Runs(list, set, o)
           h == CHOOSE o : Runs(Append(list, e), set, o)
<1>1. Append(list, e) \in Seq(SCPaths) /\ Len(Append(list, e)) = Len(list) + 1
  OBVIOUS
<1>2. Runs(list, set, f) /\ Runs(Append(list, e), set, h)
  BY <1>1, RunExists
<1>3. Within(list, set) = f[Len(list)] /\ Within(Append(list, e), set) = h[Len(list) + 1]
  BY <1>1, RunIs
<1> HIDE DEF f, h
<1>4. PICK g : Runs(Append(list, e), set, g) /\ g[Len(list) + 1] = Turn(f[Len(list)], e, set)
  BY <1>2, RunGrows
<1>5. g = h
  BY <1>1, <1>2, <1>4, OneRun
<1> QED BY <1>3, <1>4, <1>5

LEMMA EmptyEntries == ToSet(<<>>) = {}
BY DEF ToSet

\* One turn keeps what is there and adds the entry if it belongs and is new.
LEMMA TurnFacts ==
    ASSUME NEW out, NEW e, NEW set
    PROVE  Turn(out, e, set) =
             IF e \in set /\ e \notin ToSet(out) THEN Append(out, e) ELSE out
BY DEF Turn, PushNew

\* What Within keeps: of the set what is in the list, and nothing else.
LEMMA WithinFacts ==
    ASSUME NEW list \in Seq(SCPaths), NEW set
    PROVE  /\ Within(list, set) \in Seq(SCPaths)
           /\ ToSet(Within(list, set)) = ToSet(list) \cap set
<1> DEFINE G == {s \in Seq(SCPaths) : /\ Within(s, set) \in Seq(SCPaths)
                                      /\ ToSet(Within(s, set)) = ToSet(s) \cap set}
<1>1. <<>> \in G
  <2>1. Within(<<>>, set) = <<>>
    BY WithinEmpty
  <2>2. <<>> \in Seq(SCPaths) /\ ToSet(<<>>) = {}
    BY EmptyEntries
  <2>3. Within(<<>>, set) \in Seq(SCPaths) /\ ToSet(Within(<<>>, set)) = {}
    BY <2>1, <2>2, Zenon
  <2>4. ToSet(Within(<<>>, set)) = ToSet(<<>>) \cap set
    BY <2>2, <2>3
  <2> QED BY <2>2, <2>3, <2>4, Zenon
<1>2. ASSUME NEW s \in Seq(SCPaths), NEW e \in SCPaths, s \in G PROVE Append(s, e) \in G
  <2>1. Within(s, set) \in Seq(SCPaths) /\ ToSet(Within(s, set)) = ToSet(s) \cap set
    BY <1>2
  <2>2. Append(s, e) \in Seq(SCPaths) /\ ToSet(Append(s, e)) = ToSet(s) \cup {e}
    BY AppendSet
  <2>3. /\ Turn(Within(s, set), e, set) \in Seq(SCPaths)
        /\ ToSet(Turn(Within(s, set), e, set)) = ToSet(Within(s, set)) \cup ({e} \cap set)
    <3> DEFINE w == Within(s, set)
    <3>1. w \in Seq(SCPaths)
      BY <2>1
    <3> HIDE DEF w
    <3>2. Append(w, e) \in Seq(SCPaths) /\ ToSet(Append(w, e)) = ToSet(w) \cup {e}
      BY <3>1, AppendSet
    <3>3. Turn(w, e, set) = IF e \in set /\ e \notin ToSet(w) THEN Append(w, e) ELSE w
      BY TurnFacts
    <3>4. /\ Turn(w, e, set) \in Seq(SCPaths)
          /\ ToSet(Turn(w, e, set)) = ToSet(w) \cup ({e} \cap set)
      BY <3>1, <3>2, <3>3
    <3> QED BY <3>4 DEF w
  <2>4. Within(Append(s, e), set) = Turn(Within(s, set), e, set)
    BY WithinMore
  <2> QED BY <2>1, <2>2, <2>3, <2>4
<1> HIDE DEF G
<1>3. list \in G
  BY <1>1, <1>2, ListInduction
<1> QED BY <1>3 DEF G

\* One more entry, said of the list instead of what is kept of it.
LEMMA WithinAppend ==
    ASSUME NEW list \in Seq(SCPaths), NEW e \in SCPaths, NEW set
    PROVE  Within(Append(list, e), set) =
             IF e \in set /\ e \notin ToSet(list) THEN Append(Within(list, set), e)
             ELSE Within(list, set)
<1> DEFINE w == Within(list, set)
<1>1. w \in Seq(SCPaths) /\ ToSet(w) = ToSet(list) \cap set
  BY WithinFacts
<1>2. Within(Append(list, e), set) = Turn(w, e, set)
  BY WithinMore
<1> HIDE DEF w
<1>3. Turn(w, e, set) = IF e \in set /\ e \notin ToSet(list) THEN Append(w, e) ELSE w
  BY <1>1, TurnFacts
<1> QED BY <1>2, <1>3 DEF w

\* Only what the set says of the list matters.
LEMMA WithinSame ==
    ASSUME NEW list \in Seq(SCPaths), NEW A, NEW B, ToSet(list) \cap A = ToSet(list) \cap B
    PROVE  Within(list, A) = Within(list, B)
<1> DEFINE G == {s \in Seq(SCPaths) : ToSet(s) \cap A = ToSet(s) \cap B
                                        => Within(s, A) = Within(s, B)}
<1>1. <<>> \in G
  BY WithinEmpty
<1>2. ASSUME NEW s \in Seq(SCPaths), NEW e \in SCPaths, s \in G PROVE Append(s, e) \in G
  <2>1. Append(s, e) \in Seq(SCPaths) /\ ToSet(Append(s, e)) = ToSet(s) \cup {e}
    BY AppendSet
  <2> SUFFICES ASSUME ToSet(Append(s, e)) \cap A = ToSet(Append(s, e)) \cap B
               PROVE  Within(Append(s, e), A) = Within(Append(s, e), B)
    BY <2>1
  <2>2. ToSet(s) \cap A = ToSet(s) \cap B /\ (e \in A <=> e \in B)
    BY <2>1
  <2>3. Within(s, A) = Within(s, B)
    BY <1>2, <2>2
  <2>4. Within(Append(s, e), A) =
          IF e \in A /\ e \notin ToSet(s) THEN Append(Within(s, A), e) ELSE Within(s, A)
    BY WithinAppend
  <2>5. Within(Append(s, e), B) =
          IF e \in B /\ e \notin ToSet(s) THEN Append(Within(s, B), e) ELSE Within(s, B)
    BY WithinAppend
  <2> QED BY <2>2, <2>3, <2>4, <2>5
<1> HIDE DEF G
<1>3. list \in G
  BY <1>1, <1>2, ListInduction
<1> QED BY <1>3 DEF G

\* Kept twice over is kept once, of both sets.
LEMMA WithinTwice ==
    ASSUME NEW list \in Seq(SCPaths), NEW A, NEW B
    PROVE  Within(Within(list, A), B) = Within(list, A \cap B)
<1> DEFINE G == {s \in Seq(SCPaths) : Within(Within(s, A), B) = Within(s, A \cap B)}
<1>1. <<>> \in G
  BY WithinEmpty
<1>2. ASSUME NEW s \in Seq(SCPaths), NEW e \in SCPaths, s \in G PROVE Append(s, e) \in G
  <2>1. Append(s, e) \in Seq(SCPaths)
    BY AppendSet
  <2>2. Within(s, A) \in Seq(SCPaths) /\ ToSet(Within(s, A)) = ToSet(s) \cap A
    BY WithinFacts
  <2>3. Within(Within(s, A), B) = Within(s, A \cap B)
    BY <1>2
  <2>4. CASE e \in A /\ e \notin ToSet(s)
    <3>1. Within(Append(s, e), A) = Append(Within(s, A), e)
      BY <2>4, WithinAppend
    <3>2. Within(Append(Within(s, A), e), B) =
            IF e \in B THEN Append(Within(Within(s, A), B), e) ELSE Within(Within(s, A), B)
      <4> DEFINE w == Within(s, A)
      <4>1. w \in Seq(SCPaths) /\ e \notin ToSet(w)
        BY <2>2, <2>4
      <4> HIDE DEF w
      <4>2. Within(Append(w, e), B) = IF e \in B THEN Append(Within(w, B), e) ELSE Within(w, B)
        BY <4>1, WithinAppend
      <4> QED BY <4>2 DEF w
    <3>3. Within(Append(s, e), A \cap B) =
            IF e \in B THEN Append(Within(s, A \cap B), e) ELSE Within(s, A \cap B)
      <4>1. e \in A \cap B /\ e \notin ToSet(s) <=> e \in B
        BY <2>4
      <4>2. Within(Append(s, e), A \cap B) =
              IF e \in A \cap B /\ e \notin ToSet(s) THEN Append(Within(s, A \cap B), e)
              ELSE Within(s, A \cap B)
        BY WithinAppend, Zenon
      <4> QED BY <4>1, <4>2
    <3>4. Within(Within(Append(s, e), A), B) = Within(Append(s, e), A \cap B)
      BY <2>3, <3>1, <3>2, <3>3
    <3> QED BY <2>1, <3>4
  <2>5. CASE ~ (e \in A /\ e \notin ToSet(s))
    <3>1. Within(Append(s, e), A) = Within(s, A)
      BY <2>5, WithinAppend
    <3>2. Within(Append(s, e), A \cap B) = Within(s, A \cap B)
      <4>1. ~ (e \in A \cap B /\ e \notin ToSet(s))
        BY <2>5
      <4> QED BY <4>1, WithinAppend
    <3> QED BY <2>1, <2>3, <3>1, <3>2
  <2> QED BY <2>4, <2>5
<1> HIDE DEF G
<1>3. list \in G
  BY <1>1, <1>2, ListInduction
<1> QED BY <1>3 DEF G

\* Two lists in a row.
LEMMA ConcatSet ==
    ASSUME NEW S, NEW a \in Seq(S), NEW b \in Seq(S)
    PROVE  a \o b \in Seq(S) /\ ToSet(a \o b) = ToSet(a) \cup ToSet(b)
<1>1. /\ a \o b \in Seq(S) /\ Len(a \o b) = Len(a) + Len(b)
      /\ Len(a) \in Nat /\ Len(b) \in Nat
      /\ \A i \in 1 .. Len(a) + Len(b) : (a \o b)[i] = IF i =< Len(a) THEN a[i] ELSE b[i - Len(a)]
  BY ConcatProperties
<1>2. ToSet(a) = {a[i] : i \in 1 .. Len(a)} /\ ToSet(b) = {b[i] : i \in 1 .. Len(b)}
  BY DEF ToSet
<1>3. ToSet(a \o b) = {(a \o b)[i] : i \in 1 .. Len(a) + Len(b)}
  BY <1>1 DEF ToSet
<1>4. ToSet(a \o b) \subseteq ToSet(a) \cup ToSet(b)
  <2> SUFFICES ASSUME NEW i \in 1 .. Len(a) + Len(b)
               PROVE  (a \o b)[i] \in ToSet(a) \cup ToSet(b)
    BY <1>3
  <2>1. CASE i =< Len(a)
    BY <1>1, <1>2, <2>1
  <2>2. CASE ~ (i =< Len(a))
    <3>1. i - Len(a) \in 1 .. Len(b)
      BY <1>1, <2>2
    <3> QED BY <1>1, <1>2, <2>2, <3>1
  <2> QED BY <2>1, <2>2
<1>5. ASSUME NEW i \in 1 .. Len(a) PROVE a[i] \in ToSet(a \o b)
  BY <1>1, <1>3
<1>6. ASSUME NEW i \in 1 .. Len(b) PROVE b[i] \in ToSet(a \o b)
  <2>1. i + Len(a) \in 1 .. Len(a) + Len(b) /\ ~ (i + Len(a) =< Len(a)) /\ (i + Len(a)) - Len(a) = i
    BY <1>1
  <2>2. (a \o b)[i + Len(a)] = b[i]
    BY <1>1, <2>1
  <2> QED BY <1>3, <2>1, <2>2
<1> QED BY <1>1, <1>2, <1>4, <1>5, <1>6

LEMMA WithinConcat ==
    ASSUME NEW a \in Seq(SCPaths), NEW b \in Seq(SCPaths), NEW set
    PROVE  Within(a \o b, set) = Within(a, set) \o Within(b, set \ ToSet(a))
<1> DEFINE rest == set \ ToSet(a)
           G == {s \in Seq(SCPaths) : Within(a \o s, set) = Within(a, set) \o Within(s, rest)}
<1>1. <<>> \in G
  <2>1. a \o <<>> = a /\ Within(a, set) \in Seq(SCPaths) /\ Within(<<>>, rest) = <<>>
    BY WithinEmpty, WithinFacts, ConcatEmptySeq
  <2>2. Within(a, set) \o <<>> = Within(a, set)
    BY <2>1, ConcatEmptySeq
  <2> HIDE DEF rest
  <2> QED BY <2>1, <2>2
<1>2. ASSUME NEW s \in Seq(SCPaths), NEW e \in SCPaths, s \in G PROVE Append(s, e) \in G
  <2>1. Append(s, e) \in Seq(SCPaths)
    BY AppendSet
  <2>2. /\ Within(a, set) \in Seq(SCPaths) /\ Within(s, rest) \in Seq(SCPaths)
        /\ a \o s \in Seq(SCPaths) /\ ToSet(a \o s) = ToSet(a) \cup ToSet(s)
    BY WithinFacts, ConcatSet
  <2>3. a \o Append(s, e) = Append(a \o s, e)
    OBVIOUS
  <2>4. Within(a, set) \o Append(Within(s, rest), e) = Append(Within(a, set) \o Within(s, rest), e)
    BY <2>2
  <2>5. Within(a \o s, set) = Within(a, set) \o Within(s, rest)
    BY <1>2
  <2>6. Within(Append(s, e), rest) = IF e \in set /\ e \notin ToSet(a) \cup ToSet(s)
                                     THEN Append(Within(s, rest), e) ELSE Within(s, rest)
    BY WithinAppend
  <2>7. Within(Append(a \o s, e), set) = IF e \in set /\ e \notin ToSet(a) \cup ToSet(s)
                                         THEN Append(Within(a \o s, set), e) ELSE Within(a \o s, set)
    BY <2>2, WithinAppend
  <2> HIDE DEF rest
  <2> QED BY <2>1, <2>3, <2>4, <2>5, <2>6, <2>7
<1> HIDE DEF G
<1>3. b \in G
  BY <1>1, <1>2, ListInduction
<1> QED BY <1>3 DEF G

\* What the first entry is, if it is kept at all.
LEMMA WithinFirst ==
    ASSUME NEW list \in Seq(SCPaths), NEW set, list # <<>>, list[1] \in set
    PROVE  Within(list, set) # <<>> /\ Within(list, set)[1] = list[1]
<1> DEFINE Kept1(s) == Within(s, set) # <<>> /\ Within(s, set)[1] = s[1]
           G == {s \in Seq(SCPaths) : s # <<>> /\ s[1] \in set => Kept1(s)}
<1>1. <<>> \in G
  OBVIOUS
<1>2. ASSUME NEW s \in Seq(SCPaths), NEW e \in SCPaths, s \in G PROVE Append(s, e) \in G
  <2> SUFFICES ASSUME Append(s, e)[1] \in set PROVE Kept1(Append(s, e))
    BY AppendSet
  <2>1. CASE s = <<>>
    <3>1. Append(s, e) = <<e>> /\ Append(s, e)[1] = e /\ ToSet(s) = {}
      BY <2>1 DEF ToSet
    <3>2. Within(s, set) = <<>>
      BY <2>1, WithinEmpty
    <3>3. Within(Append(s, e), set) = Append(Within(s, set), e)
      <4>1. e \in set /\ e \notin ToSet(s)
        BY <3>1
      <4> QED BY <4>1, WithinAppend, Zenon
    <3>4. Append(<<>>, e) = <<e>> /\ <<e>> # <<>> /\ <<e>>[1] = e
      OBVIOUS
    <3> QED BY <3>1, <3>2, <3>3, <3>4
  <2>2. CASE s # <<>>
    <3>1. Append(s, e)[1] = s[1]
      BY <2>2
    <3>2. Within(s, set) \in Seq(SCPaths) /\ Kept1(s)
      BY <1>2, <2>2, <3>1, WithinFacts
    <3>3. Append(Within(s, set), e) # <<>> /\ Append(Within(s, set), e)[1] = Within(s, set)[1]
      BY <3>2
    <3> QED BY <3>1, <3>2, <3>3, WithinAppend
  <2> QED BY <2>1, <2>2
<1> HIDE DEF G
<1>3. list \in G
  BY <1>1, <1>2, ListInduction
<1> QED BY <1>3 DEF G

----------------------------------------------------------------------------
(* The catalog: membership *)

LEMMA PathsOfList ==
    ASSUME NEW list \in Seq(SCPaths)
    PROVE  ToSet(list) \subseteq SCPaths
BY DEF ToSet

\* What Within keeps names no path twice.
LEMMA OnceWithin ==
    ASSUME NEW list \in Seq(SCPaths), NEW set
    PROVE  Once(Within(list, set))
<1>1. Within(Within(list, set), SCPaths) = Within(list, set \cap SCPaths)
  BY WithinTwice
<1>2. ToSet(list) \cap (set \cap SCPaths) = ToSet(list) \cap set
  BY PathsOfList
<1>3. Within(list, set \cap SCPaths) = Within(list, set)
  BY <1>2, WithinSame
<1> QED BY <1>1, <1>3 DEF Once

\* A list that names no path twice is kept whole.
LEMMA OnceAll ==
    ASSUME NEW list \in Seq(SCPaths), Once(list), NEW set, ToSet(list) \subseteq set
    PROVE  Within(list, set) = list
<1>1. ToSet(list) \cap set = ToSet(list) \cap SCPaths
  BY PathsOfList
<1>2. Within(list, set) = Within(list, SCPaths)
  BY <1>1, WithinSame
<1> QED BY <1>2 DEF Once

LEMMA NothingKept ==
    ASSUME NEW list \in Seq(SCPaths), NEW set, ToSet(list) \cap set = {}
    PROVE  Within(list, set) = <<>>
<1>1. Within(list, set) \in Seq(SCPaths) /\ ToSet(Within(list, set)) = {}
  BY WithinFacts
<1>2. ASSUME NEW w \in Seq(SCPaths), w # <<>> PROVE ToSet(w) # {}
  <2>1. PICK t \in Seq(SCPaths), e \in SCPaths : w = Append(t, e)
    BY <1>2, SequenceEmptyOrAppend
  <2>2. ToSet(Append(t, e)) = ToSet(t) \cup {e}
    BY AppendSet
  <2>3. e \in ToSet(w)
    BY <2>1, <2>2
  <2> QED BY <2>3
<1> QED BY <1>1, <1>2

LEMMA ConcatAppend ==
    ASSUME NEW S, NEW a \in Seq(S), NEW b \in Seq(S), NEW e \in S
    PROVE  a \o Append(b, e) = Append(a \o b, e)
OBVIOUS

LEMMA OnceConcat ==
    ASSUME NEW a \in Seq(SCPaths), NEW b \in Seq(SCPaths), Once(a), Once(b),
           ToSet(a) \cap ToSet(b) = {}
    PROVE  Once(a \o b)
<1>1. Within(a \o b, SCPaths) = Within(a, SCPaths) \o Within(b, SCPaths \ ToSet(a))
  BY WithinConcat
<1>2. ToSet(b) \subseteq SCPaths \ ToSet(a)
  BY PathsOfList
<1>3. Within(b, SCPaths \ ToSet(a)) = b
  BY <1>2, OnceAll
<1> QED BY <1>1, <1>3 DEF Once

LEMMA OnceAppend ==
    ASSUME NEW list \in Seq(SCPaths), Once(list), NEW p \in SCPaths, p \notin ToSet(list)
    PROVE  Once(Append(list, p))
<1>1. Within(Append(list, p), SCPaths) = Append(Within(list, SCPaths), p)
  BY WithinAppend
<1> QED BY <1>1 DEF Once

\* What is served, of lists in order.
LEMMA NaturalIs ==
    ASSUME NEW l \in CatalogLists, Orderly(l)
    PROVE  /\ Natural(l) = l.base \o l.added /\ Natural(l) \in Seq(SCPaths) /\ Once(Natural(l))
           /\ ToSet(Natural(l)) = ToSet(l.base) \cup ToSet(l.added)
<1>1. l.base \in Seq(SCPaths) /\ l.added \in Seq(SCPaths) /\ l.hidden \subseteq SCPaths
  BY DEF CatalogLists
<1>2. /\ l.base \o l.added \in Seq(SCPaths)
      /\ ToSet(l.base \o l.added) = ToSet(l.base) \cup ToSet(l.added)
  BY <1>1, ConcatSet
<1>3. Once(l.base \o l.added)
  BY <1>1, OnceConcat DEF Orderly
<1>4. ToSet(l.base \o l.added) \subseteq SCPaths \ l.hidden
  BY <1>1, <1>2, PathsOfList DEF Orderly
<1>5. Natural(l) = l.base \o l.added
  BY <1>2, <1>3, <1>4, OnceAll DEF Natural
<1> QED BY <1>2, <1>3, <1>5

LEMMA UnionIs ==
    ASSUME NEW l \in CatalogLists, Orderly(l)
    PROVE  /\ UnionPaths(l) = Within(l.order \o Natural(l), SCPaths)
           /\ UnionPaths(l) \in Seq(SCPaths) /\ l.order \o Natural(l) \in Seq(SCPaths)
           /\ ToSet(UnionPaths(l)) = ToSet(l.base) \cup ToSet(l.added)
           /\ ToSet(l.order \o Natural(l)) = ToSet(l.base) \cup ToSet(l.added)
           /\ l.order \in Seq(SCPaths)
<1> DEFINE all == l.order \o Natural(l)
           served == ToSet(l.base) \cup ToSet(l.added)
<1>1. l.order \in Seq(SCPaths) /\ Natural(l) \in Seq(SCPaths) /\ ToSet(Natural(l)) = served
  BY NaturalIs DEF CatalogLists
<1>2. all \in Seq(SCPaths) /\ ToSet(all) = ToSet(l.order) \cup served
  BY <1>1, ConcatSet
<1>3. ToSet(all) = served
  BY <1>2 DEF Orderly
<1>4. UnionPaths(l) = Within(all, served)
  BY <1>1 DEF UnionPaths
<1> HIDE DEF all, served
<1>5. ToSet(all) \cap served = ToSet(all) \cap SCPaths
  BY <1>2, <1>3, PathsOfList
<1>6. Within(all, served) = Within(all, SCPaths)
  BY <1>2, <1>5, WithinSame
<1>7. Within(all, served) \in Seq(SCPaths) /\ ToSet(Within(all, served)) = served
  BY <1>2, <1>3, WithinFacts
<1> QED BY <1>1, <1>2, <1>3, <1>4, <1>6, <1>7 DEF all, served

\* An open puts its path at the end.
LEMMA ShownFacts ==
    ASSUME NEW l \in CatalogLists, Orderly(l), NEW p \in SCPaths, p \notin ToSet(UnionPaths(l))
    PROVE  /\ Shown(l, p) \in CatalogLists /\ Orderly(Shown(l, p))
           /\ UnionPaths(Shown(l, p)) = Append(UnionPaths(l), p)
<1> DEFINE m == Shown(l, p)
<1>1. /\ l.base \in Seq(SCPaths) /\ l.added \in Seq(SCPaths) /\ l.hidden \subseteq SCPaths
      /\ l.order \in Seq(SCPaths)
  BY DEF CatalogLists
<1>2. p \notin ToSet(l.base) /\ p \notin ToSet(l.added) /\ p \notin ToSet(l.order)
  BY UnionIs DEF Orderly
<1>3. Without(l.base, p) = l.base
  <2>1. ToSet(l.base) \subseteq SCPaths \ {p}
    BY <1>1, <1>2, PathsOfList
  <2> QED BY <1>1, <2>1, OnceAll DEF Without, Orderly
<1>4. PushNew(l.added, p) = Append(l.added, p)
  BY <1>2 DEF PushNew
<1>5. m = [l EXCEPT !.hidden = l.hidden \ {p}, !.base = l.base, !.added = Append(l.added, p)]
  BY <1>3, <1>4 DEF Shown
<1>6. /\ m.base = l.base /\ m.added = Append(l.added, p) /\ m.hidden = l.hidden \ {p}
      /\ m.order = l.order
  BY <1>5 DEF CatalogLists
<1>7. Append(l.added, p) \in Seq(SCPaths) /\ ToSet(Append(l.added, p)) = ToSet(l.added) \cup {p}
  BY <1>1, AppendSet
<1>8. m \in CatalogLists
  BY <1>1, <1>5, <1>7 DEF CatalogLists
<1>9. Orderly(m)
  <2>1. Once(Append(l.added, p))
    BY <1>1, <1>2, OnceAppend DEF Orderly
  <2> HIDE DEF m
  <2> QED BY <1>2, <1>6, <1>7, <2>1 DEF Orderly
<1> HIDE DEF m
<1>10. Natural(m) = Append(Natural(l), p)
  <2> DEFINE a == l.base
             b == l.added
  <2>1. a \o Append(b, p) = Append(a \o b, p)
    <3>1. a \in Seq(SCPaths) /\ b \in Seq(SCPaths)
      BY <1>1
    <3> HIDE DEF a, b
    <3> QED BY <3>1, ConcatAppend
  <2> QED BY <1>6, <1>8, <1>9, <2>1, NaturalIs
<1>11. m.order \o Natural(m) = Append(l.order \o Natural(l), p)
  <2>1. Natural(l) \in Seq(SCPaths)
    BY NaturalIs
  <2> DEFINE a == l.order
             b == Natural(l)
  <2>2. a \o Append(b, p) = Append(a \o b, p)
    <3>1. a \in Seq(SCPaths) /\ b \in Seq(SCPaths)
      BY <1>1, <2>1
    <3> HIDE DEF a, b
    <3> QED BY <3>1, ConcatAppend
  <2> QED BY <1>6, <1>10, <2>2
<1>12. UnionPaths(m) = Append(UnionPaths(l), p)
  <2>1. UnionPaths(m) = Within(Append(l.order \o Natural(l), p), SCPaths)
    BY <1>8, <1>9, <1>11, UnionIs
  <2>2. /\ l.order \o Natural(l) \in Seq(SCPaths) /\ p \notin ToSet(l.order \o Natural(l))
        /\ UnionPaths(l) = Within(l.order \o Natural(l), SCPaths)
    BY <1>2, UnionIs
  <2> QED BY <2>1, <2>2, WithinAppend
<1> QED BY <1>8, <1>9, <1>12 DEF m

\* A close takes its own path out and moves no other.
LEMMA WithoutFacts ==
    ASSUME NEW list \in Seq(SCPaths), NEW p
    PROVE  /\ Without(list, p) \in Seq(SCPaths) /\ ToSet(Without(list, p)) = ToSet(list) \ {p}
           /\ Once(Without(list, p))
<1>1. ToSet(list) \cap (SCPaths \ {p}) = ToSet(list) \ {p}
  BY PathsOfList
<1> QED BY <1>1, WithinFacts, OnceWithin DEF Without

LEMMA WithoutConcat ==
    ASSUME NEW a \in Seq(SCPaths), NEW b \in Seq(SCPaths), NEW p, ToSet(a) \cap ToSet(b) = {}
    PROVE  Without(a \o b, p) = Without(a, p) \o Without(b, p)
<1>1. Within(a \o b, SCPaths \ {p}) =
        Within(a, SCPaths \ {p}) \o Within(b, (SCPaths \ {p}) \ ToSet(a))
  BY WithinConcat
<1>2. ToSet(b) \cap ((SCPaths \ {p}) \ ToSet(a)) = ToSet(b) \cap (SCPaths \ {p})
  OBVIOUS
<1>3. Within(b, (SCPaths \ {p}) \ ToSet(a)) = Within(b, SCPaths \ {p})
  BY <1>2, WithinSame
<1> QED BY <1>1, <1>3 DEF Without

LEMMA RemovedFacts ==
    ASSUME NEW l \in CatalogLists, Orderly(l), NEW p \in SCPaths
    PROVE  /\ RemovePath(l, p) \in CatalogLists /\ Orderly(RemovePath(l, p))
           /\ UnionPaths(RemovePath(l, p)) = Without(UnionPaths(l), p)
<1> DEFINE m == RemovePath(l, p)
<1>1. /\ l.base \in Seq(SCPaths) /\ l.added \in Seq(SCPaths) /\ l.hidden \subseteq SCPaths
      /\ l.order \in Seq(SCPaths)
  BY DEF CatalogLists
<1>2. /\ m.base = Without(l.base, p) /\ m.added = Without(l.added, p)
      /\ m.order = Without(l.order, p) /\ m.hidden = l.hidden \cup {p}
  BY DEF RemovePath, CatalogLists
<1>3. /\ m.base \in Seq(SCPaths) /\ ToSet(m.base) = ToSet(l.base) \ {p} /\ Once(m.base)
      /\ m.added \in Seq(SCPaths) /\ ToSet(m.added) = ToSet(l.added) \ {p} /\ Once(m.added)
      /\ m.order \in Seq(SCPaths) /\ ToSet(m.order) = ToSet(l.order) \ {p} /\ Once(m.order)
  BY <1>1, <1>2, WithoutFacts
<1>4. m \in CatalogLists
  <2> DEFINE a == Without(l.added, p)
             b == Without(l.base, p)
             o == Without(l.order, p)
  <2>1. a \in Seq(SCPaths) /\ b \in Seq(SCPaths) /\ o \in Seq(SCPaths)
    BY <1>1, WithoutFacts
  <2>2. m = [l EXCEPT !.added = a, !.base = b, !.order = o, !.hidden = l.hidden \cup {p}]
    BY DEF RemovePath
  <2> HIDE DEF a, b, o, m
  <2> QED BY <1>1, <2>1, <2>2 DEF CatalogLists
<1> HIDE DEF m
<1>5. Orderly(m)
  BY <1>2, <1>3 DEF Orderly
<1> DEFINE N == Natural(l)
           rest == SCPaths \ ToSet(l.order)
<1>6. N \in Seq(SCPaths) /\ N = l.base \o l.added
  BY NaturalIs
<1>7. Natural(m) = Without(N, p)
  <2>1. Without(l.base \o l.added, p) = Without(l.base, p) \o Without(l.added, p)
    BY <1>1, WithoutConcat DEF Orderly
  <2> QED BY <1>2, <1>4, <1>5, <1>6, <2>1, NaturalIs
<1> HIDE DEF N
<1>8. UnionPaths(l) = l.order \o Within(N, rest)
  <2>1. UnionPaths(l) = Within(l.order \o N, SCPaths)
    BY UnionIs DEF N
  <2>2. Within(l.order \o N, SCPaths) = Within(l.order, SCPaths) \o Within(N, rest)
    BY <1>1, <1>6, WithinConcat
  <2>3. Within(l.order, SCPaths) = l.order
    BY DEF Orderly, Once
  <2> QED BY <2>1, <2>2, <2>3
<1>9. Without(UnionPaths(l), p) = m.order \o Without(Within(N, rest), p)
  <2>1. Within(N, rest) \in Seq(SCPaths) /\ ToSet(Within(N, rest)) = ToSet(N) \cap rest
    BY <1>6, WithinFacts
  <2>2. ToSet(l.order) \cap ToSet(Within(N, rest)) = {}
    BY <2>1
  <2> DEFINE w == Within(N, rest)
  <2>3. w \in Seq(SCPaths) /\ ToSet(l.order) \cap ToSet(w) = {}
    BY <2>1, <2>2
  <2> HIDE DEF w
  <2>4. Without(l.order \o w, p) = Without(l.order, p) \o Without(w, p)
    <3> DEFINE o == l.order
    <3>1. o \in Seq(SCPaths) /\ ToSet(o) \cap ToSet(w) = {}
      BY <1>1, <2>3
    <3> HIDE DEF o
    <3>2. Without(o \o w, p) = Without(o, p) \o Without(w, p)
      BY <2>3, <3>1, WithoutConcat
    <3> QED BY <3>2 DEF o
  <2> QED BY <1>2, <1>8, <2>4 DEF w
<1>10. UnionPaths(m) = m.order \o Within(Natural(m), SCPaths \ ToSet(m.order))
  <2>1. UnionPaths(m) = Within(m.order \o Natural(m), SCPaths)
    BY <1>4, <1>5, UnionIs
  <2>2. Natural(m) \in Seq(SCPaths)
    BY <1>4, <1>5, NaturalIs
  <2>3. Within(m.order \o Natural(m), SCPaths) =
          Within(m.order, SCPaths) \o Within(Natural(m), SCPaths \ ToSet(m.order))
    BY <1>3, <2>2, WithinConcat
  <2> QED BY <1>3, <2>1, <2>3 DEF Once
<1>11. Within(Natural(m), SCPaths \ ToSet(m.order)) = Without(Within(N, rest), p)
  <2>0. \A A, B : Within(Within(N, A), B) = Within(N, A \cap B)
    BY <1>6, WithinTwice
  <2>1. Within(Natural(m), SCPaths \ ToSet(m.order)) =
          Within(N, (SCPaths \ {p}) \cap (SCPaths \ ToSet(m.order)))
    BY <1>7, <2>0 DEF Without
  <2>2. Without(Within(N, rest), p) = Within(N, rest \cap (SCPaths \ {p}))
    BY <2>0 DEF Without
  <2>3. (SCPaths \ {p}) \cap (SCPaths \ ToSet(m.order)) = rest \cap (SCPaths \ {p})
    BY <1>3
  <2> QED BY <2>1, <2>2, <2>3
<1> QED BY <1>4, <1>5, <1>9, <1>10, <1>11 DEF m

\* A reorder loses no path and invents none.
LEMMA ArrangedFacts ==
    ASSUME NEW list \in Seq(SCPaths), NEW desired \in Seq(SCPaths)
    PROVE  /\ Arranged(list, desired) \in Seq(SCPaths) /\ Once(Arranged(list, desired))
           /\ ToSet(Arranged(list, desired)) = ToSet(list)
<1>1. desired \o list \in Seq(SCPaths) /\ ToSet(desired \o list) = ToSet(desired) \cup ToSet(list)
  BY ConcatSet
<1>2. (ToSet(desired) \cup ToSet(list)) \cap ToSet(list) = ToSet(list)
  OBVIOUS
<1> QED BY <1>1, <1>2, WithinFacts, OnceWithin DEF Arranged

LEMMA ReorderedFacts ==
    ASSUME NEW l \in CatalogLists, Orderly(l), NEW desired \in Seq(SCPaths)
    PROVE  /\ Reordered(l, desired) \in CatalogLists /\ Orderly(Reordered(l, desired))
           /\ UnionPaths(Reordered(l, desired)) = Arranged(UnionPaths(l), desired)
<1> DEFINE m == Reordered(l, desired)
           served == ToSet(l.base) \cup ToSet(l.added)
<1>1. UnionPaths(l) \in Seq(SCPaths) /\ ToSet(UnionPaths(l)) = served
  BY UnionIs
<1>2. /\ Arranged(UnionPaths(l), desired) \in Seq(SCPaths)
      /\ Once(Arranged(UnionPaths(l), desired))
      /\ ToSet(Arranged(UnionPaths(l), desired)) = served
  BY <1>1, ArrangedFacts
<1>3. /\ m.base = l.base /\ m.added = l.added /\ m.hidden = l.hidden
      /\ m.order = Arranged(UnionPaths(l), desired)
  BY DEF Reordered, CatalogLists
<1>4. m \in CatalogLists
  BY <1>2 DEF Reordered, CatalogLists
<1> HIDE DEF m
<1>5. Orderly(m)
  BY <1>2, <1>3 DEF Orderly
<1>6. Natural(m) \in Seq(SCPaths) /\ ToSet(Natural(m)) = served
  BY <1>3, <1>4, <1>5, NaturalIs
<1>7. UnionPaths(m) = Within(m.order \o Natural(m), SCPaths)
  BY <1>4, <1>5, UnionIs
<1>8. m.order \in Seq(SCPaths) /\ Once(m.order) /\ ToSet(m.order) = served
  BY <1>2, <1>3
<1> HIDE DEF served
<1>9. Within(m.order \o Natural(m), SCPaths) =
        Within(m.order, SCPaths) \o Within(Natural(m), SCPaths \ ToSet(m.order))
  BY <1>6, <1>8, WithinConcat
<1>10. Within(Natural(m), SCPaths \ ToSet(m.order)) = <<>>
  <2>1. ToSet(Natural(m)) \cap (SCPaths \ ToSet(m.order)) = {}
    BY <1>6, <1>8
  <2> QED BY <1>6, <2>1, NothingKept
<1>11. Within(m.order, SCPaths) = m.order
  BY <1>8 DEF Once
<1>12. m.order \o <<>> = m.order
  BY <1>8, ConcatEmptySeq
<1>13. UnionPaths(m) = m.order
  BY <1>7, <1>9, <1>10, <1>11, <1>12
<1> QED BY <1>3, <1>4, <1>5, <1>13 DEF m

----------------------------------------------------------------------------
(* The catalog: calls and entries *)

LEMMA EntryIs ==
    ASSUME CatalogType
    PROVE  /\ DOMAIN entries = 1 .. Len(entries) /\ Len(entries) \in Nat
           /\ \A i \in DOMAIN entries : entries[i].path \in SCPaths /\ entries[i].hub \in Nat
<1> DEFINE R == [path : SCPaths, hub : Nat]
<1>1. entries \in Seq(R)
  BY DEF CatalogType
<1>2. \A x \in R : x.path \in SCPaths /\ x.hub \in Nat
  OBVIOUS
<1> HIDE DEF R
<1>3. DOMAIN entries = 1 .. Len(entries) /\ Len(entries) \in Nat
  BY <1>1
<1>4. \A i \in DOMAIN entries : entries[i] \in R
  BY <1>1, <1>3
<1> QED BY <1>2, <1>3, <1>4

\* The entries as paths.
LEMMA ServedIs ==
    ASSUME CatalogType
    PROVE  /\ Paths \in Seq(SCPaths) /\ Served = ToSet(Paths) /\ Len(Paths) = Len(entries)
           /\ Served \subseteq SCPaths /\ 0 \notin Served
           /\ \A i \in 1 .. Len(entries) : Paths[i] = entries[i].path
<1>2. /\ DOMAIN entries = 1 .. Len(entries) /\ Len(entries) \in Nat
      /\ \A i \in 1 .. Len(entries) : entries[i].path \in SCPaths
  BY EntryIs
<1>3. Paths \in Seq(SCPaths) /\ Len(Paths) = Len(entries)
      /\ \A i \in 1 .. Len(entries) : Paths[i] = entries[i].path
  BY <1>2 DEF Paths
<1>4. Served = ToSet(Paths)
  BY DEF Served, Paths
<1> QED BY <1>3, <1>4, PathsOfList, SCAssumption

\* A change of the lists: who stays keeps its hub, who is new gets one with the
\* tables as they stand.
LEMMA ReconcileFacts ==
    ASSUME CatalogType, NEW m \in CatalogLists, UnionPaths(m) \in Seq(SCPaths), Reconcile(m)
    PROVE  /\ lists' = m /\ entries' \in Seq([path : SCPaths, hub : Nat]) /\ plug' \in Seq(Nat)
           /\ Paths' = UnionPaths(m) /\ Served' = ToSet(UnionPaths(m))
           /\ plug' = plug \/ plug' = Append(plug, tables)
           /\ \A i \in DOMAIN entries' :
                \/ \E j \in DOMAIN entries : entries'[i].hub = entries[j].hub
                \/ entries'[i].hub = Len(plug) + 1 /\ plug' = Append(plug, tables)
<1> DEFINE next == UnionPaths(m)
           new == ToSet(next) \ Served
           hub(p) == IF p \in new THEN Len(plug) + 1
                     ELSE entries[CHOOSE i \in DOMAIN entries : entries[i].path = p].hub
<1>1. /\ lists' = m
      /\ entries' = [i \in DOMAIN next |-> [path |-> next[i], hub |-> hub(next[i])]]
      /\ plug' = IF new = {} THEN plug ELSE Append(plug, tables)
  BY DEF Reconcile
<1>2. plug \in Seq(Nat) /\ tables \in Nat /\ entries \in Seq([path : SCPaths, hub : Nat])
  BY DEF CatalogType
<1>3. plug' \in Seq(Nat) /\ (plug' = plug \/ plug' = Append(plug, tables))
  BY <1>1, <1>2
<1>4. ASSUME NEW p \in ToSet(next), p \notin new
      PROVE  \E j \in DOMAIN entries : hub(p) = entries[j].hub
  <2>1. p \in Served
    BY <1>4
  <2>2. \E i \in DOMAIN entries : entries[i].path = p
    BY <2>1 DEF Served, ToSet
  <2> QED BY <1>4, <2>2
<1>5. ASSUME NEW p \in ToSet(next)
      PROVE  /\ \/ \E j \in DOMAIN entries : hub(p) = entries[j].hub
                \/ hub(p) = Len(plug) + 1 /\ plug' = Append(plug, tables)
             /\ hub(p) \in Nat
  <2>1. CASE p \in new
    BY <1>1, <1>2, <2>1
  <2>2. CASE p \notin new
    <3>1. PICK j \in DOMAIN entries : hub(p) = entries[j].hub
      BY <1>4, <2>2
    <3>2. entries[j].hub \in Nat
      BY EntryIs
    <3> HIDE DEF hub
    <3> QED BY <3>1, <3>2
  <2> QED BY <2>1, <2>2
<1> HIDE DEF hub, new
<1>6. next \in Seq(SCPaths) /\ DOMAIN next = 1 .. Len(next) /\ Len(next) \in Nat
      /\ \A i \in DOMAIN next : next[i] \in SCPaths /\ next[i] \in ToSet(next)
  BY DEF ToSet
<1> HIDE DEF next
<1>7. /\ DOMAIN entries' = DOMAIN next
      /\ \A i \in DOMAIN next : entries'[i].path = next[i] /\ entries'[i].hub = hub(next[i])
  BY <1>1
<1>8. entries' \in Seq([path : SCPaths, hub : Nat])
  BY <1>1, <1>5, <1>6
<1>9. Paths' = next
  <2>1. Paths' = [i \in DOMAIN next |-> next[i]]
    BY <1>7 DEF Paths
  <2> QED BY <1>6, <2>1
<1>10. Served' = ToSet(next)
  BY <1>9 DEF Served, Paths
<1>11. \A i \in DOMAIN entries' :
         \/ \E j \in DOMAIN entries : entries'[i].hub = entries[j].hub
         \/ entries'[i].hub = Len(plug) + 1 /\ plug' = Append(plug, tables)
  BY <1>5, <1>6, <1>7
<1> QED BY <1>1, <1>3, <1>8, <1>9, <1>10, <1>11 DEF next

\* One caller moves on.
LEMMA CallFacts ==
    ASSUME CatalogType, NEW c \in Callers, NEW r \in CatalogCall, Becomes(c, r)
    PROVE  /\ call' \in [Callers -> CatalogCall] /\ call'[c] = r
           /\ \A d \in Callers : d # c => call'[d] = call[d]
BY DEF CatalogType, Becomes

LEMMA IdleCall ==
    /\ NoCall \in CatalogCall /\ StepsRight(NoCall)
    /\ NoCall.op = "none" /\ NoCall.pc = "idle" /\ NoCall.hubs = <<>> /\ NoCall.focus = 0
    /\ NoCall.succ = 0 /\ NoCall.path = 0 /\ NoCall.todo = <<>> /\ NoCall.desired = <<>>
BY DEF NoCall, CatalogCall, CatalogOps, CatalogSteps, StepsRight

LEMMA GoesCall ==
    ASSUME NEW k \in CatalogCall, NEW pc \in CatalogSteps
    PROVE  LET r == [k EXCEPT !.pc = pc]
           IN  /\ r \in CatalogCall /\ r.pc = pc /\ r.op = k.op /\ r.path = k.path
               /\ r.focus = k.focus /\ r.succ = k.succ /\ r.hubs = k.hubs
               /\ r.version = k.version
BY DEF CatalogCall

LEMMA CallType ==
    ASSUME CatalogType, NEW c \in Callers
    PROVE  /\ call[c] \in CatalogCall /\ call[c].op \in CatalogOps /\ call[c].path \in Nat
           /\ call[c].focus \in Nat /\ call[c].succ \in Nat /\ call[c].todo \in Seq(SCPaths)
           /\ call[c].desired \in Seq(SCPaths) /\ call[c].version \in Nat
           /\ call[c].hubs \in Seq(Nat) /\ call[c].repos \in Seq(SCPaths)
           /\ call[c].active \in Nat
BY DEF CatalogType, CatalogCall

LEMMA PersistsIs == Persists \in {"load", "return"} /\ Persists \in CatalogSteps
BY DEF Persists, CatalogSteps

\* A step that changes nothing but the call it is a step of.
Fits(c, r) ==
    /\ r \in CatalogCall /\ StepsRight(r) /\ r.pc \notin {"swap", "tell"}
    /\ call[c].pc \notin {"swap", "tell"}
    /\ r.hubs = call[c].hubs \/ r.hubs = <<>>
    /\ r.op \in {"close", "reorder"} /\ front.tab # 0 /\ ~front.twice =>
         /\ Named /\ r.focus = pref => NoThief(r)
         /\ Fallen => Keeper(r)

LEMMA LocalStep ==
    ASSUME CatalogInv, NEW c \in Callers, NEW r, Fits(c, r), Becomes(c, r),
           UNCHANGED <<catvars, reloadvars, pref, front, tabs>>,
           file' \in [repos : Seq(SCPaths), active : Nat]
    PROVE  CatalogInv'
<1> USE DEF CatalogInv
<1>1. UNCHANGED <<lists, entries, plug, tables, config, missed, reloading, pref, front, tabs>>
  BY DEF catvars, reloadvars
<1>2. /\ call' \in [Callers -> CatalogCall] /\ call'[c] = r
      /\ \A d \in Callers : d # c => call'[d] = call[d]
  BY CallFacts DEF Fits
<1>3. CatalogType'
  BY <1>1, <1>2 DEF CatalogType
<1>4. Stages'
  BY <1>2 DEF Stages, Fits
<1>5. Orderly(lists)' /\ TabsKept' /\ Paths' = Paths /\ Served' = Served
  BY <1>1 DEF Orderly, TabsKept, Paths, Served, UnionPaths, Natural
<1>6. FrontRight'
  <2> SUFFICES ASSUME front.tab # 0, ~front.twice PROVE Named' \/ Fallen'
    BY <1>1, <1>5 DEF FrontRight
  <2>1. CASE Named
    BY <1>1, <1>2, <2>1 DEF Named, Fits
  <2>2. CASE Fallen
    <3>1. ASSUME NEW d \in Callers, call'[d].op \in {"close", "reorder"} PROVE Keeper(call[d])'
      <4>1. CASE d = c
        <5>1. Keeper(r)
          BY <1>2, <2>2, <3>1, <4>1 DEF Fits
        <5> QED BY <1>1, <1>2, <4>1, <5>1 DEF Keeper
      <4>2. CASE d # c
        <5>1. Keeper(call[d]) /\ call'[d] = call[d]
          BY <1>2, <2>2, <3>1, <4>2 DEF Fallen
        <5> QED BY <1>1, <5>1 DEF Keeper
      <4> QED BY <4>1, <4>2
    <3> QED BY <1>1, <1>5, <2>2, <3>1 DEF Fallen
  <2> QED BY <2>1, <2>2 DEF FrontRight
<1>7. ReloadRight'
  <2>1. \A d \in Callers : ToSet(call'[d].hubs) \subseteq 1 .. Len(plug)
    <3>1. ToSet(<<>>) = {}
      BY EmptyEntries
    <3> QED BY <1>2, <3>1 DEF ReloadRight, Fits
  <2>2. \A d \in Callers : call'[d].pc \in {"swap", "tell"} <=> reloading = d
    BY <1>2 DEF ReloadRight, Fits
  <2>3. \A d \in Callers : call'[d].pc = "tell" => call'[d].version = tables
    BY <1>2 DEF ReloadRight, Fits
  <2>4. \A d \in Callers : call[d].pc = "tell" => call'[d] = call[d]
    BY <1>2 DEF Fits
  <2>5. ASSUME NEW i \in DOMAIN entries
        PROVE  /\ entries[i].hub \in 1 .. Len(plug)
               /\ \/ plug[entries[i].hub] = tables \/ entries[i].hub \in missed
                  \/ \E d \in Callers :
                       call'[d].pc = "tell" /\ entries[i].hub \in ToSet(call'[d].hubs)
    BY <2>4 DEF ReloadRight
  <2> QED BY <1>1, <2>1, <2>2, <2>3, <2>5 DEF ReloadRight
<1> QED BY <1>3, <1>4, <1>5, <1>6, <1>7

----------------------------------------------------------------------------
(* The catalog: the steps of one call *)

\* What the invariant says of a caller before its step.
LEMMA HereFacts ==
    ASSUME CatalogInv, NEW c \in Callers
    PROVE  /\ CatalogType /\ StepsRight(call[c]) /\ call[c] \in CatalogCall
           /\ call[c].pc \in {"swap", "tell"} <=> reloading = c
           /\ front.tab # 0 => front.tab \in Served
           /\ Named /\ call[c].op \in {"close", "reorder"} /\ call[c].focus = pref =>
                NoThief(call[c])
           /\ Fallen /\ call[c].op \in {"close", "reorder"} => Keeper(call[c])
           /\ file \in [repos : Seq(SCPaths), active : Nat]
BY CallType DEF CatalogInv, Stages, FrontRight, ReloadRight, Named, Fallen, CatalogType

\* A call that ends leaves nothing behind.
LEMMA EndStep ==
    ASSUME CatalogInv, NEW c \in Callers, call[c].pc \notin {"swap", "tell"}, Ends(c),
           UNCHANGED <<catvars, reloadvars, pref, front, tabs>>,
           file' \in [repos : Seq(SCPaths), active : Nat]
    PROVE  CatalogInv'
<1>1. Fits(c, NoCall)
  BY IdleCall DEF Fits
<1> QED BY <1>1, LocalStep DEF Ends

\* A call that takes one more step without reading anything.
LEMMA GoStep ==
    ASSUME CatalogInv, NEW c \in Callers, NEW pc \in CatalogSteps, GoesTo(c, pc),
           call[c].pc \notin {"swap", "tell"}, pc \notin {"swap", "tell"},
           StepsRight([call[c] EXCEPT !.pc = pc]),
           call[c].op \in {"close", "reorder"} /\ front.tab # 0 /\ ~front.twice =>
             /\ Named /\ call[c].focus = pref => NoThief([call[c] EXCEPT !.pc = pc])
             /\ Fallen => Keeper([call[c] EXCEPT !.pc = pc]),
           UNCHANGED <<catvars, reloadvars, pref, front, tabs, othervars>>
    PROVE  CatalogInv'
<1> DEFINE r == [call[c] EXCEPT !.pc = pc]
<1>1. /\ call[c] \in CatalogCall /\ file \in [repos : Seq(SCPaths), active : Nat]
      /\ file' = file
  BY HereFacts DEF othervars
<1>2. /\ r \in CatalogCall /\ r.pc = pc /\ r.op = call[c].op /\ r.focus = call[c].focus
      /\ r.hubs = call[c].hubs
  BY <1>1, GoesCall
<1>3. StepsRight(r) /\ Becomes(c, r)
  BY DEF GoesTo
<1>4. call[c].op \in {"close", "reorder"} /\ front.tab # 0 /\ ~front.twice =>
        /\ Named /\ call[c].focus = pref => NoThief(r)
        /\ Fallen => Keeper(r)
  OBVIOUS
<1> HIDE DEF r
<1>5. Fits(c, r)
  BY <1>2, <1>3, <1>4 DEF Fits
<1> QED BY <1>1, <1>3, <1>5, LocalStep

\* The fields of a call that goes on.
LEMMA GoneFields ==
    ASSUME CatalogInv, NEW c \in Callers, NEW pc \in CatalogSteps
    PROVE  LET k == call[c]
               r == [call[c] EXCEPT !.pc = pc]
           IN  /\ r.pc = pc /\ r.op = k.op /\ r.path = k.path /\ r.focus = k.focus
               /\ r.succ = k.succ
BY HereFacts, GoesCall

LEMMA AskStep == ASSUME CatalogInv, NEW c \in Callers, Ask(c) PROVE CatalogInv'
<1>1. call[c].pc = "idle" /\ UNCHANGED <<catvars, reloadvars, pref, file, front, tabs>>
  BY DEF Ask, CallAt
<1>2. file' \in [repos : Seq(SCPaths), active : Nat]
  BY <1>1, HereFacts
<1>3. ASSUME NEW r, Becomes(c, r), r \in CatalogCall, r.hubs = <<>>, r.focus = 0, r.succ = 0,
             \/ r.op = "open" /\ r.pc = "add" /\ r.path \in SCPaths
             \/ r.op \in {"close", "focus"} /\ r.pc = "get" /\ r.path \in SCPaths
             \/ r.op = "reorder" /\ r.pc = "read"
             \/ r.op = "reload" /\ r.pc = "lock"
      PROVE  CatalogInv'
  <2>1. StepsRight(r)
    BY <1>3 DEF StepsRight
  <2>2. r.op \in {"close", "reorder"} => NoThief(r) /\ Keeper(r)
    BY <1>3 DEF NoThief, Keeper
  <2>3. Fits(c, r)
    BY <1>1, <1>3, <2>1, <2>2 DEF Fits
  <2> QED BY <1>1, <1>2, <1>3, <2>3, LocalStep
<1>4. ASSUME NEW op \in {"open", "close", "focus"}, NEW p \in SCPaths,
             Becomes(c, [NoCall EXCEPT !.op = op, !.pc = IF op = "open" THEN "add" ELSE "get",
                                       !.path = p])
      PROVE  CatalogInv'
  <2> DEFINE r == [NoCall EXCEPT !.op = op, !.pc = IF op = "open" THEN "add" ELSE "get", !.path = p]
  <2>1. /\ r \in CatalogCall /\ r.hubs = <<>> /\ r.focus = 0 /\ r.succ = 0 /\ r.op = op
        /\ r.pc = IF op = "open" THEN "add" ELSE "get"
        /\ r.path = p
    <3> DEFINE k == NoCall
               pc == IF op = "open" THEN "add" ELSE "get"
    <3>1. k \in CatalogCall /\ k.hubs = <<>> /\ k.focus = 0 /\ k.succ = 0
      BY IdleCall
    <3>2. op \in CatalogOps /\ pc \in CatalogSteps /\ p \in Nat
      BY SCAssumption DEF CatalogOps, CatalogSteps
    <3> HIDE DEF k, pc
    <3>3. LET q == [k EXCEPT !.op = op, !.pc = pc, !.path = p]
          IN  /\ q \in CatalogCall /\ q.hubs = <<>> /\ q.focus = 0 /\ q.succ = 0 /\ q.op = op
              /\ q.pc = pc /\ q.path = p
      BY <3>1, <3>2 DEF CatalogCall
    <3> QED BY <3>3 DEF k, pc
  <2>2. Becomes(c, r)
    BY <1>4
  <2> HIDE DEF r
  <2> QED BY <1>3, <2>1, <2>2
<1>5. ASSUME NEW ids \in SCOrders,
             Becomes(c, [NoCall EXCEPT !.op = "reorder", !.pc = "read", !.todo = ids])
      PROVE  CatalogInv'
  <2> DEFINE r == [NoCall EXCEPT !.op = "reorder", !.pc = "read", !.todo = ids]
  <2>1. /\ r \in CatalogCall /\ r.hubs = <<>> /\ r.focus = 0 /\ r.succ = 0 /\ r.op = "reorder"
        /\ r.pc = "read"
    <3> DEFINE k == NoCall
    <3>1. k \in CatalogCall /\ k.hubs = <<>> /\ k.focus = 0 /\ k.succ = 0
      BY IdleCall
    <3>2. "reorder" \in CatalogOps /\ "read" \in CatalogSteps /\ ids \in Seq(SCPaths)
      BY SCAssumption DEF CatalogOps, CatalogSteps
    <3> HIDE DEF k
    <3>3. LET q == [k EXCEPT !.op = "reorder", !.pc = "read", !.todo = ids]
          IN  /\ q \in CatalogCall /\ q.hubs = <<>> /\ q.focus = 0 /\ q.succ = 0
              /\ q.op = "reorder" /\ q.pc = "read"
      BY <3>1, <3>2 DEF CatalogCall
    <3> QED BY <3>3 DEF k
  <2>2. Becomes(c, r)
    BY <1>5
  <2> HIDE DEF r
  <2> QED BY <1>3, <2>1, <2>2
<1>6. ASSUME Becomes(c, [NoCall EXCEPT !.op = "reload", !.pc = "lock"]) PROVE CatalogInv'
  <2> DEFINE r == [NoCall EXCEPT !.op = "reload", !.pc = "lock"]
  <2>1. /\ r \in CatalogCall /\ r.hubs = <<>> /\ r.focus = 0 /\ r.succ = 0 /\ r.op = "reload"
        /\ r.pc = "lock"
    <3> DEFINE k == NoCall
    <3>1. k \in CatalogCall /\ k.hubs = <<>> /\ k.focus = 0 /\ k.succ = 0
      BY IdleCall
    <3>2. "reload" \in CatalogOps /\ "lock" \in CatalogSteps
      BY DEF CatalogOps, CatalogSteps
    <3> HIDE DEF k
    <3>3. LET q == [k EXCEPT !.op = "reload", !.pc = "lock"]
          IN  /\ q \in CatalogCall /\ q.hubs = <<>> /\ q.focus = 0 /\ q.succ = 0
              /\ q.op = "reload" /\ q.pc = "lock"
      BY <3>1, <3>2 DEF CatalogCall
    <3> QED BY <3>3 DEF k
  <2>2. Becomes(c, r)
    BY <1>6
  <2> HIDE DEF r
  <2> QED BY <1>3, <2>1, <2>2
<1>7. PICK op \in scScript.ops :
        \/ /\ op \in {"open", "close", "focus"}
           /\ \E p \in SCPaths :
                Becomes(c, [NoCall EXCEPT !.op = op, !.pc = IF op = "open" THEN "add" ELSE "get",
                                          !.path = p])
        \/ /\ op = "reorder"
           /\ \E ids \in SCOrders :
                Becomes(c, [NoCall EXCEPT !.op = op, !.pc = "read", !.todo = ids])
        \/ op = "reload" /\ Becomes(c, [NoCall EXCEPT !.op = op, !.pc = "lock"])
  BY DEF Ask
<1> QED BY <1>4, <1>5, <1>6, <1>7

LEMMA GetEntryStep == ASSUME CatalogInv, NEW c \in Callers, GetEntry(c) PROVE CatalogInv'
<1>1. /\ call[c].pc = "get" /\ StepsRight(call[c])
      /\ UNCHANGED <<catvars, reloadvars, pref, front, tabs, othervars>>
  BY HereFacts DEF GetEntry, CallAt
<1>2. CASE call[c].path \notin Served
  <2>1. Ends(c) /\ file' \in [repos : Seq(SCPaths), active : Nat]
    BY <1>1, <1>2, HereFacts DEF GetEntry, othervars
  <2> QED BY <1>1, <2>1, EndStep
<1>3. CASE call[c].path \in Served
  <2> DEFINE pc == IF call[c].op = "focus" THEN "set" ELSE "read"
             r == [call[c] EXCEPT !.pc = pc]
  <2>1. pc \in CatalogSteps /\ pc \notin {"swap", "tell"}
    BY DEF CatalogSteps
  <2>2. r.pc = pc /\ r.op = call[c].op /\ r.path = call[c].path /\ r.focus = call[c].focus
        /\ r.succ = call[c].succ
    BY <2>1, GoneFields
  <2>3. call[c].op \in CatalogOps
    BY HereFacts, CallType
  <2>4. GoesTo(c, pc)
    BY <1>3 DEF GetEntry
  <2>5. StepsRight(r) /\ (r.op \in {"close", "reorder"} => NoThief(r) /\ Keeper(r))
    <3> HIDE DEF r
    <3> QED BY <1>1, <2>2, <2>3 DEF StepsRight, NoThief, Keeper, CatalogOps
  <2> HIDE DEF pc
  <2> QED BY <1>1, <2>1, <2>2, <2>4, <2>5, GoStep
<1> QED BY <1>2, <1>3

LEMMA GetAddedStep == ASSUME CatalogInv, NEW c \in Callers, GetAdded(c) PROVE CatalogInv'
<1> DEFINE pc == IF call[c].path \in Served THEN "set" ELSE Persists
           r == [call[c] EXCEPT !.pc = pc]
<1>1. /\ call[c].pc = "added" /\ StepsRight(call[c]) /\ call[c].op \in CatalogOps
      /\ UNCHANGED <<catvars, reloadvars, pref, front, tabs, othervars>>
  BY HereFacts, CallType DEF GetAdded, CallAt
<1>2. pc \in {"set", "load", "return"} /\ pc \in CatalogSteps
  BY PersistsIs DEF CatalogSteps
<1>3. r.pc = pc /\ r.op = call[c].op /\ r.path = call[c].path /\ r.focus = call[c].focus
      /\ r.succ = call[c].succ
  BY <1>2, GoneFields
<1>4. GoesTo(c, pc)
  BY DEF GetAdded
<1>5. call[c].op = "open"
  BY <1>1 DEF StepsRight, CatalogOps
<1>6. StepsRight(r)
  <2> HIDE DEF r
  <2> QED BY <1>1, <1>2, <1>3, <1>5 DEF StepsRight
<1> HIDE DEF pc
<1> QED BY <1>1, <1>2, <1>4, <1>5, <1>6, GoStep

LEMMA ReturnStep == ASSUME CatalogInv, NEW c \in Callers, ReturnCall(c) PROVE CatalogInv'
<1>1. /\ call[c].pc = "return" /\ Ends(c)
      /\ UNCHANGED <<catvars, reloadvars, pref, front, tabs, othervars>>
  BY DEF ReturnCall, CallAt
<1> QED BY <1>1, HereFacts, EndStep DEF othervars

LEMMA AddNothingStep ==
    ASSUME CatalogInv, NEW c \in Callers, call[c].pc = "add", GoesTo(c, "added") \/ Ends(c),
           UNCHANGED <<catvars, reloadvars, pref, front, tabs, othervars>>
    PROVE  CatalogInv'
<1>1. CASE Ends(c)
  BY <1>1, HereFacts, EndStep DEF othervars
<1>2. CASE GoesTo(c, "added")
  <2> DEFINE r == [call[c] EXCEPT !.pc = "added"]
  <2>1. StepsRight(call[c]) /\ call[c].op \in CatalogOps
    BY HereFacts, CallType
  <2>2. "added" \in CatalogSteps
    BY DEF CatalogSteps
  <2>3. r.pc = "added" /\ r.op = call[c].op /\ r.path = call[c].path /\ r.focus = call[c].focus
        /\ r.succ = call[c].succ
    BY <2>2, GoneFields
  <2>4. call[c].op = "open"
    BY <2>1 DEF StepsRight, CatalogOps
  <2>5. StepsRight(r)
    <3> HIDE DEF r
    <3> QED BY <2>1, <2>3, <2>4 DEF StepsRight
  <2> QED BY <1>2, <2>2, <2>4, <2>5, GoStep
<1> QED BY <1>1, <1>2

\* A step of a close or a reorder that changes what it knows.
LEMMA KnowStep ==
    ASSUME CatalogInv, NEW c \in Callers, NEW r, Becomes(c, r), r \in CatalogCall,
           call[c].op \in {"close", "reorder"}, call[c].pc \notin {"swap", "tell"},
           r.op = call[c].op, r.path = call[c].path, r.hubs = call[c].hubs, StepsRight(r),
           front.tab # 0 => /\ Named /\ r.focus = pref => NoThief(r)
                            /\ Fallen => Keeper(r),
           UNCHANGED <<catvars, reloadvars, pref, front, tabs, othervars>>
    PROVE  CatalogInv'
<1>1. r.pc \notin {"swap", "tell"}
  BY DEF StepsRight
<1>2. Fits(c, r)
  BY <1>1 DEF Fits
<1>3. file' \in [repos : Seq(SCPaths), active : Nat]
  BY HereFacts DEF othervars
<1> QED BY <1>2, <1>3, LocalStep

\* Two fields of a call change.
LEMMA KnowFocus ==
    ASSUME NEW k \in CatalogCall, NEW pc \in CatalogSteps, NEW n \in Nat
    PROVE  LET r == [k EXCEPT !.focus = n, !.pc = pc]
           IN  /\ r \in CatalogCall /\ r.op = k.op /\ r.path = k.path /\ r.hubs = k.hubs
               /\ r.pc = pc /\ r.focus = n /\ r.succ = k.succ
BY DEF CatalogCall

LEMMA KnowSucc ==
    ASSUME NEW k \in CatalogCall, NEW pc \in CatalogSteps, NEW n \in Nat
    PROVE  LET r == [k EXCEPT !.succ = n, !.pc = pc]
           IN  /\ r \in CatalogCall /\ r.op = k.op /\ r.path = k.path /\ r.hubs = k.hubs
               /\ r.pc = pc /\ r.focus = k.focus /\ r.succ = n
BY DEF CatalogCall

LEMMA ReadFocusStep == ASSUME CatalogInv, NEW c \in Callers, ReadFocus(c) PROVE CatalogInv'
<1> DEFINE k == call[c]
           r == [k EXCEPT !.focus = pref, !.pc = "resolve"]
<1>1. /\ k.pc = "read" /\ Becomes(c, r)
      /\ UNCHANGED <<catvars, reloadvars, pref, front, tabs, othervars>>
  BY DEF ReadFocus, CallAt
<1>2. k \in CatalogCall /\ StepsRight(k) /\ pref \in Nat /\ "resolve" \in CatalogSteps
      /\ k.op \in CatalogOps
  BY HereFacts, CallType DEF CatalogType, CatalogSteps
<1>3. /\ r \in CatalogCall /\ r.op = k.op /\ r.path = k.path /\ r.hubs = k.hubs
      /\ r.pc = "resolve" /\ r.focus = pref /\ r.succ = k.succ
  <2> HIDE DEF k
  <2> QED BY <1>2, KnowFocus
<1>4. k.op \in {"close", "reorder"} /\ k.succ = 0
  BY <1>1, <1>2 DEF StepsRight, CatalogOps
<1> HIDE DEF r
<1>5. StepsRight(r) /\ NoThief(r) /\ Keeper(r)
  BY <1>1, <1>2, <1>3, <1>4 DEF StepsRight, NoThief, Keeper
<1> QED BY <1>1, <1>3, <1>4, <1>5, KnowStep

LEMMA ResolveFocusStep == ASSUME CatalogInv, NEW c \in Callers, ResolveFocus(c) PROVE CatalogInv'
<1> DEFINE k == call[c]
           pc == IF k.focus \notin Served THEN "first"
                 ELSE IF k.op = "close" THEN AfterFront(c, k.focus) ELSE "paths"
           r == [call[c] EXCEPT !.pc = pc]
<1>1. /\ k.pc = "resolve" /\ GoesTo(c, pc)
      /\ UNCHANGED <<catvars, reloadvars, pref, front, tabs, othervars>>
  BY DEF ResolveFocus, CallAt
<1>2. StepsRight(k) /\ k.op \in CatalogOps
  BY HereFacts, CallType
<1>3. k.op \in {"close", "reorder"} /\ k.succ = 0
  BY <1>1, <1>2 DEF StepsRight, CatalogOps
<1>4. pc = IF k.focus \notin Served THEN "first"
           ELSE IF k.op = "reorder" THEN "paths"
           ELSE IF k.focus = k.path THEN "successor" ELSE "remove"
  BY <1>3 DEF AfterFront
<1> HIDE DEF pc
<1>5. pc \in CatalogSteps
  BY <1>4 DEF CatalogSteps
<1>6. r.pc = pc /\ r.op = k.op /\ r.path = k.path /\ r.focus = k.focus /\ r.succ = k.succ
  BY <1>5, GoneFields
<1>7. /\ pc \notin {"swap", "tell"} /\ k.pc \notin {"swap", "tell"}
  BY <1>1, <1>4
<1> HIDE DEF r
<1>8. StepsRight(r)
  BY <1>1, <1>2, <1>3, <1>4, <1>6 DEF StepsRight
<1>9. front.tab # 0 /\ Named /\ k.focus = pref => NoThief(r)
  BY <1>3, <1>4, <1>6, HereFacts DEF NoThief, Named
<1>10. Fallen => Keeper(r)
  <2> SUFFICES ASSUME Fallen PROVE Keeper(r)
    OBVIOUS
  <2>1. k.focus = pref /\ pref \notin Served
    BY <1>1, <1>3, HereFacts DEF Keeper, Fallen
  <2> QED BY <1>3, <1>4, <1>6, <2>1 DEF Keeper
<1> HIDE DEF k
<1>11. StepsRight([call[c] EXCEPT !.pc = pc])
  BY <1>8 DEF r
<1>12. k = call[c]
  BY DEF k
<1>13. /\ front.tab # 0 /\ Named /\ call[c].focus = pref => NoThief([call[c] EXCEPT !.pc = pc])
       /\ Fallen => Keeper([call[c] EXCEPT !.pc = pc])
  BY <1>9, <1>10, <1>12 DEF r
<1> QED BY <1>1, <1>5, <1>7, <1>11, <1>12, <1>13, GoStep

\* The tab in front when the preference names nothing that is served.
LEMMA FirstIs ==
    ASSUME CatalogType
    PROVE  /\ (IF entries = <<>> THEN 0 ELSE Paths[1]) \in Nat
           /\ Served # {} => entries # <<>> /\ Paths # <<>> /\ Paths[1] \in Served
           /\ entries # <<>> => 1 \in DOMAIN entries /\ Paths[1] \in Served
<1>1. /\ Paths \in Seq(SCPaths) /\ Len(Paths) = Len(entries) /\ Served = ToSet(Paths)
      /\ DOMAIN entries = 1 .. Len(entries) /\ Len(entries) \in Nat
  BY ServedIs, EntryIs
<1>2. entries = <<>> <=> Len(entries) = 0
  <2>1. entries \in Seq([path : SCPaths, hub : Nat])
    BY DEF CatalogType
  <2> DEFINE R == [path : SCPaths, hub : Nat]
  <2> HIDE DEF R
  <2>2. entries \in Seq(R)
    BY <2>1 DEF R
  <2> QED BY <2>2
<1>3. ASSUME Len(entries) # 0
      PROVE  1 \in DOMAIN entries /\ Paths[1] \in SCPaths /\ Paths[1] \in ToSet(Paths)
  BY <1>1, <1>3 DEF ToSet
<1>4. Len(entries) = 0 => ToSet(Paths) = {}
  BY <1>1 DEF ToSet
<1> QED BY <1>1, <1>2, <1>3, <1>4, SCAssumption

LEMMA FirstServedStep == ASSUME CatalogInv, NEW c \in Callers, FirstServed(c) PROVE CatalogInv'
<1> DEFINE k == call[c]
           active == IF entries = <<>> THEN 0 ELSE Paths[1]
           n == IF k.op = "reorder" THEN active ELSE 0
           pc == AfterFront(c, active)
           r == [k EXCEPT !.succ = n, !.pc = pc]
<1>1. /\ k.pc = "first" /\ Becomes(c, r)
      /\ UNCHANGED <<catvars, reloadvars, pref, front, tabs, othervars>>
  BY DEF FirstServed, CallAt
<1>2. k \in CatalogCall /\ StepsRight(k) /\ k.op \in CatalogOps
  BY HereFacts, CallType
<1>3. k.op \in {"close", "reorder"}
  BY <1>1, <1>2 DEF StepsRight, CatalogOps
<1>4. active \in Nat /\ n \in Nat
  BY FirstIs, HereFacts
<1>5. pc = IF k.op = "reorder" THEN "front" ELSE IF active = k.path THEN "successor" ELSE "remove"
  BY <1>3 DEF AfterFront
<1>6. front.tab # 0 /\ Fallen => active = front.tab
  BY FirstIs, HereFacts DEF Fallen
<1>7. /\ Named /\ k.focus = pref => NoThief(k)
      /\ Fallen => Keeper(k)
  BY <1>3, HereFacts
<1> HIDE DEF pc, active, k
<1>8. pc \in CatalogSteps
  BY <1>5 DEF CatalogSteps
<1>9. /\ r \in CatalogCall /\ r.op = k.op /\ r.path = k.path /\ r.hubs = k.hubs
      /\ r.pc = pc /\ r.focus = k.focus /\ r.succ = n
  <2> HIDE DEF n
  <2> QED BY <1>2, <1>4, <1>8, KnowSucc
<1> HIDE DEF r
<1>10. StepsRight(r)
  BY <1>1, <1>2, <1>3, <1>5, <1>9 DEF StepsRight
<1>11. Named /\ r.focus = pref => NoThief(r)
  BY <1>1, <1>7, <1>9 DEF NoThief
<1>12. front.tab # 0 /\ Fallen => Keeper(r)
  BY <1>1, <1>3, <1>5, <1>6, <1>7, <1>9 DEF Keeper
<1> QED BY <1>1, <1>3, <1>9, <1>10, <1>11, <1>12, KnowStep DEF k

\* The tab beside a path is a path, or none.
LEMMA SuccessorType ==
    ASSUME CatalogType, NEW p
    PROVE  SuccessorOf(p) \in Nat
<1>1. /\ Paths \in Seq(SCPaths) /\ Len(Paths) = Len(entries) /\ Served = ToSet(Paths)
      /\ DOMAIN entries = 1 .. Len(entries) /\ Len(entries) \in Nat
  BY ServedIs, EntryIs
<1>2. \A i \in 1 .. Len(entries) : Paths[i] \in Nat
  <2>1. \A i \in 1 .. Len(entries) : Paths[i] \in SCPaths
    BY <1>1
  <2> QED BY <2>1, SCAssumption
<1>3. CASE p \notin Served
  BY <1>3 DEF SuccessorOf
<1>4. CASE p \in Served
  <2>1. \E i \in DOMAIN entries : Paths[i] = p
    BY <1>1, <1>4 DEF ToSet
  <2> DEFINE at == CHOOSE i \in DOMAIN entries : Paths[i] = p
  <2>2. at \in 1 .. Len(entries)
    BY <1>1, <2>1
  <2>3. SuccessorOf(p) = CASE at = 0 -> 0
                           [] at > 0 /\ at < Len(entries) -> Paths[at + 1]
                           [] at = Len(entries) /\ at > 1 -> Paths[at - 1]
                           [] OTHER -> 0
    BY <1>4 DEF SuccessorOf
  <2> HIDE DEF at
  <2>4. CASE at < Len(entries)
    <3>1. at + 1 \in 1 .. Len(entries)
      BY <1>1, <2>2, <2>4
    <3> QED BY <1>1, <1>2, <2>2, <2>3, <2>4, <3>1
  <2>5. CASE at = Len(entries) /\ at > 1
    <3>1. at - 1 \in 1 .. Len(entries)
      BY <1>1, <2>2, <2>5
    <3> QED BY <1>1, <1>2, <2>2, <2>3, <2>5, <3>1
  <2>6. CASE ~ (at < Len(entries)) /\ ~ (at = Len(entries) /\ at > 1)
    BY <1>1, <2>2, <2>3, <2>6
  <2> QED BY <2>4, <2>5, <2>6
<1> QED BY <1>3, <1>4

LEMMA SuccessorStep == ASSUME CatalogInv, NEW c \in Callers, Successor(c) PROVE CatalogInv'
<1> DEFINE k == call[c]
           n == SuccessorOf(k.path)
           r == [k EXCEPT !.succ = n, !.pc = "remove"]
<1>1. /\ k.pc = "successor" /\ Becomes(c, r)
      /\ UNCHANGED <<catvars, reloadvars, pref, front, tabs, othervars>>
  BY DEF Successor, CallAt
<1>2. k \in CatalogCall /\ StepsRight(k) /\ k.op \in CatalogOps
  BY HereFacts, CallType
<1>3. k.op = "close"
  BY <1>1, <1>2 DEF StepsRight, CatalogOps
<1>4. n \in Nat
  BY SuccessorType, HereFacts
<1>5. /\ Named /\ k.focus = pref => NoThief(k)
      /\ Fallen => Keeper(k)
  BY <1>3, HereFacts
<1>6. "remove" \in CatalogSteps
  BY DEF CatalogSteps
<1> HIDE DEF k, n
<1>7. /\ r \in CatalogCall /\ r.op = k.op /\ r.path = k.path /\ r.hubs = k.hubs
      /\ r.pc = "remove" /\ r.focus = k.focus /\ r.succ = n
  BY <1>2, <1>4, <1>6, KnowSucc
<1> HIDE DEF r
<1>8. StepsRight(r)
  BY <1>1, <1>2, <1>3, <1>7 DEF StepsRight
<1>9. /\ Named /\ r.focus = pref => NoThief(r)
      /\ Fallen => Keeper(r)
  BY <1>1, <1>3, <1>5, <1>7 DEF NoThief, Keeper
<1> QED BY <1>1, <1>3, <1>7, <1>8, <1>9, KnowStep DEF k

LEMMA CheckServedStep == ASSUME CatalogInv, NEW c \in Callers, CheckServed(c) PROVE CatalogInv'
<1> DEFINE k == call[c]
           pc == IF k.succ \in Served THEN "write" ELSE Persists
           r == [call[c] EXCEPT !.pc = pc]
<1>1. /\ k.pc = "check" /\ GoesTo(c, pc)
      /\ UNCHANGED <<catvars, reloadvars, pref, front, tabs, othervars>>
  BY DEF CheckServed, CallAt
<1>2. StepsRight(k) /\ k.op \in CatalogOps
  BY HereFacts, CallType
<1>3. k.op = "close"
  BY <1>1, <1>2 DEF StepsRight, CatalogOps
<1>4. pc \in {"write", "load", "return"} /\ pc \in CatalogSteps
  BY PersistsIs DEF CatalogSteps
<1> HIDE DEF pc
<1>5. r.pc = pc /\ r.op = k.op /\ r.path = k.path /\ r.focus = k.focus /\ r.succ = k.succ
  BY <1>4, GoneFields
<1>6. ~ (Named /\ k.focus = pref) /\ ~Fallen
  BY <1>1, <1>3, HereFacts DEF NoThief, Keeper
<1> HIDE DEF r
<1>7. StepsRight(r)
  BY <1>1, <1>2, <1>3, <1>4, <1>5 DEF StepsRight
<1> QED BY <1>1, <1>4, <1>6, <1>7, GoStep DEF r

LEMMA GetFrontStep == ASSUME CatalogInv, NEW c \in Callers, GetFront(c) PROVE CatalogInv'
<1> DEFINE k == call[c]
           n == IF k.succ \in Served THEN k.succ ELSE 0
           r == [k EXCEPT !.succ = n, !.pc = "paths"]
<1>1. /\ k.pc = "front" /\ Becomes(c, r)
      /\ UNCHANGED <<catvars, reloadvars, pref, front, tabs, othervars>>
  BY DEF GetFront, CallAt
<1>2. k \in CatalogCall /\ StepsRight(k) /\ k.op \in CatalogOps /\ k.succ \in Nat
  BY HereFacts, CallType
<1>3. k.op = "reorder"
  BY <1>1, <1>2 DEF StepsRight, CatalogOps
<1>4. n \in Nat
  BY <1>2
<1>5. ~ (Named /\ k.focus = pref)
  BY <1>1, <1>3, HereFacts DEF NoThief
<1>6. Fallen /\ front.tab # 0 => Keeper(k) /\ n = front.tab
  BY <1>1, <1>3, HereFacts DEF Keeper
<1>7. "paths" \in CatalogSteps
  BY DEF CatalogSteps
<1> HIDE DEF k, n
<1>8. /\ r \in CatalogCall /\ r.op = k.op /\ r.path = k.path /\ r.hubs = k.hubs
      /\ r.pc = "paths" /\ r.focus = k.focus /\ r.succ = n
  BY <1>2, <1>4, <1>7, KnowSucc
<1> HIDE DEF r
<1>9. StepsRight(r)
  BY <1>1, <1>2, <1>3, <1>8 DEF StepsRight
<1>10. /\ Named /\ r.focus = pref => NoThief(r)
       /\ front.tab # 0 /\ Fallen => Keeper(r)
  BY <1>1, <1>3, <1>5, <1>6, <1>8 DEF Keeper
<1> QED BY <1>1, <1>3, <1>8, <1>9, <1>10, KnowStep DEF k

LEMMA GetPathStep == ASSUME CatalogInv, NEW c \in Callers, GetPath(c) PROVE CatalogInv'
<1> DEFINE k == call[c]
<1>1. /\ k.pc = "paths" /\ UNCHANGED <<catvars, reloadvars, pref, front, tabs, othervars>>
  BY DEF GetPath, CallAt
<1>2. /\ k \in CatalogCall /\ StepsRight(k) /\ k.op \in CatalogOps
      /\ k.todo \in Seq(SCPaths) /\ k.desired \in Seq(SCPaths)
  BY HereFacts, CallType
<1>3. k.op = "reorder"
  BY <1>1, <1>2 DEF StepsRight, CatalogOps
<1>4. /\ Named /\ k.focus = pref => NoThief(k)
      /\ Fallen => Keeper(k)
  BY <1>3, HereFacts
<1>5. CASE k.todo = <<>>
  <2> DEFINE pc == IF k.succ = 0 THEN "arrange" ELSE "write"
             r == [call[c] EXCEPT !.pc = pc]
  <2>1. GoesTo(c, pc) /\ pc \in CatalogSteps
    BY <1>5 DEF GetPath, CatalogSteps
  <2>2. r.pc = pc /\ r.op = k.op /\ r.path = k.path /\ r.focus = k.focus /\ r.succ = k.succ
    BY <2>1, GoneFields
  <2>3. pc \in {"arrange", "write"} /\ (pc = "arrange" <=> k.succ = 0)
    OBVIOUS
  <2> HIDE DEF k, pc, r
  <2>4. StepsRight(r)
    BY <1>1, <1>2, <1>3, <2>2, <2>3 DEF StepsRight
  <2>5. Named /\ k.focus = pref => NoThief(r)
    BY <1>1, <1>4, <2>2, <2>3 DEF NoThief
  <2>6. front.tab # 0 /\ Fallen => Keeper(r)
    BY <1>1, <1>3, <1>4, <2>2, <2>3 DEF Keeper
  <2>7. call[c].op = "reorder" /\ call[c].pc \notin {"swap", "tell"} /\ call[c].focus = k.focus
    BY <1>1, <1>3 DEF k
  <2> QED BY <1>1, <2>1, <2>3, <2>4, <2>5, <2>6, <2>7, GoStep DEF r
<1>6. CASE k.todo # <<>>
  <2> DEFINE p == Head(k.todo)
             got == IF p \in Served THEN Append(k.desired, p) ELSE k.desired
             rest == Tail(k.todo)
             r == [k EXCEPT !.desired = got, !.todo = rest]
  <2>1. Becomes(c, r)
    BY <1>6 DEF GetPath
  <2>2. p \in SCPaths /\ rest \in Seq(SCPaths)
    <3> DEFINE todo == k.todo
    <3>1. todo \in Seq(SCPaths) /\ todo # <<>>
      BY <1>2, <1>6
    <3> HIDE DEF todo
    <3>2. Head(todo) \in SCPaths /\ Tail(todo) \in Seq(SCPaths)
      BY <3>1
    <3> QED BY <3>2 DEF todo
  <2>3. got \in Seq(SCPaths)
    BY <1>2, <2>2
  <2> HIDE DEF k, p, got, rest
  <2>4. /\ r \in CatalogCall /\ r.op = k.op /\ r.path = k.path /\ r.hubs = k.hubs
        /\ r.pc = k.pc /\ r.focus = k.focus /\ r.succ = k.succ
    BY <1>2, <2>2, <2>3 DEF CatalogCall
  <2> HIDE DEF r
  <2>5. StepsRight(r)
    BY <1>2, <2>4 DEF StepsRight
  <2>6. /\ Named /\ r.focus = pref => NoThief(r)
        /\ Fallen => Keeper(r)
    BY <1>4, <2>4 DEF NoThief, Keeper
  <2> QED BY <1>1, <1>3, <2>1, <2>4, <2>5, <2>6, KnowStep DEF k
<1> QED BY <1>5, <1>6

\* Writing the workspace file.
LEMMA LoadFileStep == ASSUME CatalogInv, NEW c \in Callers, LoadFile(c) PROVE CatalogInv'
<1> DEFINE r == [NoCall EXCEPT !.op = "persist", !.pc = "mirror", !.active = file.active]
<1>1. /\ call[c].pc = "load" /\ Becomes(c, r)
      /\ UNCHANGED <<catvars, reloadvars, pref, front, tabs, othervars>>
  BY DEF LoadFile, CallAt
<1>2. /\ r \in CatalogCall /\ r.op = "persist" /\ r.pc = "mirror" /\ r.hubs = <<>>
  <2> DEFINE k == NoCall
             a == file.active
  <2>1. k \in CatalogCall /\ k.hubs = <<>>
    BY IdleCall
  <2>2. "persist" \in CatalogOps /\ "mirror" \in CatalogSteps /\ a \in Nat
    BY HereFacts DEF CatalogOps, CatalogSteps
  <2> HIDE DEF k, a
  <2>3. LET q == [k EXCEPT !.op = "persist", !.pc = "mirror", !.active = a]
        IN  q \in CatalogCall /\ q.op = "persist" /\ q.pc = "mirror" /\ q.hubs = <<>>
    BY <2>1, <2>2 DEF CatalogCall
  <2> QED BY <2>3 DEF k, a
<1>3. file' \in [repos : Seq(SCPaths), active : Nat]
  BY <1>1, HereFacts DEF othervars
<1> HIDE DEF r
<1>4. Fits(c, r)
  BY <1>1, <1>2 DEF Fits, StepsRight
<1> QED BY <1>1, <1>3, <1>4, LocalStep

LEMMA MirrorStep == ASSUME CatalogInv, NEW c \in Callers, Mirror(c) PROVE CatalogInv'
<1> DEFINE k == call[c]
           n == IF k.active \in Served THEN k.active ELSE IF entries = <<>> THEN 0 ELSE Paths[1]
           all == Paths
           r == [k EXCEPT !.pc = "save", !.repos = all, !.active = n]
<1>1. /\ k.pc = "mirror" /\ Becomes(c, r)
      /\ UNCHANGED <<catvars, reloadvars, pref, front, tabs, othervars>>
  BY DEF Mirror, CallAt
<1>2. k \in CatalogCall /\ StepsRight(k) /\ k.op \in CatalogOps /\ k.active \in Nat
  BY HereFacts, CallType
<1>3. n \in Nat /\ all \in Seq(SCPaths)
  BY <1>2, HereFacts, FirstIs, ServedIs
<1>4. "save" \in CatalogSteps
  BY DEF CatalogSteps
<1>5. k.op = "persist"
  BY <1>1, <1>2 DEF StepsRight, CatalogOps
<1> HIDE DEF k, n, all
<1>6. r \in CatalogCall /\ r.op = k.op /\ r.pc = "save" /\ r.hubs = k.hubs
  BY <1>2, <1>3, <1>4 DEF CatalogCall
<1>7. file' \in [repos : Seq(SCPaths), active : Nat]
  BY <1>1, HereFacts DEF othervars
<1> HIDE DEF r
<1>8. StepsRight(r)
  BY <1>5, <1>6 DEF StepsRight
<1>9. Fits(c, r)
  BY <1>1, <1>5, <1>6, <1>8 DEF Fits, k
<1> QED BY <1>1, <1>7, <1>9, LocalStep

LEMMA SaveFileStep == ASSUME CatalogInv, NEW c \in Callers, SaveFile(c) PROVE CatalogInv'
<1>1. /\ call[c].pc = "save" /\ Ends(c) /\ UNCHANGED <<catvars, reloadvars, pref, front, tabs>>
      /\ file' = [repos |-> call[c].repos, active |-> call[c].active]
  BY DEF SaveFile, CallAt
<1>2. file' \in [repos : Seq(SCPaths), active : Nat]
  BY <1>1, HereFacts, CallType
<1> QED BY <1>1, <1>2, EndStep

----------------------------------------------------------------------------
(* The catalog: reloads *)

\* Nothing of the repositories or the focus moves, and the caller is of neither
\* kind that could move them.
LEMMA ReloadFrame ==
    ASSUME CatalogInv, NEW c \in Callers, NEW r \in CatalogCall, Becomes(c, r),
           call[c].op = "reload", r.op \in {"reload", "none"}, StepsRight(r),
           UNCHANGED <<lists, pref, front, tabs, file>>, Paths' = Paths, Served' = Served
    PROVE  /\ call' \in [Callers -> CatalogCall] /\ call'[c] = r
           /\ \A d \in Callers : d # c => call'[d] = call[d]
           /\ Stages' /\ Orderly(lists)' /\ TabsKept' /\ FrontRight'
<1> USE DEF CatalogInv
<1>1. /\ call' \in [Callers -> CatalogCall] /\ call'[c] = r
      /\ \A d \in Callers : d # c => call'[d] = call[d]
  BY CallFacts
<1>2. Stages'
  BY <1>1 DEF Stages
<1>3. Orderly(lists)' /\ TabsKept'
  BY DEF Orderly, TabsKept, UnionPaths, Natural
<1>4. FrontRight'
  <2>1. Named => Named'
    BY <1>1 DEF Named
  <2>2. Fallen => Fallen'
    BY <1>1 DEF Fallen, Keeper
  <2> QED BY <2>1, <2>2 DEF FrontRight
<1> QED BY <1>1, <1>2, <1>3, <1>4

LEMMA EditStep == ASSUME CatalogInv, EditConfig PROVE CatalogInv'
<1> USE DEF CatalogInv
<1>1. /\ UNCHANGED <<lists, entries, plug, tables, reloading, missed, pref, call, front, tabs, file>>
      /\ config' = config + 1
  BY DEF EditConfig, catvars, othervars
<1>2. CatalogType'
  BY <1>1 DEF CatalogType
<1>3. Paths' = Paths /\ Served' = Served
  BY <1>1 DEF Paths, Served
<1>4. Stages' /\ Orderly(lists)' /\ TabsKept'
  BY <1>1, <1>3 DEF Stages, Orderly, TabsKept, UnionPaths, Natural
<1>5. FrontRight'
  BY <1>1, <1>3 DEF FrontRight, Named, Fallen, Keeper
<1>6. ReloadRight'
  BY <1>1 DEF ReloadRight
<1> QED BY <1>2, <1>4, <1>5, <1>6

LEMMA LockAndReadStep == ASSUME CatalogInv, NEW c \in Callers, LockAndRead(c) PROVE CatalogInv'
<1> DEFINE k == call[c]
<1>1. /\ k.pc = "lock" /\ reloading = 0 /\ StepsRight(k) /\ k \in CatalogCall
      /\ k.op \in CatalogOps /\ config \in Nat
      /\ UNCHANGED <<catvars, tables, config, missed, pref, front, tabs, othervars>>
  BY HereFacts, CallType DEF LockAndRead, CallAt, CatalogType
<1>2. k.op = "reload"
  BY <1>1 DEF StepsRight, CatalogOps
<1>3. CASE Ends(c) /\ reloading' = reloading
  BY <1>1, <1>3, HereFacts, EndStep DEF othervars, reloadvars
<1>4. CASE reloading' = c /\ Becomes(c, [call[c] EXCEPT !.pc = "swap", !.version = config])
  <2> DEFINE r == [k EXCEPT !.pc = "swap", !.version = config]
  <2>1. "swap" \in CatalogSteps
    BY DEF CatalogSteps
  <2>2. /\ r \in CatalogCall /\ r.op = "reload" /\ r.pc = "swap" /\ r.hubs = k.hubs
    <3> HIDE DEF k
    <3> QED BY <1>1, <1>2, <2>1 DEF CatalogCall
  <2>3. Becomes(c, r)
    BY <1>4
  <2> HIDE DEF r
  <2>4. UNCHANGED <<lists, entries, plug, tables, config, missed, pref, front, tabs, file>>
    BY <1>1 DEF catvars, othervars
  <2>5. Paths' = Paths /\ Served' = Served
    BY <2>4 DEF Paths, Served
  <2>6. StepsRight(r)
    BY <2>2 DEF StepsRight
  <2>7. /\ call' \in [Callers -> CatalogCall] /\ call'[c] = r
        /\ \A d \in Callers : d # c => call'[d] = call[d]
        /\ Stages' /\ Orderly(lists)' /\ TabsKept' /\ FrontRight'
    BY <1>2, <2>2, <2>3, <2>4, <2>5, <2>6, ReloadFrame
  <2>8. CatalogType'
    BY <1>4, <2>4, <2>7 DEF CatalogInv, CatalogType
  <2>9. ReloadRight'
    <3>1. 0 \notin Callers /\ k = call[c]
      BY SCAssumption
    <3>2. \A d \in Callers : call[d].pc \notin {"swap", "tell"}
      BY <1>1, <3>1 DEF CatalogInv, ReloadRight
    <3>3. ReloadRight
      BY DEF CatalogInv
    <3> QED BY <1>4, <2>2, <2>4, <2>7, <3>1, <3>2, <3>3 DEF ReloadRight
  <2> QED BY <2>7, <2>8, <2>9 DEF CatalogInv
<1> QED BY <1>3, <1>4 DEF LockAndRead

\* Who reloads is the only one that does.
LEMMA OneReload ==
    ASSUME CatalogInv, NEW c \in Callers, call[c].pc \in {"swap", "tell"}
    PROVE  /\ call[c].op = "reload" /\ reloading = c /\ c # 0
           /\ \A d \in Callers : call[d].pc \in {"swap", "tell"} => d = c
<1>1. StepsRight(call[c]) /\ call[c].op \in CatalogOps
  BY HereFacts, CallType
<1> QED BY <1>1, SCAssumption DEF CatalogInv, ReloadRight, StepsRight, CatalogOps

LEMMA SetTablesStep == ASSUME CatalogInv, NEW c \in Callers, SetConfigTables(c) PROVE CatalogInv'
<1> DEFINE k == call[c]
           hubs == [i \in DOMAIN entries |-> entries[i].hub]
           r == [k EXCEPT !.pc = "tell", !.hubs = hubs]
<1>1. /\ k.pc = "swap" /\ tables' = k.version /\ Becomes(c, r)
      /\ UNCHANGED <<lists, entries, plug, config, reloading, missed, pref, front, tabs, file>>
  BY DEF SetConfigTables, CallAt, catvars, othervars
<1>2. /\ k \in CatalogCall /\ k.version \in Nat
  BY HereFacts, CallType
<1>3. /\ k.op = "reload" /\ reloading = c
      /\ \A d \in Callers : call[d].pc \in {"swap", "tell"} => d = c
  BY <1>1, OneReload
<1>4. /\ DOMAIN entries = 1 .. Len(entries) /\ Len(entries) \in Nat
      /\ \A i \in DOMAIN entries : entries[i].hub \in Nat /\ entries[i].hub \in 1 .. Len(plug)
  BY EntryIs DEF CatalogInv, ReloadRight
<1>5. hubs \in Seq(Nat)
  BY <1>4
<1>6. ToSet(hubs) \subseteq 1 .. Len(plug) /\ \A i \in DOMAIN entries : entries[i].hub \in ToSet(hubs)
  <2>1. DOMAIN hubs = DOMAIN entries /\ \A i \in DOMAIN entries : hubs[i] = entries[i].hub
    OBVIOUS
  <2> HIDE DEF hubs
  <2> QED BY <1>4, <2>1 DEF ToSet
<1>7. "tell" \in CatalogSteps
  BY DEF CatalogSteps
<1>8. r \in CatalogCall /\ r.op = "reload" /\ r.pc = "tell" /\ r.hubs = hubs /\ r.version = k.version
  <2> HIDE DEF k, hubs
  <2> QED BY <1>2, <1>3, <1>5, <1>7 DEF CatalogCall
<1> HIDE DEF r, hubs
<1>9. StepsRight(r)
  BY <1>8 DEF StepsRight
<1>10. Paths' = Paths /\ Served' = Served
  BY <1>1 DEF Paths, Served
<1>11. /\ call' \in [Callers -> CatalogCall] /\ call'[c] = r
       /\ \A d \in Callers : d # c => call'[d] = call[d]
       /\ Stages' /\ Orderly(lists)' /\ TabsKept' /\ FrontRight'
  BY <1>1, <1>3, <1>8, <1>9, <1>10, ReloadFrame
<1>12. CatalogType'
  BY <1>1, <1>2, <1>11 DEF CatalogInv, CatalogType
<1>13. ReloadRight'
  BY <1>1, <1>3, <1>4, <1>6, <1>8, <1>11 DEF CatalogInv, ReloadRight
<1> QED BY <1>11, <1>12, <1>13 DEF CatalogInv

LEMMA TellHubStep == ASSUME CatalogInv, NEW c \in Callers, TellHub(c) PROVE CatalogInv'
<1> DEFINE k == call[c]
           hub == Head(k.hubs)
           rest == Tail(k.hubs)
           r == [k EXCEPT !.hubs = rest]
<1>1. /\ k.pc = "tell" /\ k.hubs # <<>> /\ Becomes(c, r)
      /\ \/ plug' = [plug EXCEPT ![hub] = k.version] /\ missed' = missed \ {hub}
         \/ missed' = missed \cup {hub} /\ plug' = plug
      /\ UNCHANGED <<lists, entries, tables, config, reloading, pref, front, tabs, file>>
  BY DEF TellHub, CallAt, othervars
<1>2. /\ k \in CatalogCall /\ k.version \in Nat /\ k.hubs \in Seq(Nat) /\ StepsRight(k)
  BY HereFacts, CallType
<1>3. /\ k.op = "reload" /\ reloading = c
      /\ \A d \in Callers : call[d].pc \in {"swap", "tell"} => d = c
  BY <1>1, OneReload
<1>4. k.version = tables /\ ToSet(k.hubs) \subseteq 1 .. Len(plug)
  BY <1>1 DEF CatalogInv, ReloadRight
<1>5. /\ rest \in Seq(Nat) /\ hub \in Nat /\ hub \in ToSet(k.hubs)
      /\ ToSet(k.hubs) \subseteq ToSet(rest) \cup {hub} /\ ToSet(rest) \subseteq ToSet(k.hubs)
  <2> DEFINE s == k.hubs
  <2>1. s \in Seq(Nat) /\ s # <<>>
    BY <1>1, <1>2
  <2> HIDE DEF s
  <2>2. Tail(s) \in Seq(Nat) /\ Head(s) \in Nat /\ ToSet(s) \subseteq ToSet(Tail(s)) \cup {Head(s)}
    BY <2>1, TailSet
  <2>3. Head(s) \in ToSet(s) /\ ToSet(Tail(s)) \subseteq ToSet(s)
    <3>1. /\ Len(s) \in Nat /\ DOMAIN s = 1 .. Len(s) /\ 1 \in DOMAIN s /\ Head(s) = s[1]
          /\ DOMAIN Tail(s) = 1 .. Len(s) - 1
          /\ \A i \in 1 .. Len(s) - 1 : Tail(s)[i] = s[i + 1] /\ i + 1 \in DOMAIN s
      BY <2>1
    <3> QED BY <3>1 DEF ToSet
  <2> QED BY <2>2, <2>3 DEF s
<1>6. plug \in Seq(Nat) /\ missed \subseteq Nat
  BY DEF CatalogInv, CatalogType
<1> HIDE DEF hub, rest
<1>7. plug' \in Seq(Nat) /\ Len(plug') = Len(plug) /\ missed' \subseteq Nat
  <2>1. CASE plug' = [plug EXCEPT ![hub] = k.version] /\ missed' = missed \ {hub}
    <3> DEFINE v == k.version
    <3>1. v \in Nat /\ hub \in 1 .. Len(plug)
      BY <1>2, <1>4, <1>5
    <3>2. plug' = [plug EXCEPT ![hub] = v]
      BY <2>1
    <3> HIDE DEF v
    <3>3. [plug EXCEPT ![hub] = v] \in Seq(Nat) /\ Len([plug EXCEPT ![hub] = v]) = Len(plug)
      BY <1>6, <3>1, ExceptSeq
    <3> QED BY <1>6, <2>1, <3>2, <3>3
  <2>2. CASE missed' = missed \cup {hub} /\ plug' = plug
    BY <1>5, <1>6, <2>2
  <2> QED BY <1>1, <2>1, <2>2
<1>8. r \in CatalogCall /\ r.op = "reload" /\ r.pc = "tell" /\ r.hubs = rest /\ r.version = k.version
  <2> HIDE DEF k
  <2> QED BY <1>1, <1>2, <1>3, <1>5 DEF CatalogCall
<1> HIDE DEF r
<1>9. StepsRight(r)
  BY <1>8 DEF StepsRight
<1>10. Paths' = Paths /\ Served' = Served
  BY <1>1 DEF Paths, Served
<1>11. /\ call' \in [Callers -> CatalogCall] /\ call'[c] = r
       /\ \A d \in Callers : d # c => call'[d] = call[d]
       /\ Stages' /\ Orderly(lists)' /\ TabsKept' /\ FrontRight'
  BY <1>1, <1>3, <1>8, <1>9, <1>10, ReloadFrame
<1>12. CatalogType'
  BY <1>1, <1>7, <1>11 DEF CatalogInv, CatalogType
<1>13. ASSUME NEW i \in DOMAIN entries
       PROVE  /\ entries[i].hub \in 1 .. Len(plug)
              /\ \/ plug'[entries[i].hub] = tables \/ entries[i].hub \in missed'
                 \/ entries[i].hub \in ToSet(rest)
  <2>1. /\ entries[i].hub \in 1 .. Len(plug)
        /\ \/ plug[entries[i].hub] = tables \/ entries[i].hub \in missed
           \/ entries[i].hub \in ToSet(k.hubs)
    BY <1>3 DEF CatalogInv, ReloadRight
  <2> DEFINE h == entries[i].hub
  <2>2. CASE h = hub
    <3>1. plug'[hub] = tables \/ hub \in missed'
      BY <1>1, <1>4, <1>6, <2>1, <2>2
    <3> QED BY <2>1, <2>2, <3>1
  <2>3. CASE h # hub
    <3>1. plug'[h] = plug[h] /\ (h \in missed => h \in missed')
      BY <1>1, <1>6, <2>1, <2>3
    <3> QED BY <1>5, <2>1, <2>3, <3>1
  <2> QED BY <2>2, <2>3
<1>14. \A d \in Callers : ToSet(call'[d].hubs) \subseteq 1 .. Len(plug)
  BY <1>4, <1>5, <1>8, <1>11 DEF CatalogInv, ReloadRight
<1>15. ReloadRight'
  BY <1>1, <1>3, <1>4, <1>7, <1>8, <1>11, <1>13, <1>14 DEF ReloadRight
<1> QED BY <1>11, <1>12, <1>15 DEF CatalogInv

LEMMA ReportStep == ASSUME CatalogInv, NEW c \in Callers, ReportReload(c) PROVE CatalogInv'
<1>1. /\ call[c].pc = "tell" /\ call[c].hubs = <<>> /\ reloading' = 0 /\ Becomes(c, NoCall)
      /\ UNCHANGED <<lists, entries, plug, tables, config, missed, pref, front, tabs, file>>
  BY DEF ReportReload, CallAt, Ends, catvars, othervars
<1>2. /\ call[c].op = "reload" /\ reloading = c /\ c # 0
      /\ \A d \in Callers : call[d].pc \in {"swap", "tell"} => d = c
  BY <1>1, OneReload
<1>3. Paths' = Paths /\ Served' = Served
  BY <1>1 DEF Paths, Served
<1>4. /\ call' \in [Callers -> CatalogCall] /\ call'[c] = NoCall
      /\ \A d \in Callers : d # c => call'[d] = call[d]
      /\ Stages' /\ Orderly(lists)' /\ TabsKept' /\ FrontRight'
  BY <1>1, <1>2, <1>3, IdleCall, ReloadFrame
<1>5. CatalogType'
  BY <1>1, <1>4 DEF CatalogInv, CatalogType
<1>6. \A i \in DOMAIN entries :
        /\ entries[i].hub \in 1 .. Len(plug)
        /\ plug[entries[i].hub] = tables \/ entries[i].hub \in missed
  BY <1>1, <1>2, EmptyEntries DEF CatalogInv, ReloadRight
<1>7. \A d \in Callers : ToSet(call'[d].hubs) \subseteq 1 .. Len(plug)
  BY <1>4, IdleCall, EmptyEntries DEF CatalogInv, ReloadRight
<1>8. \A d \in Callers : call'[d].pc \notin {"swap", "tell"}
  BY <1>2, <1>4, IdleCall
<1>9. ReloadRight'
  BY <1>1, <1>6, <1>7, <1>8, SCAssumption DEF ReloadRight
<1> QED BY <1>4, <1>5, <1>9 DEF CatalogInv

----------------------------------------------------------------------------
(* The catalog: what moves the tabs and the focus *)

\* A change of the lists by a caller that reloads nothing.
LEMMA ReconcileKeeps ==
    ASSUME CatalogInv, NEW c \in Callers, NEW r \in CatalogCall, Becomes(c, r), StepsRight(r),
           NEW m \in CatalogLists, Orderly(m), UnionPaths(m) \in Seq(SCPaths), Reconcile(m),
           call[c].pc \notin {"swap", "tell"}, r.pc \notin {"swap", "tell"}, r.hubs = call[c].hubs,
           tabs' = UnionPaths(m), front' \in [tab : Nat, twice : BOOLEAN],
           UNCHANGED <<reloadvars, pref, file>>
    PROVE  /\ CatalogType' /\ Stages' /\ Orderly(lists)' /\ TabsKept' /\ ReloadRight'
           /\ call'[c] = r /\ \A d \in Callers : d # c => call'[d] = call[d]
           /\ Paths' = UnionPaths(m) /\ Served' = ToSet(UnionPaths(m))
<1>1. CatalogType /\ TabsKept /\ UNCHANGED <<tables, config, reloading, missed, pref, file>>
  BY DEF CatalogInv, reloadvars
<1>2. /\ lists' = m /\ entries' \in Seq([path : SCPaths, hub : Nat]) /\ plug' \in Seq(Nat)
      /\ Paths' = UnionPaths(m) /\ Served' = ToSet(UnionPaths(m))
      /\ plug' = plug \/ plug' = Append(plug, tables)
      /\ \A i \in DOMAIN entries' :
           \/ \E j \in DOMAIN entries : entries'[i].hub = entries[j].hub
           \/ entries'[i].hub = Len(plug) + 1 /\ plug' = Append(plug, tables)
  BY <1>1, ReconcileFacts
<1>3. /\ call' \in [Callers -> CatalogCall] /\ call'[c] = r
      /\ \A d \in Callers : d # c => call'[d] = call[d]
  BY <1>1, CallFacts
<1>4. CatalogType'
  BY <1>1, <1>2, <1>3 DEF CatalogType
<1>5. Stages'
  BY <1>3 DEF CatalogInv, Stages
<1>6. Orderly(lists)' /\ TabsKept'
  BY <1>2 DEF Orderly, TabsKept, UnionPaths, Natural
<1>7. plug \in Seq(Nat) /\ tables \in Nat
  BY <1>1 DEF CatalogType
<1>8. /\ Len(plug) \in Nat /\ 1 .. Len(plug) \subseteq 1 .. Len(plug')
      /\ \A h \in 1 .. Len(plug) : plug'[h] = plug[h]
      /\ plug' = Append(plug, tables) =>
           Len(plug) + 1 \in 1 .. Len(plug') /\ plug'[Len(plug) + 1] = tables
  <2>1. Len(plug) \in Nat
    BY <1>7
  <2>2. CASE plug' = plug
    <3>1. plug' # Append(plug, tables)
      <4>1. Len(Append(plug, tables)) = Len(plug) + 1
        BY <1>7
      <4> QED BY <2>1, <2>2, <4>1
    <3> QED BY <2>1, <2>2, <3>1
  <2>3. CASE plug' = Append(plug, tables)
    <3>1. /\ Len(plug') = Len(plug) + 1 /\ plug'[Len(plug) + 1] = tables
          /\ \A h \in 1 .. Len(plug) : plug'[h] = plug[h]
      BY <1>7, <2>3
    <3> QED BY <2>1, <3>1
  <2> QED BY <1>2, <2>2, <2>3
<1>9. ASSUME NEW i \in DOMAIN entries'
      PROVE  /\ entries'[i].hub \in 1 .. Len(plug')
             /\ \/ plug'[entries'[i].hub] = tables \/ entries'[i].hub \in missed
                \/ \E d \in Callers : call'[d].pc = "tell" /\ entries'[i].hub \in ToSet(call'[d].hubs)
  <2>1. CASE \E j \in DOMAIN entries : entries'[i].hub = entries[j].hub
    <3>1. PICK j \in DOMAIN entries : entries'[i].hub = entries[j].hub
      BY <2>1
    <3>2. /\ entries[j].hub \in 1 .. Len(plug)
          /\ \/ plug[entries[j].hub] = tables \/ entries[j].hub \in missed
             \/ \E d \in Callers : call[d].pc = "tell" /\ entries[j].hub \in ToSet(call[d].hubs)
      BY DEF CatalogInv, ReloadRight
    <3>3. \A d \in Callers : call[d].pc = "tell" => call'[d] = call[d]
      BY <1>3
    <3> QED BY <1>8, <3>1, <3>2, <3>3
  <2>2. CASE entries'[i].hub = Len(plug) + 1 /\ plug' = Append(plug, tables)
    BY <1>8, <2>2
  <2> QED BY <1>2, <2>1, <2>2
<1>10. \A d \in Callers : ToSet(call'[d].hubs) \subseteq 1 .. Len(plug')
  BY <1>3, <1>8 DEF CatalogInv, ReloadRight
<1>11. ReloadRight'
  <2>1. \A d \in Callers : call'[d].pc \in {"swap", "tell"} <=> reloading = d
    BY <1>3 DEF CatalogInv, ReloadRight
  <2>2. \A d \in Callers : call'[d].pc = "tell" => call'[d].version = tables
    BY <1>3 DEF CatalogInv, ReloadRight
  <2> QED BY <1>1, <1>9, <1>10, <2>1, <2>2 DEF ReloadRight
<1> QED BY <1>2, <1>3, <1>4, <1>5, <1>6, <1>11

LEMMA AddPathStep == ASSUME CatalogInv, NEW c \in Callers, AddPath(c) PROVE CatalogInv'
<1> DEFINE k == call[c]
           p == k.path
           m == Shown(lists, p)
           r == [k EXCEPT !.pc = "added"]
<1>1. k.pc = "add" /\ UNCHANGED <<reloadvars, pref, othervars>>
  BY DEF AddPath, CallAt
<1>2. CASE UNCHANGED <<catvars, front, tabs>> /\ (GoesTo(c, "added") \/ Ends(c))
  BY <1>1, <1>2, AddNothingStep
<1>3. CASE /\ p \notin Served /\ Reconcile(m) /\ tabs' = Append(tabs, p)
           /\ front' = (IF pref = p THEN Nowhere ELSE front) /\ GoesTo(c, "added")
  <2>1. /\ k \in CatalogCall /\ StepsRight(k) /\ k.op \in CatalogOps /\ CatalogType
        /\ Orderly(lists) /\ lists \in CatalogLists /\ TabsKept
    BY HereFacts, CallType DEF CatalogInv, CatalogType
  <2>2. k.op = "open" /\ p \in SCPaths
    BY <1>1, <2>1 DEF StepsRight, CatalogOps
  <2>3. /\ UnionPaths(lists) = tabs /\ Paths = tabs /\ tabs \in Seq(SCPaths)
        /\ Served = ToSet(tabs) /\ Len(Paths) = Len(entries)
    BY <2>1, ServedIs DEF TabsKept, CatalogType
  <2>4. m \in CatalogLists /\ Orderly(m) /\ UnionPaths(m) = Append(tabs, p)
    BY <1>3, <2>1, <2>2, <2>3, ShownFacts
  <2>5. Append(tabs, p) \in Seq(SCPaths) /\ ToSet(Append(tabs, p)) = ToSet(tabs) \cup {p}
    BY <2>2, <2>3, AppendSet
  <2>6. "added" \in CatalogSteps
    BY DEF CatalogSteps
  <2>7. Becomes(c, r)
    BY <1>3 DEF GoesTo
  <2>8. /\ r \in CatalogCall /\ r.pc = "added" /\ r.op = "open" /\ r.path = p /\ r.hubs = k.hubs
        /\ r.focus = k.focus /\ r.succ = k.succ
    BY <2>1, <2>2, <2>6, GoesCall
  <2>9. front' \in [tab : Nat, twice : BOOLEAN] /\ file' = file
    BY <1>1, <1>3, <2>1 DEF CatalogType, Nowhere, othervars
  <2>10. Reconcile(m)
    BY <1>3
  <2>11. StepsRight(r)
    <3> HIDE DEF r
    <3> QED BY <2>2, <2>8 DEF StepsRight
  <2>12. /\ k.pc \notin {"swap", "tell"} /\ r.pc \notin {"swap", "tell"}
         /\ tabs' = UnionPaths(m) /\ UnionPaths(m) \in Seq(SCPaths)
    BY <1>1, <1>3, <2>4, <2>5, <2>8
  <2> HIDE DEF r, m
  <2>13. /\ CatalogType' /\ Stages' /\ Orderly(lists)' /\ TabsKept' /\ ReloadRight'
         /\ call'[c] = r /\ \A d \in Callers : d # c => call'[d] = call[d]
         /\ Paths' = UnionPaths(m) /\ Served' = ToSet(UnionPaths(m))
    BY <1>1, <2>4, <2>7, <2>8, <2>9, <2>10, <2>11, <2>12, ReconcileKeeps
  <2>14. FrontRight'
    <3> SUFFICES ASSUME front'.tab # 0
                 PROVE  front'.tab \in Served' /\ (front'.twice \/ Named' \/ Fallen')
      BY DEF FrontRight
    <3>1. front' = front /\ pref # p /\ pref' = pref
      BY <1>1, <1>3 DEF Nowhere
    <3>2. front.tab \in Served /\ (front.twice \/ Named \/ Fallen)
      BY <3>1 DEF CatalogInv, FrontRight
    <3>3. Served' = Served \cup {p}
      BY <2>3, <2>4, <2>5, <2>13
    <3>4. Named => Named'
      BY <2>8, <2>13, <3>1 DEF Named
    <3>5. ASSUME Fallen PROVE Fallen'
      <4>1. Paths'[1] = Paths[1]
        <5>1. Paths # <<>>
          BY <2>1, <3>2, FirstIs
        <5> QED BY <2>2, <2>3, <2>4, <2>13, <5>1
      <4> QED BY <2>8, <2>13, <3>1, <3>3, <3>5, <4>1 DEF Fallen, Keeper
    <3> QED BY <3>1, <3>2, <3>3, <3>4, <3>5
  <2> QED BY <2>13, <2>14 DEF CatalogInv
<1> HIDE DEF m
<1>4. \/ GoesTo(c, "added") /\ UNCHANGED <<catvars, front, tabs>>
      \/ Ends(c) /\ UNCHANGED <<catvars, front, tabs>>
      \/ /\ p \notin Served /\ Reconcile(m) /\ tabs' = Append(tabs, p)
         /\ front' = (IF pref = p THEN Nowhere ELSE front) /\ GoesTo(c, "added")
  BY DEF AddPath, m
<1> QED BY <1>2, <1>3, <1>4

LEMMA CloseEntryStep == ASSUME CatalogInv, NEW c \in Callers, CloseEntry(c) PROVE CatalogInv'
<1> DEFINE k == call[c]
           p == k.path
           m == RemovePath(lists, p)
           pc == IF k.succ = 0 THEN Persists ELSE "check"
           r == [k EXCEPT !.pc = pc]
<1>1. /\ k.pc = "remove" /\ UNCHANGED <<reloadvars, pref, file>>
      /\ Reconcile(m) /\ tabs' = Without(tabs, p) /\ Becomes(c, r)
      /\ front' = IF front.tab = p THEN Nowhere ELSE front
  BY DEF CloseEntry, CallAt, othervars, GoesTo
<1>2. /\ k \in CatalogCall /\ StepsRight(k) /\ k.op \in CatalogOps /\ CatalogType
      /\ Orderly(lists) /\ lists \in CatalogLists /\ TabsKept
  BY HereFacts, CallType DEF CatalogInv, CatalogType
<1>3. k.op = "close" /\ p \in SCPaths
  BY <1>1, <1>2 DEF StepsRight, CatalogOps
<1>4. /\ UnionPaths(lists) = tabs /\ Paths = tabs /\ tabs \in Seq(SCPaths)
      /\ Served = ToSet(tabs) /\ Len(Paths) = Len(entries)
  BY <1>2, ServedIs DEF TabsKept, CatalogType
<1>5. m \in CatalogLists /\ Orderly(m) /\ UnionPaths(m) = Without(tabs, p)
  BY <1>2, <1>3, <1>4, RemovedFacts
<1>6. Without(tabs, p) \in Seq(SCPaths) /\ ToSet(Without(tabs, p)) = ToSet(tabs) \ {p}
  BY <1>4, WithoutFacts
<1>7. pc \in CatalogSteps /\ pc \in {"check", "load", "return"} /\ (pc = "check" => k.succ # 0)
  BY PersistsIs DEF CatalogSteps
<1> HIDE DEF pc
<1>8. /\ r \in CatalogCall /\ r.pc = pc /\ r.op = "close" /\ r.path = p /\ r.hubs = k.hubs
      /\ r.focus = k.focus /\ r.succ = k.succ
  BY <1>2, <1>3, <1>7, GoesCall
<1>9. front' \in [tab : Nat, twice : BOOLEAN]
  BY <1>1, <1>2 DEF CatalogType, Nowhere
<1>10. /\ Named /\ k.focus = pref => NoThief(k)
       /\ Fallen => Keeper(k)
  BY <1>3, HereFacts
<1>11. k.pc \notin {"swap", "tell"} /\ r.pc \notin {"swap", "tell"}
  BY <1>1, <1>7, <1>8
<1> HIDE DEF r, m
<1>12. StepsRight(r)
  BY <1>1, <1>2, <1>3, <1>7, <1>8 DEF StepsRight
<1>13. /\ CatalogType' /\ Stages' /\ Orderly(lists)' /\ TabsKept' /\ ReloadRight'
       /\ call'[c] = r /\ \A d \in Callers : d # c => call'[d] = call[d]
       /\ Paths' = UnionPaths(m) /\ Served' = ToSet(UnionPaths(m))
  BY <1>1, <1>5, <1>6, <1>8, <1>9, <1>11, <1>12, ReconcileKeeps
<1>14. FrontRight'
  <2> SUFFICES ASSUME front'.tab # 0
               PROVE  front'.tab \in Served' /\ (front'.twice \/ Named' \/ Fallen')
    BY DEF FrontRight
  <2>1. front' = front /\ front.tab # p /\ pref' = pref
    BY <1>1 DEF Nowhere
  <2>2. front.tab \in Served /\ (front.twice \/ Named \/ Fallen)
    BY <2>1 DEF CatalogInv, FrontRight
  <2>3. Served' = Served \ {p}
    BY <1>4, <1>5, <1>6, <1>13
  <2>4. ASSUME Named PROVE Named'
    <3>1. r.focus = pref => NoThief(r)
      <4> SUFFICES ASSUME k.focus = pref PROVE NoThief(r)
        BY <1>8
      <4>1. k.succ = 0
        BY <1>1, <1>10, <2>1, <2>4 DEF NoThief, Named
      <4> QED BY <1>7, <1>8, <4>1 DEF NoThief
    <3> QED BY <1>13, <2>1, <2>4, <3>1 DEF Named
  <2>5. ASSUME Fallen PROVE Fallen'
    <3>1. Paths'[1] = Paths[1]
      <4>1. tabs # <<>> /\ tabs[1] \in SCPaths \ {p}
        <5>1. Paths # <<>> /\ Paths[1] \in Served /\ Paths[1] = front.tab
          BY <1>2, <2>2, <2>5, FirstIs DEF Fallen
        <5> QED BY <1>2, <1>4, <2>1, <5>1, ServedIs
      <4>2. Without(tabs, p)[1] = tabs[1]
        BY <1>4, <4>1, WithinFirst DEF Without
      <4> QED BY <1>4, <1>5, <1>13, <4>2
    <3>2. Keeper(r)
      <4>1. k.succ = 0 /\ k.focus = pref
        BY <1>1, <1>3, <1>10, <2>1, <2>5 DEF Keeper
      <4> QED BY <1>7, <1>8, <4>1 DEF Keeper
    <3>3. ASSUME NEW d \in Callers, call'[d].op \in {"close", "reorder"} PROVE Keeper(call[d])'
      <4>1. Keeper(call'[d])
        BY <1>13, <2>5, <3>2, <3>3 DEF Fallen
      <4> QED BY <2>1, <4>1 DEF Keeper
    <3> QED BY <2>1, <2>3, <2>5, <3>1, <3>3 DEF Fallen
  <2> QED BY <2>1, <2>2, <2>3, <2>4, <2>5
<1> QED BY <1>13, <1>14 DEF CatalogInv

LEMMA ArrangeStep == ASSUME CatalogInv, NEW c \in Callers, Arrange(c) PROVE CatalogInv'
<1> DEFINE k == call[c]
           want == k.desired
           m == Reordered(lists, want)
           pc == Persists
           r == [k EXCEPT !.pc = pc]
<1>1. /\ k.pc = "arrange" /\ UNCHANGED <<reloadvars, pref, file, front>>
      /\ Reconcile(m) /\ tabs' = Arranged(tabs, want) /\ Becomes(c, r)
  BY DEF Arrange, CallAt, othervars, GoesTo
<1>2. /\ k \in CatalogCall /\ StepsRight(k) /\ k.op \in CatalogOps /\ CatalogType
      /\ Orderly(lists) /\ lists \in CatalogLists /\ TabsKept /\ want \in Seq(SCPaths)
      /\ front \in [tab : Nat, twice : BOOLEAN]
  BY HereFacts, CallType DEF CatalogInv, CatalogType
<1>3. k.op = "reorder"
  BY <1>1, <1>2 DEF StepsRight, CatalogOps
<1> HIDE DEF want
<1>4. /\ UnionPaths(lists) = tabs /\ Paths = tabs /\ tabs \in Seq(SCPaths)
      /\ Served = ToSet(tabs) /\ Len(Paths) = Len(entries)
  BY <1>2, ServedIs DEF TabsKept, CatalogType
<1>5. m \in CatalogLists /\ Orderly(m) /\ UnionPaths(m) = Arranged(tabs, want)
  BY <1>2, <1>4, ReorderedFacts
<1>6. Arranged(tabs, want) \in Seq(SCPaths) /\ ToSet(Arranged(tabs, want)) = ToSet(tabs)
  BY <1>2, <1>4, ArrangedFacts
<1>7. pc \in CatalogSteps /\ pc \in {"load", "return"}
  BY PersistsIs
<1> HIDE DEF pc
<1>8. /\ r \in CatalogCall /\ r.pc = pc /\ r.op = "reorder" /\ r.path = k.path /\ r.hubs = k.hubs
      /\ r.focus = k.focus /\ r.succ = k.succ
  BY <1>2, <1>3, <1>7, GoesCall
<1>9. ~Fallen
  BY <1>1, <1>3, HereFacts DEF Keeper
<1>10. k.pc \notin {"swap", "tell"} /\ r.pc \notin {"swap", "tell"}
  BY <1>1, <1>7, <1>8
<1> HIDE DEF r, m
<1>11. StepsRight(r)
  BY <1>1, <1>2, <1>3, <1>7, <1>8 DEF StepsRight
<1>12. /\ CatalogType' /\ Stages' /\ Orderly(lists)' /\ TabsKept' /\ ReloadRight'
       /\ call'[c] = r /\ \A d \in Callers : d # c => call'[d] = call[d]
       /\ Paths' = UnionPaths(m) /\ Served' = ToSet(UnionPaths(m))
  BY <1>1, <1>2, <1>5, <1>6, <1>8, <1>10, <1>11, ReconcileKeeps
<1>13. FrontRight'
  <2>1. Served' = Served
    BY <1>4, <1>5, <1>6, <1>12
  <2>2. Named => Named'
    BY <1>1, <1>7, <1>8, <1>12 DEF Named, NoThief
  <2> QED BY <1>1, <1>9, <2>1, <2>2 DEF CatalogInv, FrontRight
<1> QED BY <1>12, <1>13 DEF CatalogInv

\* The preference moves and nothing else does.
LEMMA FocusFrame ==
    ASSUME CatalogInv, NEW c \in Callers, NEW pc \in CatalogSteps, GoesTo(c, pc),
           pc \in {"load", "return", "arrange"}, call[c].pc \notin {"swap", "tell"},
           StepsRight([call[c] EXCEPT !.pc = pc]), pref' \in Nat,
           front' \in [tab : Nat, twice : BOOLEAN], UNCHANGED <<catvars, reloadvars, tabs, othervars>>
    PROVE  /\ CatalogType' /\ Stages' /\ Orderly(lists)' /\ TabsKept' /\ ReloadRight'
           /\ Paths' = Paths /\ Served' = Served
           /\ call'[c].pc = pc /\ call'[c].op = call[c].op /\ call'[c].focus = call[c].focus
           /\ \A d \in Callers : d # c => call'[d] = call[d]
<1> DEFINE r == [call[c] EXCEPT !.pc = pc]
<1>1. UNCHANGED <<lists, entries, plug, tables, config, missed, reloading, tabs, file>>
  BY DEF catvars, reloadvars, othervars
<1>2. /\ r \in CatalogCall /\ r.pc = pc /\ r.op = call[c].op /\ r.focus = call[c].focus
      /\ r.hubs = call[c].hubs
  BY HereFacts, GoesCall
<1>3. StepsRight(r) /\ Becomes(c, r) /\ CatalogType
  BY HereFacts DEF GoesTo
<1> HIDE DEF r
<1>4. /\ call' \in [Callers -> CatalogCall] /\ call'[c] = r
      /\ \A d \in Callers : d # c => call'[d] = call[d]
  BY <1>2, <1>3, CallFacts
<1>5. CatalogType'
  BY <1>1, <1>3, <1>4 DEF CatalogType
<1>6. Stages'
  BY <1>3, <1>4 DEF CatalogInv, Stages
<1>7. Paths' = Paths /\ Served' = Served
  BY <1>1 DEF Paths, Served
<1>8. Orderly(lists)' /\ TabsKept'
  BY <1>1, <1>7 DEF CatalogInv, Orderly, TabsKept, UnionPaths, Natural
<1>9. ReloadRight'
  <2>1. \A d \in Callers : call'[d].hubs = call[d].hubs
    BY <1>2, <1>4
  <2>2. \A d \in Callers : call'[d].pc \in {"swap", "tell"} <=> call[d].pc \in {"swap", "tell"}
    BY <1>2, <1>4
  <2>3. \A d \in Callers : call'[d].pc = "tell" => call'[d] = call[d]
    BY <1>2, <1>4
  <2>4. \A d \in Callers : call[d].pc = "tell" => call'[d] = call[d]
    BY <1>2, <1>4
  <2> QED BY <1>1, <2>1, <2>2, <2>3, <2>4 DEF CatalogInv, ReloadRight
<1> QED BY <1>2, <1>4, <1>5, <1>6, <1>7, <1>8, <1>9

LEMMA SetActiveStep == ASSUME CatalogInv, NEW c \in Callers, SetActiveRepo(c) PROVE CatalogInv'
<1> DEFINE k == call[c]
           p == k.path
           pc == IF k.op = "open" THEN Persists ELSE "return"
           r == [call[c] EXCEPT !.pc = pc]
<1>1. /\ k.pc = "set" /\ pref' = p /\ GoesTo(c, pc)
      /\ front' = IF p \in Served THEN [tab |-> p, twice |-> Expected(p)] ELSE Nowhere
      /\ UNCHANGED <<catvars, reloadvars, tabs, othervars>>
  BY DEF SetActiveRepo, CallAt
<1>2. StepsRight(k) /\ k.op \in CatalogOps /\ p \in Nat
  BY HereFacts, CallType
<1>3. k.op \in {"open", "focus"}
  BY <1>1, <1>2 DEF StepsRight, CatalogOps
<1>4. /\ pc \in CatalogSteps /\ pc \in {"load", "return"} /\ (k.op = "focus" => pc = "return")
  BY PersistsIs DEF CatalogSteps
<1> HIDE DEF pc
<1>5. /\ r.pc = pc /\ r.op = k.op /\ r.path = k.path /\ r.focus = k.focus /\ r.succ = k.succ
  BY <1>4, GoneFields
<1>6. StepsRight(r)
  <2> HIDE DEF r
  <2> QED BY <1>1, <1>2, <1>3, <1>4, <1>5 DEF StepsRight
<1>7. front' \in [tab : Nat, twice : BOOLEAN]
  BY <1>1, <1>2 DEF Nowhere, Expected
<1>8. /\ CatalogType' /\ Stages' /\ Orderly(lists)' /\ TabsKept' /\ ReloadRight'
      /\ Paths' = Paths /\ Served' = Served
      /\ call'[c].pc = pc /\ call'[c].op = call[c].op /\ call'[c].focus = call[c].focus
      /\ \A d \in Callers : d # c => call'[d] = call[d]
  BY <1>1, <1>2, <1>4, <1>6, <1>7, FocusFrame
<1>9. FrontRight'
  <2>1. CASE p \notin Served
    BY <1>1, <2>1 DEF FrontRight, Nowhere
  <2>2. CASE p \in Served /\ Expected(p)
    BY <1>1, <1>8, <2>2 DEF FrontRight
  <2>3. CASE p \in Served /\ ~Expected(p)
    <3>1. \A d \in Callers : call'[d].op \in {"close", "reorder"} => call'[d].focus # p
      BY <1>3, <1>8, <2>3 DEF Expected
    <3>2. Named'
      BY <1>1, <2>3, <3>1 DEF Named
    <3> QED BY <1>1, <1>8, <2>3, <3>2 DEF FrontRight
  <2> QED BY <2>1, <2>2, <2>3
<1> QED BY <1>8, <1>9 DEF CatalogInv

LEMMA WriteFocusStep == ASSUME CatalogInv, NEW c \in Callers, WriteFocus(c) PROVE CatalogInv'
<1> DEFINE k == call[c]
           pc == IF k.op = "close" THEN Persists ELSE "arrange"
           r == [call[c] EXCEPT !.pc = pc]
<1>1. /\ k.pc = "write" /\ pref' = (IF pref = k.focus THEN k.succ ELSE pref) /\ GoesTo(c, pc)
      /\ front' = front /\ UNCHANGED <<catvars, reloadvars, tabs, othervars>>
  BY DEF WriteFocus, SetActiveRepoIf, CallAt
<1>2. /\ StepsRight(k) /\ k.op \in CatalogOps /\ k.succ \in Nat /\ pref \in Nat
      /\ front \in [tab : Nat, twice : BOOLEAN]
  BY HereFacts, CallType DEF CatalogType
<1>3. k.op \in {"close", "reorder"}
  BY <1>1, <1>2 DEF StepsRight, CatalogOps
<1>4. /\ pc \in CatalogSteps /\ pc \in {"load", "return", "arrange"}
      /\ (k.op = "close" => pc \in {"load", "return"}) /\ (k.op = "reorder" => pc = "arrange")
  BY PersistsIs DEF CatalogSteps
<1> HIDE DEF pc
<1>5. /\ r.pc = pc /\ r.op = k.op /\ r.path = k.path /\ r.focus = k.focus /\ r.succ = k.succ
  BY <1>4, GoneFields
<1>6. StepsRight(r)
  <2> HIDE DEF r
  <2> QED BY <1>1, <1>2, <1>3, <1>4, <1>5 DEF StepsRight
<1>7. pref' \in Nat
  BY <1>1, <1>2
<1>8. /\ CatalogType' /\ Stages' /\ Orderly(lists)' /\ TabsKept' /\ ReloadRight'
      /\ Paths' = Paths /\ Served' = Served
      /\ call'[c].pc = pc /\ call'[c].op = call[c].op /\ call'[c].focus = call[c].focus
      /\ \A d \in Callers : d # c => call'[d] = call[d]
  BY <1>1, <1>2, <1>4, <1>6, <1>7, FocusFrame
<1>9. FrontRight'
  <2> SUFFICES ASSUME front.tab # 0, ~front.twice PROVE front.tab \in Served /\ (Named' \/ Fallen')
    BY <1>1, <1>8 DEF CatalogInv, FrontRight
  <2>1. front.tab \in Served /\ (Named \/ Fallen)
    BY DEF CatalogInv, FrontRight
  <2>2. CASE Named
    <3>1. k.focus # pref
      BY <1>1, <1>3, <2>2, HereFacts DEF NoThief
    <3> QED BY <1>1, <1>8, <2>1, <2>2, <3>1 DEF Named
  <2>3. CASE Fallen
    <3>1. /\ k.focus = pref /\ k.op = "reorder" /\ k.succ = front.tab
      BY <1>1, <1>3, <2>3, HereFacts DEF Keeper
    <3>2. pref' = front.tab /\ pref # front.tab
      BY <1>1, <2>1, <2>3, <3>1 DEF Fallen
    <3>3. ASSUME NEW d \in Callers, call[d].op \in {"close", "reorder"}
          PROVE  call[d].focus # front.tab
      <4>1. StepsRight(call[d]) /\ Keeper(call[d])
        BY <2>3, <3>3, HereFacts
      <4> QED BY <3>2, <4>1 DEF StepsRight, Keeper
    <3>4. \A d \in Callers : call'[d].op \in {"close", "reorder"} => call'[d].focus # front.tab
      BY <1>8, <3>3
    <3>5. Named'
      BY <1>1, <3>2, <3>4 DEF Named
    <3> QED BY <2>1, <3>5
  <2> QED BY <2>1, <2>2, <2>3
<1> QED BY <1>8, <1>9 DEF CatalogInv

----------------------------------------------------------------------------
(* The catalog: the theorems *)

LEMMA CatalogStarts == SCInit => CatalogInv
<1> SUFFICES ASSUME SCInit PROVE CatalogInv
  OBVIOUS
<1>1. /\ lists = [base |-> Within(SCBase, SCPaths), added |-> <<>>, hidden |-> {}, order |-> <<>>]
      /\ tabs = UnionPaths(lists) /\ tables = 1 /\ config = 1 /\ pref \in SCPrefs
      /\ entries = [i \in DOMAIN tabs |-> [path |-> tabs[i], hub |-> i]]
      /\ plug = [i \in DOMAIN tabs |-> 1]
      /\ file = [repos |-> tabs, active |-> IF tabs = <<>> THEN 0 ELSE tabs[1]]
      /\ call = [c \in Callers |-> NoCall] /\ reloading = 0 /\ missed = {}
      /\ front = [tab |-> ActiveRepo, twice |-> FALSE]
  BY DEF SCInit
<1>2. /\ Within(SCBase, SCPaths) \in Seq(SCPaths) /\ Once(Within(SCBase, SCPaths))
      /\ Within(<<>>, SCPaths) = <<>> /\ ToSet(<<>>) = {} /\ <<>> \in Seq(SCPaths)
  BY WithinFacts, OnceWithin, WithinEmpty, EmptyEntries, SCAssumption
<1>3. lists \in CatalogLists /\ Orderly(lists)
  <2>1. /\ lists.base = Within(SCBase, SCPaths) /\ lists.added = <<>> /\ lists.hidden = {}
        /\ lists.order = <<>>
    BY <1>1
  <2>2. lists \in CatalogLists
    <3> DEFINE b == Within(SCBase, SCPaths)
    <3>1. b \in Seq(SCPaths)
      BY <1>2
    <3> HIDE DEF b
    <3>2. [base |-> b, added |-> <<>>, hidden |-> {}, order |-> <<>>] \in CatalogLists
      BY <1>2, <3>1 DEF CatalogLists
    <3> QED BY <1>1, <3>2 DEF b
  <2> QED BY <1>2, <2>1, <2>2 DEF Orderly, Once
<1>4. tabs \in Seq(SCPaths) /\ DOMAIN tabs = 1 .. Len(tabs) /\ Len(tabs) \in Nat
      /\ \A i \in DOMAIN tabs : tabs[i] \in SCPaths
  <2>1. tabs \in Seq(SCPaths)
    BY <1>1, <1>3, UnionIs
  <2> QED BY <2>1
<1>5. /\ entries \in Seq([path : SCPaths, hub : Nat]) /\ plug \in Seq(Nat)
      /\ Len(plug) = Len(tabs) /\ DOMAIN entries = 1 .. Len(tabs)
      /\ \A i \in 1 .. Len(tabs) : /\ entries[i].path = tabs[i] /\ entries[i].hub = i
                                   /\ plug[i] = 1
  <2> DEFINE e == [i \in 1 .. Len(tabs) |-> [path |-> tabs[i], hub |-> i]]
             g == [i \in 1 .. Len(tabs) |-> 1]
  <2>1. entries = e /\ plug = g
    BY <1>1, <1>4
  <2>2. \A i \in 1 .. Len(tabs) : tabs[i] \in SCPaths /\ i \in Nat
    BY <1>4
  <2>3. e \in Seq([path : SCPaths, hub : Nat]) /\ DOMAIN e = 1 .. Len(tabs)
    BY <1>4, <2>2
  <2>4. g \in Seq(Nat) /\ Len(g) = Len(tabs)
    BY <1>4
  <2>5. \A i \in 1 .. Len(tabs) : e[i].path = tabs[i] /\ e[i].hub = i /\ g[i] = 1
    OBVIOUS
  <2> QED BY <2>1, <2>3, <2>4, <2>5
<1>6. Paths = tabs
  <2>1. Paths = [i \in DOMAIN tabs |-> tabs[i]]
    BY <1>4, <1>5 DEF Paths
  <2> QED BY <1>4, <2>1
<1>7. call \in [Callers -> CatalogCall]
      /\ \A c \in Callers : call[c] = NoCall
  BY <1>1, IdleCall
<1>8. pref \in Nat /\ file \in [repos : Seq(SCPaths), active : Nat]
  <2>1. (IF tabs = <<>> THEN 0 ELSE tabs[1]) \in Nat
    <3>1. CASE tabs = <<>>
      BY <3>1
    <3>2. CASE tabs # <<>>
      <4>1. tabs[1] \in SCPaths
        BY <1>4, <3>2
      <4> QED BY <3>2, <4>1, SCAssumption
    <3> QED BY <3>1, <3>2
  <2> DEFINE a == IF tabs = <<>> THEN 0 ELSE tabs[1]
  <2>2. a \in Nat /\ file = [repos |-> tabs, active |-> a]
    BY <1>1, <2>1
  <2> HIDE DEF a
  <2>3. [repos |-> tabs, active |-> a] \in [repos : Seq(SCPaths), active : Nat]
    BY <1>4, <2>2
  <2>4. pref \in Nat
    BY <1>1, SCAssumption
  <2> QED BY <2>2, <2>3, <2>4
<1>9. entries = <<>> <=> tabs = <<>>
  BY <1>4, <1>5
<1>10. Served = ToSet(tabs)
  BY <1>6 DEF Served, Paths
<1>11. ActiveRepo \in Nat
  <2>1. CASE pref \in Served
    BY <1>8, <2>1 DEF ActiveRepo
  <2>2. CASE pref \notin Served
    <3>1. ActiveRepo = IF tabs = <<>> THEN 0 ELSE tabs[1]
      BY <1>6, <1>9, <2>2 DEF ActiveRepo
    <3>2. CASE tabs = <<>>
      BY <3>1, <3>2
    <3>3. CASE tabs # <<>>
      <4>1. tabs[1] \in SCPaths
        BY <1>4, <3>3
      <4> QED BY <3>1, <3>3, <4>1, SCAssumption
    <3> QED BY <3>2, <3>3
  <2> QED BY <2>1, <2>2
<1>12. CatalogType
  BY <1>1, <1>3, <1>4, <1>5, <1>7, <1>8, <1>11 DEF CatalogType
<1>13. Stages
  BY <1>7, IdleCall DEF Stages
<1>14. TabsKept
  BY <1>1, <1>6 DEF TabsKept
<1>15. FrontRight
  <2>1. front.tab = ActiveRepo /\ front.twice = FALSE
    BY <1>1
  <2>2. \A c \in Callers : call[c].op = "none"
    BY <1>7, IdleCall
  <2>3. CASE pref \in Served
    BY <2>1, <2>2, <2>3 DEF FrontRight, Named, ActiveRepo
  <2>4. CASE pref \notin Served /\ entries = <<>>
    BY <2>1, <2>4 DEF FrontRight, ActiveRepo
  <2>5. CASE pref \notin Served /\ entries # <<>>
    <3>1. front.tab = Paths[1] /\ Paths[1] \in Served
      BY <1>12, <2>1, <2>5, FirstIs DEF ActiveRepo
    <3> QED BY <2>2, <2>5, <3>1 DEF FrontRight, Fallen
  <2> QED BY <2>3, <2>4, <2>5
<1>16. ReloadRight
  <2>1. \A c \in Callers : call[c].pc = "idle" /\ call[c].hubs = <<>> /\ c # 0
    BY <1>7, IdleCall, SCAssumption
  <2> QED BY <1>1, <1>2, <1>5, <2>1 DEF ReloadRight
<1> QED BY <1>3, <1>12, <1>13, <1>14, <1>15, <1>16 DEF CatalogInv

LEMMA CatalogNextKeeps == CatalogInv /\ [SCNext]_scvars => CatalogInv'
<1> SUFFICES ASSUME CatalogInv, [SCNext]_scvars PROVE CatalogInv'
  OBVIOUS
<1>1. ASSUME NEW c \in Callers, CallStep(c) PROVE CatalogInv'
  BY <1>1, AskStep, GetEntryStep, AddPathStep, GetAddedStep, SetActiveStep, ReturnStep,
     ReadFocusStep, ResolveFocusStep, FirstServedStep, SuccessorStep, CloseEntryStep,
     CheckServedStep, WriteFocusStep, GetFrontStep, GetPathStep, ArrangeStep, LoadFileStep,
     MirrorStep, SaveFileStep, LockAndReadStep, SetTablesStep, TellHubStep, ReportStep
     DEF CallStep
<1>2. CASE UNCHANGED scvars
  <2>1. UNCHANGED <<lists, entries, plug, tables, config, pref, file, call, reloading, missed,
                    front, tabs>>
    BY <1>2 DEF scvars
  <2>2. Paths' = Paths /\ Served' = Served
    BY <2>1 DEF Paths, Served
  <2>3. CatalogType' /\ Stages' /\ Orderly(lists)' /\ TabsKept'
    BY <2>1, <2>2 DEF CatalogInv, CatalogType, Stages, Orderly, TabsKept, UnionPaths, Natural
  <2>4. FrontRight' /\ ReloadRight'
    BY <2>1, <2>2 DEF CatalogInv, FrontRight, Named, Fallen, Keeper, ReloadRight
  <2> QED BY <2>3, <2>4 DEF CatalogInv
<1> QED BY <1>1, <1>2, EditStep DEF SCNext

\* CatalogInv is an inductive invariant of the catalog: the lists in order, the
\* preference naming the tab in front or falling back on it with every call
\* under way aware of which, and every hub told or counted.
THEOREM CatalogInductive == SCSpec => []CatalogInv
<1> QED BY CatalogStarts, CatalogNextKeeps, PTL DEF SCSpec

\* However many callers open, close, focus, reorder and reload at once: the
\* lists show people one strip of tabs (membership.rs), the tab they put in
\* front stays in front until it is closed (close_repo, reorder_repos), and a
\* reload reaches or counts every hub (reload.rs).
THEOREM CatalogIsRight == SCSpec => []CatalogRight
<1>1. ASSUME CatalogInv PROVE CatalogRight
  <2>1. TabsKept
    BY <1>1 DEF CatalogInv
  <2>2. FrontKept
    <3> SUFFICES ASSUME front.tab \in Served, ~front.twice PROVE ActiveRepo = front.tab
      BY DEF FrontKept
    <3>1. front.tab # 0 /\ CatalogType
      BY <1>1, ServedIs DEF CatalogInv
    <3>2. Named \/ Fallen
      BY <1>1, <3>1 DEF CatalogInv, FrontRight
    <3>3. CASE Named
      BY <3>3 DEF Named, ActiveRepo
    <3>4. CASE Fallen
      <4>1. entries # <<>>
        BY <3>1, FirstIs
      <4> QED BY <3>4, <4>1 DEF Fallen, ActiveRepo
    <3> QED BY <3>2, <3>3, <3>4
  <2>3. ReloadReaches
    <3>1. reloading = 0 => \A d \in Callers : call[d].pc # "tell"
      BY <1>1, SCAssumption DEF CatalogInv, ReloadRight
    <3> QED BY <1>1, <3>1 DEF CatalogInv, ReloadRight, ReloadReaches
  <2> QED BY <2>1, <2>2, <2>3 DEF CatalogRight
<1> QED BY <1>1, CatalogInductive, PTL
=============================================================================
