------------------------------ MODULE CloneJobs ------------------------------
(***************************************************************************)
(* Cloning a repository: the one clone slot of the session and the jobs it *)
(* remembers (src/session/clone.rs), and the repo dialog of every attached *)
(* client that starts a clone, discovers one another client started, polls *)
(* it and opens what it made (src/workspace/clone_dialog.rs,               *)
(* clone_status.rs, repo_input.rs, application/session_link.rs).  Requests *)
(* and answers of a client are two queues; a destination is named by the   *)
(* job that made it.                                                       *)
(***************************************************************************)
EXTENDS Integers, Sequences, FiniteSets, SequencesExt

CONSTANTS Dialogs,      \* the attached clients
          Retained,     \* MAX_RETAINED_JOBS
          MaxKeys,      \* keys people press, for the run
          MaxPolls      \* answers of one client that may be outstanding, for the run

ASSUME CloneAssumption == Retained \in Nat \ {0} /\ {MaxKeys, MaxPolls} \subseteq Nat

VARIABLES jobs,     \* job -> "running", "done" or "failed"
          nextJob,  \* CloneJobs.next_id
          starting, \* client -> the job its connection thread is starting, 0 when none
          cloning,  \* jobs whose clone thread runs
          ui,       \* client -> RepoInput, the clone part of the dialog
          toDaemon, toDialog,  \* client -> messages on their way
          clKeys    \* keys left

clvars == <<jobs, nextJob, starting, cloning, ui, toDaemon, toDialog, clKeys>>

Running(table) == {j \in DOMAIN table : table[j] = "running"}

---------------------------------------------------------------------------
(* The session's side. *)

\* try_start past the check: at the limit the oldest finished jobs are forgotten
Admitted(table, id) ==
    LET finished == DOMAIN table \ Running(table)
        many == IF Cardinality(DOMAIN table) >= Retained
                THEN Cardinality(DOMAIN table) - (Retained \div 2) ELSE 0
        gone == {j \in finished : Cardinality({i \in finished : i =< j}) =< many}
    IN  [j \in (DOMAIN table \ gone) \cup {id} |-> IF j = id THEN "running" ELSE table[j]]

Finished(id, state) == [jobs EXCEPT ![id] = IF id \in DOMAIN jobs THEN state ELSE @]

Answer(c, m) == toDialog' = [toDialog EXCEPT ![c] = Append(@, m)]
Asked(c) == Head(toDaemon[c])
Handled(c) == toDaemon' = [toDaemon EXCEPT ![c] = Tail(@)]

\* CloneService::start up to the slot
StartClone(c) ==
    /\ starting[c] = 0 /\ toDaemon[c] # <<>> /\ Asked(c).k = "start"
    /\ IF Running(jobs) # {}
       THEN /\ Answer(c, [k |-> "rejected"]) /\ Handled(c)
            /\ UNCHANGED <<jobs, nextJob, starting>>
       ELSE /\ nextJob' = nextJob + 1
            /\ jobs' = Admitted(jobs, nextJob')
            /\ starting' = [starting EXCEPT ![c] = nextJob']
            /\ UNCHANGED <<toDialog, toDaemon>>
    /\ UNCHANGED <<cloning, ui, clKeys>>

\* Mutant: a start that cannot make its destination keeps the slot.
KeepsSlotTaken(c) == jobs' = jobs
\* the destination cannot be made, or the thread cannot be started: the slot is freed
AbandonStart(c) == jobs' = Finished(starting[c], "failed")

StartFails(c) ==
    /\ starting[c] # 0
    /\ AbandonStart(c)
    /\ Answer(c, [k |-> "rejected"]) /\ Handled(c)
    /\ starting' = [starting EXCEPT ![c] = 0]
    /\ UNCHANGED <<nextJob, cloning, ui, clKeys>>

StartSucceeds(c) ==
    /\ starting[c] # 0
    /\ cloning' = cloning \cup {starting[c]}
    /\ Answer(c, [k |-> "started", job |-> starting[c]]) /\ Handled(c)
    /\ starting' = [starting EXCEPT ![c] = 0]
    /\ UNCHANGED <<jobs, nextJob, ui, clKeys>>

\* run_and_record
CloneEnds(j) ==
    /\ cloning' = cloning \ {j}
    /\ \E state \in {"done", "failed"} : jobs' = Finished(j, state)
    /\ UNCHANGED <<nextJob, starting, ui, toDaemon, toDialog, clKeys>>

\* lookup, by id or for whatever runs
Lookup(job) ==
    CASE job # 0 /\ job \in DOMAIN jobs -> [k |-> "found", job |-> job, state |-> jobs[job]]
      [] job # 0 /\ job \notin DOMAIN jobs -> [k |-> "unknown", job |-> job]
      [] job = 0 /\ Running(jobs) # {} ->
            [k |-> "found", job |-> CHOOSE j \in Running(jobs) : TRUE, state |-> "running"]
      [] OTHER -> [k |-> "idle"]

AnswerStatus(c) ==
    /\ starting[c] = 0 /\ toDaemon[c] # <<>> /\ Asked(c).k = "status"
    /\ Answer(c, Lookup(Asked(c).job)) /\ Handled(c)
    /\ UNCHANGED <<jobs, nextJob, starting, cloning, ui, clKeys>>

\* open_repo: everybody is told the new set, or the asker is refused
AnswerOpen(c) ==
    /\ starting[c] = 0 /\ toDaemon[c] # <<>> /\ Asked(c).k = "open"
    /\ \E ok \in BOOLEAN :
         Answer(c, IF ok THEN [k |-> "repos", job |-> Asked(c).job] ELSE [k |-> "error"])
    /\ Handled(c)
    /\ UNCHANGED <<jobs, nextJob, starting, cloning, ui, clKeys>>

---------------------------------------------------------------------------
(* The dialog. *)

Fresh == [active |-> FALSE, mode |-> "open", status |-> "idle", job |-> 0, owned |-> FALSE,
          visible |-> FALSE, poll |-> FALSE, made |-> 0, pending |-> 0]

Waiting == {"discovering", "starting", "running"}

Rejected(u) == [u EXCEPT !.job = 0, !.owned = FALSE, !.visible = FALSE, !.poll = FALSE,
                         !.status = "failed"]

\* clone_open_requested
OpenRequested(u, j) == IF u.status = "done" /\ u.made = j THEN [u EXCEPT !.pending = j] ELSE u

\* consume_clone_result
Consumed(u) == [Fresh EXCEPT !.active = u.active]

AutoOpens(u) == u.owned /\ u.visible /\ u.active /\ u.mode = "url"

\* apply_clone_lookup of an idle slot: a start nobody knows of is not confirmed
AppliedIdle(u) ==
    CASE u.status = "discovering" -> [u EXCEPT !.status = "idle", !.poll = FALSE]
      [] u.status = "starting" -> [u EXCEPT !.status = "unconfirmed", !.owned = FALSE,
                                            !.visible = FALSE, !.poll = FALSE]
      [] OTHER -> u

\* apply_clone_lookup of a job, but for the opening of what it made
AppliedFound(u, m) ==
    LET known == [u EXCEPT !.job = m.job]
    IN  CASE m.state = "running" -> [known EXCEPT !.status = "running", !.poll = TRUE]
          [] m.state = "failed" -> Rejected(known)
          [] m.state = "done" ->
               LET done == [known EXCEPT !.status = "done", !.made = m.job, !.poll = FALSE,
                                         !.visible = FALSE]
               IN  IF AutoOpens(u) THEN OpenRequested([done EXCEPT !.active = FALSE], m.job)
                   ELSE done

Applied(u, m) ==
    CASE m.k = "idle" -> AppliedIdle(u)
      [] m.k = "unknown" -> IF u.job = m.job THEN Rejected(u) ELSE u
      [] m.k = "found" -> AppliedFound(u, m)
      [] m.k = "started" -> [u EXCEPT !.job = m.job, !.status = "running", !.poll = TRUE]
      [] m.k = "rejected" -> Rejected(u)
      [] m.k = "repos" -> IF u.pending # 0 /\ u.pending = m.job THEN Consumed(u) ELSE u
      [] m.k = "error" -> [u EXCEPT !.pending = 0]

\* sync: one message; a finished clone this client watched is opened at once
SyncDialog(c) ==
    /\ toDialog[c] # <<>>
    /\ LET m == Head(toDialog[c])
       IN  /\ ui' = [ui EXCEPT ![c] = Applied(@, m)]
           /\ toDaemon' = IF m.k = "found" /\ m.state = "done" /\ AutoOpens(ui[c])
                          THEN [toDaemon EXCEPT ![c] = Append(@, [k |-> "open", job |-> m.job])]
                          ELSE toDaemon
    /\ toDialog' = [toDialog EXCEPT ![c] = Tail(@)]
    /\ UNCHANGED <<jobs, nextJob, starting, cloning, clKeys>>

\* take_clone_poll, on a tick the poll is due at
PollClone(c) ==
    /\ ui[c].poll /\ Len(toDaemon[c]) + Len(toDialog[c]) < MaxPolls
    /\ IF ui[c].status \in {"starting", "running"} \/ (ui[c].active /\ ui[c].status = "discovering")
       THEN /\ toDaemon' = [toDaemon EXCEPT ![c] = Append(@, [k |-> "status", job |-> ui[c].job])]
            /\ UNCHANGED ui
       ELSE /\ ui' = [ui EXCEPT ![c].poll = FALSE]
            /\ UNCHANGED toDaemon
    /\ UNCHANGED <<jobs, nextJob, starting, cloning, toDialog, clKeys>>

\* toggle_repo_input_mode; entering the clone half looks for a running clone
Toggled(u) ==
    LET to == CASE u.mode = "open" /\ u.status = "idle" -> "parent"
                [] u.mode = "open" /\ u.status # "idle" -> "url"
                [] u.mode = "url" -> "parent"
                [] u.mode = "parent" -> "open"
        turned == [u EXCEPT !.mode = to, !.visible = @ /\ u.mode = "open"]
    IN  IF to # "open" /\ u.job = 0 /\ u.status = "idle"
        THEN [turned EXCEPT !.status = "discovering", !.poll = TRUE] ELSE turned

\* submit_clone_url: a finished clone is opened, a waiting one left alone
Submitted(u) ==
    CASE u.status = "done" -> OpenRequested([u EXCEPT !.active = FALSE, !.visible = FALSE], u.made)
      [] u.status \in Waiting -> u
      [] OTHER -> [u EXCEPT !.status = "starting", !.job = 0, !.owned = TRUE,
                            !.visible = u.active, !.poll = TRUE]

Sends(c, old, new) ==
    CASE old.status = "done" /\ new.pending # old.pending -> <<[k |-> "open", job |-> old.made]>>
      [] old.status # "starting" /\ new.status = "starting" -> <<[k |-> "start"]>>
      [] old.status # "discovering" /\ new.status = "discovering" -> <<[k |-> "status", job |-> 0]>>
      [] OTHER -> <<>>

\* the keys of the dialog: open it, leave it, switch halves, accept the parent
\* directory, submit, type (which clears a verdict)
PressDialog(c) ==
    /\ clKeys > 0
    /\ \E new \in
        IF ~ui[c].active THEN {[ui[c] EXCEPT !.active = TRUE, !.mode = "open", !.visible = FALSE]}
        ELSE {[ui[c] EXCEPT !.active = FALSE, !.visible = FALSE], Toggled(ui[c])}
             \cup (IF ui[c].mode = "parent" THEN {[ui[c] EXCEPT !.mode = "url"]} ELSE {})
             \cup (IF ui[c].mode = "url"
                   THEN {Submitted(ui[c]),
                         [ui[c] EXCEPT !.status = IF @ \in {"failed", "unconfirmed"}
                                                  THEN "idle" ELSE @]} ELSE {}) :
         /\ ui' = [ui EXCEPT ![c] = new]
         /\ toDaemon' = [toDaemon EXCEPT ![c] = @ \o Sends(c, ui[c], new)]
    /\ clKeys' = clKeys - 1
    /\ UNCHANGED <<jobs, nextJob, starting, cloning, toDialog>>

CLInit ==
    /\ jobs = [j \in {} |-> 0] /\ nextJob = 0
    /\ starting = [c \in Dialogs |-> 0] /\ cloning = {}
    /\ ui = [c \in Dialogs |-> Fresh]
    /\ toDaemon = [c \in Dialogs |-> <<>>] /\ toDialog = [c \in Dialogs |-> <<>>]
    /\ clKeys = MaxKeys

CLNext ==
    \/ \E j \in cloning : CloneEnds(j)
    \/ \E c \in Dialogs :
         \/ StartClone(c) \/ StartFails(c) \/ StartSucceeds(c) \/ AnswerStatus(c) \/ AnswerOpen(c)
         \/ SyncDialog(c) \/ PollClone(c) \/ PressDialog(c)

CLSpec == CLInit /\ [][CLNext]_clvars

---------------------------------------------------------------------------
(* Properties. *)

\* The slot is taken exactly while a clone is being started or runs: no error
\* path of the start leaves it taken, no late finish frees another's
\* (clone.rs start, finish).
SlotTrue ==
    Running(jobs) = (cloning \cup {starting[c] : c \in Dialogs}) \ {0}

\* A dialog that waits is owed an answer: once nothing is on its way and no
\* poll is due it shows a verdict, so it never keeps refusing input for a
\* clone that is over (clone_status.rs, clone_dialog.rs).
DialogSettles ==
    \A c \in Dialogs :
        toDaemon[c] = <<>> /\ toDialog[c] = <<>> /\ ~ui[c].poll => ui[c].status \notin Waiting

\* What the clone slot and the dialogs promise together.
CloneRight == SlotTrue /\ DialogSettles
=============================================================================
