------------------------------ MODULE Recovery ------------------------------
(***************************************************************************)
(* The recovery plugin (plugins/nightcrow-recovery) on one pane: its loop, *)
(* the machine that decides when to act (state*.rs), the wait that trusts  *)
(* neither clock alone (wait.rs) and the two adapters that say when a      *)
(* limit was hit and which session to resume (provider/).  Around it the   *)
(* host, which reports through a pipe and judges every request, and the    *)
(* provider: a Codex process and a sibling's, each writing a rollout, or   *)
(* an OpenCode server with this pane's session and another.                *)
(*                                                                         *)
(* Session 1 is the pane's own, 2 another's, 0 none; a reset time is named *)
(* by the session whose limit it ends.  Time is counted in ticks of the    *)
(* loop; a wait is kept as what is left of it on either clock.             *)
(***************************************************************************)
EXTENDS Integers, Sequences, FiniteSets

CONSTANTS
    MaxResumeAttempts,   \* MAX_RESUME_ATTEMPTS
    ResumeConfirm,       \* RESUME_CONFIRM_SECS, in ticks
    MinWait, MaxWait,    \* MIN_WAIT_SECS and MAX_WAIT_SECS, in ticks
    BackoffBase,         \* BACKOFF_BASE_SECS, in ticks
    BackoffMax,          \* BACKOFF_MAX_SECS, in ticks
    JumpTolerance,       \* JUMP_TOLERANCE_SECS, in ticks
    MaxGeneration,       \* bound: spawns of the pane
    Scenes               \* bounds: per adapter, how many events the host reports,
                         \* records or statuses change, wall clock jumps and ticks
                         \* it drifts unnoticed

ASSUME RecoveryAssumption ==
    /\ {MaxResumeAttempts, ResumeConfirm, JumpTolerance, BackoffBase} \subseteq Nat
    /\ {MinWait, BackoffMax, MaxWait} \subseteq Nat \ {0}
    /\ MinWait =< BackoffMax /\ BackoffMax =< MaxWait
    /\ \A s \in Scenes : s.drift \in Nat

VARIABLES
    scene,      \* the bounds, and the adapter the pane's command names
    host,       \* generation, alive, open; the events on their way; a bound
    asks,       \* relaunches asked of the host and not yet judged
    turn,       \* the loop: waiting for a message, or about to tick
    rec,        \* PaneRecovery
    eye,        \* the adapter's state of the pane
    rolls,      \* session -> records of its rollout
    fresh,      \* sessions whose rollout changed since watching began
    status,     \* session -> what the OpenCode server says of it
    clock,      \* bounds used up: jumps, drift, records
    ghost       \* ticks since the limit was noted, asks without a reset time, an early one

rvars == <<scene, host, asks, turn, rec, eye, rolls, fresh, status, clock, ghost>>

Sessions == {1, 2}
Limit(id, resets) == [id |-> id, resets |-> resets]
HEvent(kind, gen) == [kind |-> kind, gen |-> gen]

\* What of a rollout matters to recovery, and of a session's status.
Records == {"token_count", "usage_limit"}
StatusKinds == {"retry", "busy", "idle"}

NoWait == [left |-> 0, lag |-> 0]

\* PaneRecovery::new
NewRecovery(gen) ==
    [gen |-> gen, state |-> "Idle", limit |-> <<>>, wait |-> NoWait, attempt |-> 0,
     alive |-> TRUE, age |-> 0, ask |-> <<>>]

\* PaneState::new, and what sync_generation leaves.
NewEye(gen) ==
    [gen |-> gen, bound |-> 0, ambiguous |-> FALSE, offset |-> 0, id |-> 0, resets |-> 0,
     latched |-> FALSE, retrying |-> <<>>, exited |-> FALSE, fired |-> FALSE]

RInit ==
    /\ scene \in Scenes
    /\ host = [gen |-> 1, alive |-> TRUE, open |-> TRUE, inbox |-> <<>>, events |-> 0]
    /\ asks = <<>>
    /\ turn = "wait"
    /\ rec = NewRecovery(1)
    /\ eye = NewEye(0)
    /\ rolls = [s \in Sessions |-> <<>>]
    /\ fresh = {}
    /\ status = [s \in Sessions |-> "busy"]
    /\ clock = [jumps |-> 0, drift |-> 0, records |-> 0]
    /\ ghost = [since |-> 0, blind |-> 0, early |-> FALSE]

----------------------------------------------------------------------------
(* The host and the providers: external to the plugin. *)

Report(kinds) ==
    \E kind \in kinds :
        /\ host.open /\ host.events < scene.events
        /\ kind = "PaneExited" => host.alive
        /\ host' = [host EXCEPT !.events = @ + 1,
                                !.alive = @ /\ kind # "PaneExited",
                                !.open = kind # "PaneClosed",
                                !.inbox = Append(@, HEvent(kind, host.gen))]

\* The pane's output that matters is the text of a limit.
HostReports ==
    /\ Report({"PaneOutput", "PaneExited", "UserInput", "PaneClosed"})
    /\ UNCHANGED <<scene, asks, turn, rec, eye, rolls, fresh, status, clock, ghost>>

\* A new process in the slot writes a new rollout.
Spawn ==
    /\ host' = [host EXCEPT !.gen = @ + 1, !.alive = TRUE,
                            !.inbox = Append(@, HEvent("PaneOpened", host.gen + 1))]
    /\ rolls' = [rolls EXCEPT ![1] = <<>>]
    /\ fresh' = fresh \ {1}
    /\ status' = [status EXCEPT ![1] = "busy"]

HostRespawns ==
    /\ host.open /\ ~host.alive /\ host.gen < MaxGeneration
    /\ Spawn
    /\ UNCHANGED <<scene, asks, turn, rec, eye, clock, ghost>>

\* It relaunches only what it was asked of, while that process is gone.
HostJudges ==
    /\ asks # <<>>
    /\ asks' = Tail(asks)
    /\ \/ /\ host.open /\ ~host.alive /\ Head(asks).gen = host.gen /\ host.gen < MaxGeneration
          /\ Spawn
       \/ UNCHANGED <<host, rolls, fresh, status>>
    /\ UNCHANGED <<scene, turn, rec, eye, clock, ghost>>

\* A Codex process writes its usage, or the limit it hit.
RolloutGrows ==
    /\ scene.adapter = "codex" /\ clock.records < scene.records
    /\ \E s \in Sessions, r \in Records :
          /\ s = 1 => host.alive
          /\ rolls' = [rolls EXCEPT ![s] = Append(@, r)]
          /\ fresh' = fresh \cup {s}
    /\ clock' = [clock EXCEPT !.records = @ + 1]
    /\ UNCHANGED <<scene, host, asks, turn, rec, eye, status, ghost>>

\* An OpenCode session starts or stops retrying.
StatusChanges ==
    /\ scene.adapter = "opencode" /\ clock.records < scene.records
    /\ \E s \in Sessions, k \in StatusKinds \ {"busy"} :
          status[s] # k /\ (s = 1 => host.alive) /\ status' = [status EXCEPT ![s] = k]
    /\ clock' = [clock EXCEPT !.records = @ + 1]
    /\ UNCHANGED <<scene, host, asks, turn, rec, eye, rolls, fresh, ghost>>

----------------------------------------------------------------------------
(* wait.rs and the waiting half of the machine. *)

WaitFor(planned) == [left |-> planned, lag |-> planned]

\* ResetWait::backoff
Backoff(attempt) ==
    LET doubled == BackoffBase * 2 ^ (attempt - 1)
    IN WaitFor(IF doubled < MinWait THEN MinWait
               ELSE IF doubled > BackoffMax THEN BackoffMax ELSE doubled)

\* Mutant: a jump of the wall clock is not absorbed.
TrustsWall(w, d, jump) == [left |-> w.left - d, lag |-> w.lag - d - jump]
\* ResetWait::poll: a jump past the tolerance moves the deadline with it.
Polled(w, d, jump) ==
    [left |-> w.left - d,
     lag  |-> w.lag - d - (IF jump >= JumpTolerance \/ -jump >= JumpTolerance THEN 0 ELSE jump)]
Elapsed(w) == w.lag <= 0 /\ w.left <= 0

GoTo(r, state) == [r EXCEPT !.state = state]

\* arm_backoff
ArmBackoff(r) ==
    IF r.attempt >= MaxResumeAttempts
    THEN GoTo([r EXCEPT !.wait = NoWait], "NeedsAttention")
    ELSE GoTo([r EXCEPT !.wait = Backoff(r.attempt + 1)], "Backoff")

\* arm_wait; how far off the reset is, is the provider's.
ArmWait(r, planned) ==
    IF r.limit[1].resets # 0
    THEN GoTo([r EXCEPT !.wait = WaitFor(planned)], "WaitingForReset")
    ELSE ArmBackoff(r)

----------------------------------------------------------------------------
(* state.rs: events and episodes. *)

Cancel(r) == GoTo([r EXCEPT !.wait = NoWait, !.limit = <<>>, !.age = 0], "Idle")

\* confirm_resume: only a limit with a reset time refunds the attempts.
ConfirmResume(r) ==
    [Cancel(r) EXCEPT !.attempt = IF r.limit # <<>> /\ r.limit[1].resets # 0 THEN 0 ELSE @]

\* A resume under a known reset time was seen to work.
Refunds(e) ==
    rec.state = "Resuming" /\ e.gen # rec.gen /\ rec.limit # <<>> /\ rec.limit[1].resets # 0

\* on_event, for an event that is not of a generation already passed.
OnEvent(r, e) ==
    LET moved == IF e.gen = r.gen THEN r
                 ELSE LET n == [r EXCEPT !.gen = e.gen, !.alive = TRUE]
                      IN IF r.state = "Resuming" THEN ConfirmResume(n) ELSE Cancel(n)
    IN CASE e.kind = "PaneOpened" -> [moved EXCEPT !.alive = TRUE]
         [] e.kind = "PaneExited" -> [moved EXCEPT !.alive = FALSE]
         [] e.kind \in {"PaneClosed", "UserInput"} -> Cancel([moved EXCEPT !.attempt = 0])
         [] OTHER -> moved

IsSameEpisode(r, limit) == r.limit # <<>> /\ r.state # "Idle" /\ r.limit[1] = limit

\* note_limit
NoteLimit(r, limit, planned) ==
    IF r.state = "NeedsAttention" \/ IsSameEpisode(r, limit) THEN r
    ELSE ArmWait([r EXCEPT !.limit = <<limit>>, !.state = "LimitDetected"], planned)

----------------------------------------------------------------------------
(* The adapters. *)

\* state_for: a new generation starts watching anew. What changed before then
\* no longer counts, but for what changed within the same second.
Watched(e, gen) == IF e.gen = gen THEN e ELSE NewEye(gen)
StillFresh(f) == IF eye.gen = rec.gen THEN f = fresh ELSE f \subseteq fresh

Latch(e) == [e EXCEPT !.latched = TRUE]

\* Codex::on_output: once per run, with whatever the rollout said so far.
OutputLimit(e) ==
    IF scene.adapter = "codex" /\ ~e.latched THEN <<Limit(e.id, e.resets)>> ELSE <<>>

\* on_exit
SeesExit(e) == [e EXCEPT !.latched = FALSE, !.exited = TRUE]

\* bind: only when there is one candidate.
BindRollout(e, candidates) ==
    IF e.bound # 0 \/ e.ambiguous \/ candidates = {} THEN e
    ELSE IF Cardinality(candidates) > 1 THEN [e EXCEPT !.ambiguous = TRUE]
    ELSE LET s == CHOOSE s \in candidates : TRUE IN [e EXCEPT !.bound = s, !.id = s]

\* read_appended, consume, apply: n records of the bound rollout; the first
\* limit among them is the one reported, with the reset time known by then.
ReadRollout(e, n) ==
    LET read == SubSeq(rolls[e.bound], e.offset + 1, e.offset + n)
        known(k) == IF \E i \in 1 .. k : read[i] = "token_count" THEN e.bound ELSE e.resets
        limits == {i \in 1 .. n : read[i] = "usage_limit"}
        first == CHOOSE i \in limits : \A j \in limits : i <= j
    IN [eye   |-> [e EXCEPT !.offset = @ + n, !.resets = known(n)],
        limit |-> IF limits = {} THEN <<>> ELSE <<Limit(e.id, known(first))>>]

\* PaneState::tail. A replaced rollout is shorter and is read from the start.
CodexPoll(e, candidates, n) ==
    LET b == BindRollout(e, candidates)
        c == IF b.bound # 0 /\ Len(rolls[b.bound]) < b.offset THEN [b EXCEPT !.offset = 0] ELSE b
    IN IF c.bound = 0 \/ c.offset + n > Len(rolls[c.bound]) \/ n = 0
       THEN [eye |-> c, limit |-> <<>>]
       ELSE ReadRollout(c, n)

\* remember_retry fills gaps; emit reports once, without a deadline that passed.
RememberRetry(e, s, next) ==
    LET known == IF e.retrying = <<>> THEN Limit(0, 0) ELSE e.retrying[1]
    IN [e EXCEPT !.retrying = <<Limit(s, IF next THEN s ELSE known.resets)>>]
EmitRetry(e, passed) ==
    IF e.retrying = <<>> THEN [eye |-> e, limit |-> <<>>]
    ELSE [eye   |-> [e EXCEPT !.fired = TRUE],
          limit |-> <<Limit(e.retrying[1].id, IF passed THEN 0 ELSE e.retrying[1].resets)>>]

\* OpenCode::poll: the outcomes a snapshot, or a server that cannot be
\* reached, allows. A retry of any session is remembered as this pane's.
OpenCodePolls(e) ==
    LET retries == {s \in Sessions : status[s] = "retry"}
        nothing == [eye |-> e, limit |-> <<>>]
    IN IF e.fired THEN {nothing}
       ELSE IF e.exited THEN {EmitRetry(e, p) : p \in BOOLEAN}
       ELSE {nothing} \cup
            (IF retries # {}
             THEN {[eye |-> RememberRetry(e, s, k), limit |-> <<>>] : s \in retries, k \in BOOLEAN}
             ELSE IF e.retrying # <<>> /\ status[e.retrying[1].id] = "idle"
             THEN {EmitRetry(e, p) : p \in BOOLEAN}
             ELSE {})

\* Provider::poll
PollAdapter(e, candidates) ==
    IF scene.adapter = "codex" THEN {CodexPoll(e, candidates, n) : n \in 0 .. clock.records}
    ELSE OpenCodePolls(e)

\* Provider::resume, for a process that is gone: the session it would name.
ResumeId(r, e) ==
    IF r.limit[1].id # 0 THEN r.limit[1].id
    ELSE IF scene.adapter = "codex" /\ e.gen = r.gen THEN e.id ELSE 0

----------------------------------------------------------------------------
(* state_resume.rs, state_clock.rs and the loop. *)

\* spend_attempt
SpendAttempt(r, id) ==
    IF r.attempt >= MaxResumeAttempts THEN GoTo(r, "NeedsAttention")
    ELSE GoTo([r EXCEPT !.attempt = @ + 1, !.age = 0,
                        !.ask = <<[gen |-> r.gen, id |-> id]>>],
              "Resuming")

\* try_resume. Both adapters hold a pane whose process still runs, or whose
\* session they cannot name.
TryResume(r, e) ==
    IF r.limit = <<>> THEN Cancel(r)
    ELSE IF r.alive \/ ResumeId(r, e) = 0 THEN GoTo(r, "NeedsAttention")
    ELSE SpendAttempt(r, ResumeId(r, e))

\* PaneRecovery::tick, d ticks after the last with the wall clock off by jump.
MachineTick(r, e, d, jump) ==
    LET w == Polled(r.wait, d, jump)
        s == CASE r.state \in {"WaitingForReset", "Backoff"} ->
                    IF Elapsed(w) THEN GoTo([r EXCEPT !.wait = NoWait], "ReadyToResume")
                    ELSE [r EXCEPT !.wait = w]
               [] r.state = "Resuming" ->
                    IF r.age + d >= ResumeConfirm THEN ArmBackoff(r) ELSE [r EXCEPT !.age = @ + d]
               [] OTHER -> r
    IN IF s.state = "ReadyToResume" THEN TryResume(s, e) ELSE s

\* What the adapter is told of an event: on_output and on_exit.
EyeAfter(ev, gen) ==
    CASE ev.kind = "PaneOutput" /\ scene.adapter = "codex" -> Latch(Watched(eye, gen))
      [] ev.kind = "PaneExited" /\ (scene.adapter = "opencode" \/ eye.gen = gen) ->
           SeesExit(Watched(eye, gen))
      [] OTHER -> eye

\* on_host_event; open_pane keeps the recovery of a slot that is reopened.
HandlesEvent ==
    /\ turn = "wait" /\ rec.state # "Closed" /\ host.inbox # <<>>
    /\ host' = [host EXCEPT !.inbox = Tail(@)]
    /\ turn' = "tick"
    /\ LET ev == Head(host.inbox)
           r == [OnEvent(rec, ev) EXCEPT !.ask = <<>>]
           limit == IF ev.kind = "PaneOutput" THEN OutputLimit(Watched(eye, r.gen)) ELSE <<>>
       IN IF ev.gen < rec.gen
          THEN UNCHANGED <<rec, eye, ghost, fresh>>
          ELSE /\ \E planned \in MinWait .. MaxWait :
                     rec' = IF limit # <<>> THEN NoteLimit(r, limit[1], planned)
                            ELSE IF ev.kind = "PaneClosed" THEN GoTo(r, "Closed") ELSE r
               /\ eye' = EyeAfter(ev, r.gen)
               /\ fresh' \in IF eye'.gen = eye.gen THEN {fresh} ELSE SUBSET fresh
               /\ ghost' = [ghost EXCEPT
                     !.since = IF rec'.limit # rec.limit THEN 0 ELSE @,
                     !.blind = IF ev.kind \in {"UserInput", "PaneClosed"} \/ Refunds(ev)
                               THEN 0 ELSE @]
    /\ UNCHANGED <<scene, asks, rolls, status, clock>>

\* recv_timeout ran out.
TimesOut ==
    /\ turn = "wait" /\ rec.state # "Closed" /\ host.inbox = <<>>
    /\ turn' = "tick"
    /\ UNCHANGED <<scene, host, asks, rec, eye, rolls, fresh, status, clock, ghost>>

\* How far the wall clock strayed from the other since the last tick.
Jumps == {0, -1, JumpTolerance + 1, -(JumpTolerance + 1)}
Strays(jump) ==
    /\ jump \in {JumpTolerance + 1, -(JumpTolerance + 1)} => clock.jumps < scene.jumps
    /\ jump = -1 => clock.drift < scene.drift
    /\ clock' = [clock EXCEPT !.jumps = IF jump \in {0, -1} THEN @ ELSE @ + 1,
                              !.drift = IF jump = -1 THEN @ + 1 ELSE @]

\* What the machine makes of a poll: a wait armed now starts from now.
Advances(p, d, jump, planned) ==
    LET noted == IF p.limit = <<>> THEN rec ELSE NoteLimit(rec, p.limit[1], planned)
        new == noted.limit # rec.limit
        r == MachineTick([noted EXCEPT !.ask = <<>>], p.eye,
                         IF new THEN 0 ELSE d, IF new THEN 0 ELSE jump)
        since == IF new THEN 0 ELSE IF ghost.since < MaxWait THEN ghost.since + d ELSE ghost.since
    IN /\ rec' = r
       /\ asks' = asks \o r.ask
       /\ ghost' = [since |-> since,
                    blind |-> IF r.ask # <<>> /\ r.limit[1].resets = 0
                              THEN ghost.blind + 1 ELSE ghost.blind,
                    early |-> ghost.early \/ (r.ask # <<>> /\ since < MinWait)]

\* tick: the adapter is polled, then the machine advances.
LoopTicks ==
    /\ turn = "tick" /\ rec.state # "Closed"
    /\ turn' = "wait"
    /\ \E d \in {0, 1}, jump \in Jumps, f \in SUBSET fresh, planned \in MinWait .. MaxWait :
         /\ StillFresh(f) /\ Strays(jump)
         /\ \E p \in PollAdapter(Watched(eye, rec.gen), f) :
              Advances(p, d, jump, planned) /\ eye' = p.eye /\ fresh' = f
    /\ UNCHANGED <<scene, host, rolls, status>>

RNext ==
    \/ HostReports \/ HostRespawns \/ HostJudges \/ RolloutGrows \/ StatusChanges
    \/ HandlesEvent \/ TimesOut \/ LoopTicks

RSpec == RInit /\ [][RNext]_rvars

----------------------------------------------------------------------------
(* Properties *)

\* A relaunch is asked for only of a process that is gone, never before the
\* least wait has passed on a clock nobody can set, and no more often than the
\* budget allows while no reset time is known, no resume under one has worked
\* and no person steps in, whatever the wall clock does and however late the
\* host's reports are; and a wait is not stretched by more than the drift below
\* the tolerance (state*.rs, wait.rs: "the real time spent waiting can be
\* neither shortened nor lengthened").
RecoveryRight ==
    /\ \A i \in DOMAIN asks : asks[i].gen = host.gen => ~host.alive
    /\ ~ghost.early
    /\ ghost.blind <= MaxResumeAttempts
    /\ rec.state \in {"WaitingForReset", "Backoff"} => rec.wait.left > -scene.drift - 1

\* docs/plugins.md: "requires an unambiguous session id, and relaunches with
\* `codex resume <SESSION_ID>` after the process exits; it never uses `--last`,
\* which could select another pane's session."
ResumesOwnSession == \A i \in DOMAIN asks : asks[i].id = 1
=============================================================================
