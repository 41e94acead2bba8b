----------------------------- MODULE DaemonLife -----------------------------
(***************************************************************************)
(* How a session daemon comes and goes, and what the commands that meet it *)
(* do in between: run_daemon (the web port, the session, the instance      *)
(* lock, the attach socket, the way out), `attach` that starts or restarts *)
(* one (cli/attach.rs, cli/startup.rs), `stop` (cli/stop.rs), and the      *)
(* admission of connections that have not said what they are               *)
(* (daemon/serve/).  Any process may be killed at any point: the system    *)
(* then frees its port, its lock and its connections, and the socket file  *)
(* stays behind.                                                           *)
(*                                                                         *)
(* Daemon 1 is there first; the child a command starts is named after it.  *)
(* 0 stands for nobody, no file, no daemon.                                *)
(***************************************************************************)
EXTENDS Naturals, FiniteSets

CONSTANTS
    Commands,         \* the commands that run, numbered from 2
    Settings,         \* where it starts: the first daemon (serve, dead, none), its build,
                      \* the commands' kinds (attach, attach_yes, stop, status, silent)
                      \* and the ports their children would take
    PreAttachCap,     \* MAX_PRE_ATTACH_CONNECTIONS
    AttachedCap,      \* MAX_ATTACHED_CLIENTS
    MaxKills          \* bound: processes killed outright

ASSUME CommandsAssumption == Commands \subseteq Nat \ {0, 1} /\ IsFiniteSet(Commands)
ASSUME CapsAssumption == PreAttachCap \in Nat /\ AttachedCap \in Nat

VARIABLES
    proc,      \* daemon -> its place, its web port, its build, its stop request
    portOf,    \* port -> the daemon listening on it
    lock,      \* who holds the instance lock
    socketFile,      \* whose listener the socket file leads to
    cli,       \* command -> its kind, its place, the daemon it asked to stop
    line,      \* command -> its connection: to whom, where it stands, what it said
    pre,       \* daemon -> PreAttachAdmission::active
    kills      \* bound

dvars == <<proc, portOf, lock, socketFile, cli, line, pre, kills>>

Daemons == {1} \cup Commands
Ports == {1, 2}
Kinds == {"attach", "attach_yes", "stop", "status", "silent"}
Builds == {"new", "old"}
ASSUME SettingsAssumption ==
    \A st \in Settings :
        /\ st.first \in {"serve", "dead", "none"} /\ st.build \in Builds
        /\ st.kind \in [Commands -> Kinds] /\ st.port \in [Commands -> Ports]
NoConn == [to |-> 0, at |-> "none", said |-> "none", mismatch |-> FALSE]

\* From the bind on its accept thread takes connections, until it exits.
Bound == {"serve", "shutdown", "unlink", "unlock", "exit"}
Serving(x) == proc[x].pc \in {"serve", "shutdown", "unlink"}
Alive(x) == proc[x].pc \notin {"none", "dead"}

\* Children read the configuration when they start and may find another port.
\* A daemon serves, was killed and left its socket file, or there was none.
DLInit ==
    /\ \E st \in Settings :
         /\ proc = [x \in Daemons |->
                      IF x = 1 THEN [pc |-> st.first, port |-> 1, build |-> st.build, asked |-> FALSE]
                      ELSE [pc |-> "none", port |-> st.port[x], build |-> "new", asked |-> FALSE]]
         /\ portOf = [p \in Ports |-> IF p = 1 /\ st.first = "serve" THEN 1 ELSE 0]
         /\ lock = IF st.first = "serve" THEN 1 ELSE 0
         /\ socketFile = IF st.first = "none" THEN 0 ELSE 1
         /\ cli = [c \in Commands |-> [kind |-> st.kind[c], pc |-> "try", asked |-> 0]]
    /\ line = [c \in Commands |-> NoConn]
    /\ pre = [x \in Daemons |-> 0]
    /\ kills = 0

----------------------------------------------------------------------------
(* run_daemon *)

At(x, pc) == proc' = [proc EXCEPT ![x].pc = pc]

\* Everything a process holds goes with it; not the file.
ProcessEnds(x) ==
    /\ At(x, "dead")
    /\ portOf' = [p \in Ports |-> IF portOf[p] = x THEN 0 ELSE portOf[p]]
    /\ lock' = IF lock = x THEN 0 ELSE lock
    /\ line' = [c \in Commands |-> IF line[c].to = x /\ line[c].at # "answered"
                                   THEN [line[c] EXCEPT !.at = "closed"] ELSE line[c]]
    /\ pre' = [pre EXCEPT ![x] = 0]

\* start_from_config: the browser's listener first, then the repositories.
TakesPort(x) ==
    /\ proc[x].pc = "port"
    /\ IF portOf[proc[x].port] = 0
       THEN /\ portOf' = [portOf EXCEPT ![proc[x].port] = x]
            /\ At(x, "lock")
            /\ UNCHANGED <<lock, line, pre>>
       ELSE ProcessEnds(x)
    /\ UNCHANGED <<socketFile, cli, kills>>

\* Mutant: the socket file is cleared before the lock is asked for.
ClearsFirst(x) ==
    /\ proc[x].pc = "lock"
    /\ socketFile' = 0
    /\ IF lock = 0 THEN lock' = x /\ At(x, "bind") /\ UNCHANGED <<portOf, line, pre>>
       ELSE ProcessEnds(x)
    /\ UNCHANGED <<cli, kills>>
\* InstanceLock::acquire
TakesLock(x) ==
    /\ proc[x].pc = "lock"
    /\ IF lock = 0 THEN lock' = x /\ At(x, "clear") /\ UNCHANGED <<portOf, line, pre>>
       ELSE ProcessEnds(x)
    /\ UNCHANGED <<socketFile, cli, kills>>

\* DaemonSocket::bind: what is there is debris.
ClearsStale(x) ==
    /\ proc[x].pc = "clear"
    /\ socketFile' = 0
    /\ At(x, "bind")
    /\ UNCHANGED <<portOf, lock, cli, line, pre, kills>>

BindsSocket(x) ==
    /\ proc[x].pc = "bind"
    /\ socketFile' = x
    /\ At(x, "serve")
    /\ UNCHANGED <<portOf, lock, cli, line, pre, kills>>

\* A stop signal, held in the channel of one.
SignalArrives(x) ==
    /\ Alive(x) /\ ~proc[x].asked /\ proc[x].pc \in {"port", "lock", "clear", "bind", "serve"}
    /\ proc' = [proc EXCEPT ![x].asked = TRUE]
    /\ UNCHANGED <<portOf, lock, socketFile, cli, line, pre, kills>>

\* The main thread receives one stop request.
StopsServing(x) ==
    /\ proc[x].pc = "serve" /\ proc[x].asked
    /\ proc' = [proc EXCEPT ![x].pc = "shutdown", ![x].asked = FALSE]
    /\ UNCHANGED <<portOf, lock, socketFile, cli, line, pre, kills>>

\* server.shutdown, then drop(socket): the socket file, then the lock, then the process.
StopsSession(x) ==
    /\ proc[x].pc = "shutdown"
    /\ At(x, "unlink")
    /\ UNCHANGED <<portOf, lock, socketFile, cli, line, pre, kills>>

UnlinksSocket(x) ==
    /\ proc[x].pc = "unlink"
    /\ socketFile' = 0
    /\ At(x, "unlock")
    /\ UNCHANGED <<portOf, lock, cli, line, pre, kills>>

ReleasesLock(x) ==
    /\ proc[x].pc = "unlock"
    /\ lock' = 0
    /\ At(x, "exit")
    /\ UNCHANGED <<portOf, socketFile, cli, line, pre, kills>>

ExitsProcess(x) ==
    /\ proc[x].pc = "exit"
    /\ ProcessEnds(x)
    /\ UNCHANGED <<socketFile, cli, kills>>

\* kill -9
Killed(x) ==
    /\ Alive(x) /\ kills < MaxKills
    /\ ProcessEnds(x)
    /\ kills' = kills + 1
    /\ UNCHANGED <<socketFile, cli>>

----------------------------------------------------------------------------
(* daemon/serve: connections before they are clients. *)

Attached(x) == {c \in Commands : line[c].to = x /\ line[c].at = "attached"}

Settles(c, x, at) ==
    /\ line' = [line EXCEPT ![c].at = at]
    /\ pre' = [pre EXCEPT ![x] = @ - 1]

\* serve: over the cap a connection is dropped.
Accepts(x, c) ==
    /\ proc[x].pc \in Bound /\ line[c].to = x /\ line[c].at = "queued"
    /\ IF pre[x] < PreAttachCap
       THEN /\ line' = [line EXCEPT ![c].at = "permit"]
            /\ pre' = [pre EXCEPT ![x] = @ + 1]
       ELSE line' = [line EXCEPT ![c].at = "closed"] /\ UNCHANGED pre
    /\ UNCHANGED <<proc, portOf, lock, socketFile, cli, kills>>

\* pre_attach::read, connection::run: the one frame allowed before attaching.
ReadsHello(x, c) ==
    /\ Alive(x) /\ line[c].to = x /\ line[c].at = "permit" /\ line[c].said = "hello"
    /\ IF proc[x].build = "new"
       THEN Settles(c, x, IF Cardinality(Attached(x)) < AttachedCap THEN "attached" ELSE "closed")
       ELSE /\ line' = [line EXCEPT ![c].at = "closed", ![c].mismatch = TRUE]
            /\ pre' = [pre EXCEPT ![x] = @ - 1]
    /\ UNCHANGED <<proc, portOf, lock, socketFile, cli, kills>>

\* A second request waits for the channel of one.
ReadsShutdown(x, c) ==
    /\ Alive(x) /\ line[c].to = x /\ line[c].at = "permit" /\ line[c].said = "shutdown"
    /\ ~proc[x].asked
    /\ proc' = [proc EXCEPT ![x].asked = TRUE]
    /\ Settles(c, x, "closed")
    /\ UNCHANGED <<portOf, lock, socketFile, cli, kills>>

\* Status and Notify: answered on the spot, never a client.
AnswersOneShot(x, c) ==
    /\ Alive(x) /\ line[c].to = x /\ line[c].at = "permit" /\ line[c].said = "status"
    /\ Settles(c, x, "answered")
    /\ UNCHANGED <<proc, portOf, lock, socketFile, cli, kills>>

\* HANDSHAKE_TIMEOUT
GivesUpOnSilent(x, c) ==
    /\ Alive(x) /\ line[c].to = x /\ line[c].at = "permit" /\ line[c].said = "none"
    /\ Settles(c, x, "closed")
    /\ UNCHANGED <<proc, portOf, lock, socketFile, cli, kills>>

----------------------------------------------------------------------------
(* The commands. *)

Goes(c, pc) == cli' = [cli EXCEPT ![c].pc = pc]

\* Whether a connect finds a listener: is_unavailable otherwise.
Reachable == socketFile # 0 /\ proc[socketFile].pc \in Bound
Connects(c, said) == line' = [line EXCEPT ![c] = [NoConn EXCEPT !.to = socketFile, !.at = "queued", !.said = said]]

\* connect_or_start, and the connect of one that says nothing.
FirstConnect(c) ==
    /\ cli[c].pc = "try" /\ cli[c].kind \in {"attach", "attach_yes", "silent"}
    /\ IF Reachable
       THEN IF cli[c].kind = "silent" THEN Goes(c, "done") /\ Connects(c, "none")
            ELSE Goes(c, "hello") /\ Connects(c, "hello")
       ELSE Goes(c, IF cli[c].kind = "silent" THEN "done" ELSE "spawn") /\ UNCHANGED line
    /\ UNCHANGED <<proc, portOf, lock, socketFile, pre, kills>>

\* run_status, query_status: one request.
AsksStatus(c) ==
    /\ cli[c].pc = "try" /\ cli[c].kind = "status"
    /\ IF Reachable THEN Goes(c, "status") /\ Connects(c, "status")
       ELSE Goes(c, "failed") /\ UNCHANGED line
    /\ UNCHANGED <<proc, portOf, lock, socketFile, pre, kills>>

\* classify_request_error: an answer, none, or STATUS_TIMEOUT.
HearsStatus(c) ==
    /\ cli[c].pc = "status"
    /\ Goes(c, IF line[c].at = "answered" THEN "done" ELSE "failed")
    /\ UNCHANGED <<proc, portOf, lock, socketFile, line, pre, kills>>

\* connect_stream, up to HANDSHAKE_TIMEOUT: a daemon of another build is
\* restarted when that is agreed.
HearsHello(c) ==
    /\ cli[c].pc = "hello"
    /\ \/ line[c].at = "attached" /\ Goes(c, "attached")
       \/ /\ line[c].at = "closed"
          /\ Goes(c, IF line[c].mismatch /\ cli[c].kind = "attach_yes" /\ proc[c].pc = "none"
                     THEN "stop" ELSE "failed")
       \/ line[c].at \in {"queued", "permit"} /\ Goes(c, "failed")
    /\ UNCHANGED <<proc, portOf, lock, socketFile, line, pre, kills>>

\* respawn_in_background
SpawnsDaemon(c) ==
    /\ cli[c].pc = "spawn"
    /\ proc' = [proc EXCEPT ![c].pc = "port"]
    /\ Goes(c, "wait")
    /\ UNCHANGED <<portOf, lock, socketFile, line, pre, kills>>

\* wait_for_daemon: attach, or find that the child is gone, or give up.
WaitsForDaemon(c) ==
    /\ cli[c].pc = "wait"
    /\ IF Reachable THEN Goes(c, "hello") /\ Connects(c, "hello")
       ELSE Goes(c, "failed") /\ UNCHANGED line
    /\ UNCHANGED <<proc, portOf, lock, socketFile, pre, kills>>

\* run_stop: the socket file, the connection, the request.
AsksStop(c) ==
    /\ cli[c].pc = "stop" \/ (cli[c].pc = "try" /\ cli[c].kind = "stop")
    /\ IF Reachable
       THEN /\ cli' = [cli EXCEPT ![c].pc = "ack", ![c].asked = socketFile]
            /\ Connects(c, "shutdown")
       ELSE Goes(c, "failed") /\ UNCHANGED line
    /\ UNCHANGED <<proc, portOf, lock, socketFile, pre, kills>>

\* wait_for_shutdown_ack: the end of the connection, up to the deadline.
HearsAck(c) ==
    /\ cli[c].pc = "ack"
    /\ Goes(c, IF line[c].at = "closed" THEN "gone" ELSE "failed")
    /\ UNCHANGED <<proc, portOf, lock, socketFile, line, pre, kills>>

\* wait_for_daemon_exit, up to the deadline.
SeesGone(c) ==
    /\ cli[c].pc = "gone"
    /\ \/ socketFile = 0 /\ Goes(c, IF cli[c].kind = "stop" THEN "stopped" ELSE "spawn")
       \/ socketFile # 0 /\ Goes(c, "failed")
    /\ UNCHANGED <<proc, portOf, lock, socketFile, line, pre, kills>>

\* Its terminal closes, or the client leaves.
ClientLeaves(c) ==
    /\ cli[c].pc \in {"attached", "done", "failed"} /\ line[c].at \in {"attached", "queued"}
    /\ line' = [line EXCEPT ![c].at = "closed"]
    /\ Goes(c, "done")
    /\ UNCHANGED <<proc, portOf, lock, socketFile, pre, kills>>

DLNext ==
    \/ \E x \in Daemons :
         \/ TakesPort(x) \/ TakesLock(x) \/ ClearsStale(x) \/ BindsSocket(x) \/ SignalArrives(x)
         \/ StopsServing(x) \/ StopsSession(x) \/ UnlinksSocket(x) \/ ReleasesLock(x)
         \/ ExitsProcess(x) \/ Killed(x)
         \/ \E c \in Commands : Accepts(x, c) \/ ReadsHello(x, c) \/ ReadsShutdown(x, c) \/ AnswersOneShot(x, c)
                                \/ GivesUpOnSilent(x, c)
    \/ \E c \in Commands :
         \/ FirstConnect(c) \/ AsksStatus(c) \/ HearsStatus(c) \/ HearsHello(c) \/ SpawnsDaemon(c) \/ WaitsForDaemon(c)
         \/ AsksStop(c) \/ HearsAck(c) \/ SeesGone(c) \/ ClientLeaves(c)

DLSpec == DLInit /\ [][DLNext]_dvars

----------------------------------------------------------------------------
(* Properties *)

\* While a daemon serves or is on its way out, the socket file leads to it and
\* the lock is its own, whoever else starts, stops or is killed meanwhile; a
\* stop that succeeded means that the session it asked has ended, not only
\* that the request arrived; a connection holds a place among those that have
\* not said what they are until it is a client or gone, and both caps hold
\* (socket.rs, lock.rs, stop.rs, admission.rs).
DaemonRight ==
    /\ \A x \in Daemons : Serving(x) => socketFile = x /\ lock = x
    /\ \A c \in Commands :
          (cli[c].pc \in {"stopped", "spawn", "wait"} /\ cli[c].asked # 0)
             => proc[cli[c].asked].pc \in {"unlock", "exit", "dead"}
    /\ \A x \in Daemons :
          /\ pre[x] = Cardinality({c \in Commands : line[c].to = x /\ line[c].at = "permit"})
          /\ pre[x] <= PreAttachCap /\ Cardinality(Attached(x)) <= AttachedCap

\* cli/stop.rs, wait_for_daemon_exit: "Wait until the daemon has dropped its
\* socket and instance lock."
StopFreesLock == \A c \in Commands : cli[c].pc = "stopped" => lock # cli[c].asked
=============================================================================
