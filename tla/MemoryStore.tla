----------------------------- MODULE MemoryStore -----------------------------
(***************************************************************************)
(* The shared memory of a project's agents (plugins/nightcrow-memory): one *)
(* helper process per agent, all of them opening one SQLite file, with     *)
(* notes, an index of the notes and a board of what everybody is doing.    *)
(* Nothing serves the file: helpers wait for each other's transactions,    *)
(* give up waiting, fail in the middle of one and are killed at any        *)
(* moment.  The lock, the rollback and the ids are SQLite's, as the code   *)
(* asks for them.                                                          *)
(***************************************************************************)
EXTENDS Integers, FiniteSets, FiniteSetsExt

CONSTANTS Helpers,            \* helper processes of one pane
          MaxNotes,           \* MAX_NOTES
          MaxResults,         \* MAX_RESULTS
          MaxTtl, Ttls,       \* MAX_BOARD_TTL_SECS; the lifetimes agents ask for
          MSScripts           \* what a behaviour has room for: [ops, calls, ticks, deaths,
                              \* fresh: no helper has opened the file yet]

ASSUME MemoryAssumption ==
    /\ {MaxNotes, MaxResults, MaxTtl} \subseteq Nat
    /\ Ttls \subseteq Int /\ 0 \notin Helpers

VARIABLES db,      \* what is committed: [wal, version, entries, index, last]
          txHolder,  \* the helper inside an immediate transaction, 0 when none
          work,      \* what that transaction would commit
          helper,    \* helper -> its call, its store, its client and the note it last saw
          memClock, memCalls, deaths, msScript,
          told,      \* ghost: notes a caller was told are saved
          doomed,    \* ghost: notes somebody asked to delete
          posted     \* ghost: each author's last post

msvars == <<db, txHolder, work, helper, memClock, memCalls, deaths, msScript, told, doomed, posted>>

NoNote == [id |-> 0]
NewHelper == [at |-> "idle", store |-> FALSE, client |-> "agent", seen |-> NoNote,
              op |-> "none", ok |-> TRUE, now |-> 0, ttl |-> 0, call |-> 0]

NotesOf(f) == {e \in f.entries : e.kind = "note"}
PostsOf(f) == {e \in f.entries : e.kind = "board"}

MSInit ==
    /\ msScript \in MSScripts
    /\ db = [wal |-> ~msScript.fresh, version |-> IF msScript.fresh THEN 0 ELSE 1,
             entries |-> {}, index |-> {}, last |-> 0]
    /\ txHolder = 0 /\ work = db
    /\ helper = [h \in Helpers |-> [NewHelper EXCEPT !.store = ~msScript.fresh]]
    /\ memClock = 0 /\ memCalls = 0 /\ deaths = 0
    /\ told = {} /\ doomed = {} /\ posted = {}

UnchangedRest == UNCHANGED <<memClock, memCalls, deaths, told, doomed, posted, msScript>>
HelperBecomes(h, new) == helper' = [helper EXCEPT ![h] = new]
GoesOn(h, at) == HelperBecomes(h, [helper[h] EXCEPT !.at = at])

\* the call is over; the agent reads its result or why it was refused
Replied(h) == [helper[h] EXCEPT !.at = "idle", !.op = "none", !.ok = TRUE, !.now = 0, !.ttl = 0,
                                     !.call = 0]

---------------------------------------------------------------------------
(* mcp.rs, tools.rs *)

\* who the other agents are told wrote it: the client, and the pane all share
AuthorLabel(h) == helper[h].client

\* "initialize" names the client; calls before it are from an "agent"
Initialize(h) ==
    /\ helper[h].at = "idle" /\ helper[h].client = "agent"
    /\ HelperBecomes(h, [helper[h] EXCEPT !.client = "named"])
    /\ UNCHANGED <<db, txHolder, work>> /\ UnchangedRest

\* A call reads the clock, then opens the store if an earlier call did not.  ok
\* says whether the arguments pass the checks that follow.
CallTool(h) ==
    /\ helper[h].at = "idle" /\ memCalls < msScript.calls
    /\ \E op \in msScript.ops \ (IF helper[h].seen = NoNote THEN {"delete"} ELSE {}) :
       \E ok \in IF op = "write" THEN BOOLEAN ELSE {TRUE} :
       \E ttl \in IF op = "post" THEN Ttls ELSE {0} :
          HelperBecomes(h, [helper[h] EXCEPT
              !.at = IF helper[h].store THEN "run" ELSE "wal",
              !.op = op, !.ok = ok, !.now = memClock, !.ttl = ttl, !.call = memCalls + 1])
    /\ memCalls' = memCalls + 1
    /\ UNCHANGED <<db, txHolder, work, memClock, deaths, told, doomed, posted, msScript>>

---------------------------------------------------------------------------
(* store.rs: opening *)

\* The journal mode is changed with the file to oneself; while another has it
\* the change is tried again until the deadline.
EnterWal(h) ==
    /\ helper[h].at = "wal"
    /\ db.wal \/ \A o \in Helpers : helper[o].at # "switch"
    /\ GoesOn(h, IF db.wal THEN "version" ELSE "switch")
    /\ UNCHANGED <<db, txHolder, work>> /\ UnchangedRest

Switched(h) ==
    /\ helper[h].at = "switch"
    /\ db' = [db EXCEPT !.wal = TRUE] /\ work' = db'
    /\ GoesOn(h, "version")
    /\ UNCHANGED txHolder /\ UnchangedRest

WalDeadline(h) ==
    /\ helper[h].at = "wal" /\ \E o \in Helpers : helper[o].at = "switch"
    /\ HelperBecomes(h, Replied(h))
    /\ UNCHANGED <<db, txHolder, work>> /\ UnchangedRest

\* The version is read outside any transaction, the tables are made in one.
ReadVersion(h) ==
    /\ helper[h].at = "version"
    /\ HelperBecomes(h, IF db.version = 1
                        THEN [helper[h] EXCEPT !.at = "run", !.store = TRUE]
                        ELSE [helper[h] EXCEPT !.at = "migrate"])
    /\ UNCHANGED <<db, txHolder, work>> /\ UnchangedRest

\* CREATE TABLE IF NOT EXISTS: what another helper made and filled stays.
Migrated(f) == [f EXCEPT !.version = 1]

Migrate(h) ==
    /\ helper[h].at = "migrate" /\ txHolder = 0
    /\ db' = Migrated(db) /\ work' = db'
    /\ HelperBecomes(h, [helper[h] EXCEPT !.at = "run", !.store = TRUE])
    /\ UNCHANGED txHolder /\ UnchangedRest

---------------------------------------------------------------------------
(* store.rs: the transactions *)

Writes == {"write", "delete", "post"}
ASSUME ScriptAssumption ==
    \A s \in MSScripts : s.ops \subseteq Writes \cup {"search", "recent"} /\ s.fresh \in BOOLEAN

\* the checks of the arguments, before the transaction
InputAccepted(h) ==
    /\ helper[h].ok
    /\ helper[h].op = "post" => helper[h].ttl \in 1..MaxTtl

Refuse(h) ==
    /\ helper[h].at = "run" /\ ~InputAccepted(h)
    /\ HelperBecomes(h, Replied(h))
    /\ UNCHANGED <<db, txHolder, work>> /\ UnchangedRest

BeginImmediate(h) ==
    /\ helper[h].at = "run" /\ helper[h].op \in Writes /\ InputAccepted(h) /\ txHolder = 0
    /\ txHolder' = h /\ work' = db
    /\ GoesOn(h, "first")
    /\ UNCHANGED db /\ UnchangedRest

\* BUSY_TIMEOUT passes while another helper's transaction goes on
BusyTimeout(h) ==
    /\ helper[h].at \in {"run", "migrate"} /\ txHolder \notin {0, h}
    /\ helper[h].at = "run" => helper[h].op \in Writes /\ InputAccepted(h)
    /\ HelperBecomes(h, Replied(h))
    /\ UNCHANGED <<db, txHolder, work>> /\ UnchangedRest

\* AUTOINCREMENT: one past the largest id ever given
NextRowId(f) == f.last + 1

Insert(f, h, kind, expires) ==
    [f EXCEPT !.entries = @ \cup {[id |-> NextRowId(f), kind |-> kind, author |-> AuthorLabel(h),
                                   call |-> helper[h].call, created |-> helper[h].now,
                                   expires |-> expires]},
              !.last = Max({@, NextRowId(f)})]

RowOf(h) == CHOOSE e \in work.entries : e.call = helper[h].call

\* the rows a post takes the place of
Replaced(h) == {e \in PostsOf(work) : e.author = AuthorLabel(h) \/ e.expires <= helper[h].now}

\* Mutant: every statement takes effect as it is made.
KeepsPartial(h) ==
    IF txHolder = h THEN txHolder' = 0 /\ db' = work /\ UNCHANGED work
    ELSE UNCHANGED <<db, txHolder, work>>
\* ends the transaction without its changes
RolledBack(h) ==
    /\ UNCHANGED db
    /\ IF txHolder = h THEN txHolder' = 0 /\ work' = db ELSE UNCHANGED <<txHolder, work>>

TooMany(f) == Cardinality(NotesOf(f)) >= MaxNotes

\* write_note: counted, then a row, then its words in the index
WriteNote(h) ==
    \/ /\ helper[h].at = "first" /\ TooMany(work)
       /\ HelperBecomes(h, Replied(h)) /\ RolledBack(h)
    \/ /\ helper[h].at = "first" /\ ~TooMany(work)
       /\ work' = Insert(work, h, "note", 0)
       /\ GoesOn(h, "second") /\ UNCHANGED <<db, txHolder>>
    \/ /\ helper[h].at = "second"
       /\ work' = [work EXCEPT !.index = @ \cup {RowOf(h).id}]
       /\ GoesOn(h, "commit") /\ UNCHANGED <<db, txHolder>>

\* delete_note: by the id the agent was shown
DeleteNote(h) ==
    LET gone == {e \in NotesOf(work) : e.id = helper[h].seen.id} IN
    \/ /\ helper[h].at = "first"
       /\ work' = [work EXCEPT !.entries = @ \ gone]
       /\ GoesOn(h, IF gone # {} THEN "second" ELSE "commit") /\ UNCHANGED <<db, txHolder>>
    \/ /\ helper[h].at = "second"
       /\ work' = [work EXCEPT !.index = @ \ {helper[h].seen.id}]
       /\ GoesOn(h, "commit") /\ UNCHANGED <<db, txHolder>>

\* post_board: the author's line is replaced
PostBoard(h) ==
    \/ /\ helper[h].at = "first"
       /\ work' = [work EXCEPT !.entries = @ \ Replaced(h)]
       /\ GoesOn(h, "second") /\ UNCHANGED <<db, txHolder>>
    \/ /\ helper[h].at = "second"
       /\ work' = Insert(work, h, "board", helper[h].now + helper[h].ttl)
       /\ GoesOn(h, "commit") /\ UNCHANGED <<db, txHolder>>

Statement(h) ==
    /\ txHolder = h
    /\ \/ helper[h].op = "write" /\ WriteNote(h)
       \/ helper[h].op = "delete" /\ DeleteNote(h)
       \/ helper[h].op = "post" /\ PostBoard(h)
    /\ UnchangedRest

\* The answer to a write names the new note's id.
Commit(h) ==
    /\ helper[h].at = "commit"
    /\ db' = work /\ txHolder' = 0 /\ UNCHANGED work
    /\ HelperBecomes(h, [Replied(h) EXCEPT
                            !.seen = IF helper[h].op = "write" THEN RowOf(h) ELSE @])
    /\ told' = IF helper[h].op = "write" THEN told \cup {RowOf(h)} ELSE told
    /\ doomed' = IF helper[h].op = "delete" THEN doomed \cup {helper[h].seen} ELSE doomed
    /\ posted' = IF helper[h].op = "post"
                 THEN {p \in posted : p.author # AuthorLabel(h)} \cup {RowOf(h)} ELSE posted
    /\ UNCHANGED <<memClock, memCalls, deaths, msScript>>

\* a statement or the commit fails
StatementFails(h) ==
    /\ txHolder = h
    /\ RolledBack(h) /\ HelperBecomes(h, Replied(h))
    /\ UnchangedRest

---------------------------------------------------------------------------
(* store.rs: the reads, one statement each *)

\* search: what the index and the rows agree on; recent: the newest notes
Found(h) ==
    LET notes == NotesOf(db)
        newer(m, n) == m.created > n.created \/ (m.created = n.created /\ m.id > n.id)
    IN  IF helper[h].op = "search" THEN {n \in notes : n.id \in db.index}
        ELSE {n \in notes : Cardinality({m \in notes : newer(m, n)}) < MaxResults}

Read(h) ==
    /\ helper[h].at = "run" /\ helper[h].op \in {"search", "recent"}
    /\ \E n \in IF Found(h) = {} THEN {helper[h].seen} ELSE Found(h) :
          HelperBecomes(h, [Replied(h) EXCEPT !.seen = n])
    /\ UNCHANGED <<db, txHolder, work>> /\ UnchangedRest

---------------------------------------------------------------------------

\* A helper is killed, and its agent starts another.
HelperDies(h) ==
    /\ deaths < msScript.deaths /\ helper[h] # NewHelper
    /\ deaths' = deaths + 1
    /\ RolledBack(h) /\ HelperBecomes(h, NewHelper)
    /\ UNCHANGED <<memClock, memCalls, told, doomed, posted, msScript>>

MemTick ==
    /\ memClock < msScript.ticks /\ memClock' = memClock + 1
    /\ UNCHANGED <<db, txHolder, work, helper, memCalls, deaths, told, doomed, posted, msScript>>

HelperStep(h) ==
    \/ Initialize(h) \/ CallTool(h)
    \/ EnterWal(h) \/ Switched(h) \/ WalDeadline(h) \/ ReadVersion(h) \/ Migrate(h)
    \/ Refuse(h) \/ BeginImmediate(h) \/ BusyTimeout(h)
    \/ Statement(h) \/ Commit(h) \/ StatementFails(h) \/ Read(h) \/ HelperDies(h)

MSNext == MemTick \/ \E h \in Helpers : HelperStep(h)

MSSpec == MSInit /\ [][MSNext]_msvars

---------------------------------------------------------------------------
(* Properties *)

\* A note an agent was told is saved stays until somebody asks to delete that
\* very note, and a post stays on the board until it expires or its author
\* posts again, whoever dies, gives up waiting, creates the tables or reuses a
\* number meanwhile (store.rs migrate, delete_note, post_board).  The limit holds
\* although it is counted by several processes, the index holds exactly the
\* notes, so that a search finds each, and nobody has two lines on the board.
MemoryRight ==
    /\ told \ doomed \subseteq db.entries
    /\ \A p \in posted : p.expires > memClock => p \in db.entries
    /\ Cardinality(NotesOf(db)) <= MaxNotes
    /\ db.index = {n.id : n \in NotesOf(db)}
    /\ \A p, q \in PostsOf(db) : p.author = q.author => p = q
=============================================================================
