--------------------------- MODULE SessionCatalog ---------------------------
(***************************************************************************)
(* The repositories a session serves: the catalog's membership lists and   *)
(* live entries (session/catalog), the shared preference naming the tab in *)
(* front (session/prefs), the operations clients ask for                   *)
(* (session/operations.rs), the reload of the config file                  *)
(* (session/reload.rs) and the workspace file.                             *)
(*                                                                         *)
(* Every lock the code takes and releases is one step here.  A catalog     *)
(* mutation holds the facade transaction from the change of the lists to   *)
(* the replacement of the entries, so it is one step; everything an        *)
(* operation does around it is a step of its own, and two callers          *)
(* interleave at will.  A repository id is stable for the life of the      *)
(* process (catalog_ids.rs), so the path stands for it.                    *)
(***************************************************************************)
EXTENDS Integers, Sequences, SequencesExt

CONSTANTS SCPaths,      \* the repositories there are, positive integers
          SCBase,       \* the paths the daemon was started with, a sequence
          SCPrefs,      \* what the preference file may name at the start, 0: nothing
          MaxProjects,  \* workspace::MAX_PROJECTS
          Callers,      \* the threads that run operations, positive integers
          SCOrders,     \* the orders a client asks for, sequences
          SCScripts     \* [ops, asks, persist] a run explores

ASSUME SCAssumption == /\ SCPaths \subseteq Nat \ {0} /\ Callers \subseteq Nat \ {0}
                       /\ SCBase \in Seq(SCPaths) /\ SCOrders \subseteq Seq(SCPaths)
                       /\ SCPrefs \subseteq Nat /\ MaxProjects \in Nat

VARIABLES lists,    \* CatalogMembership: base, added, hidden, order
          entries,  \* CatalogRuntime.entries: sequence of [path, hub]
          plug,     \* hub -> the version of the plugin table it was given
          tables,   \* the version of the tables the next hub will be given
          config,   \* the version of the config file
          pref,     \* ViewerPrefs.active_repo, 0 when nothing was focused
          file,     \* the workspace file: repos and the path it names active
          call,     \* caller -> the operation it is in
          reloading,\* the caller that holds reload_lock, 0 when none
          missed,   \* the hubs a reload counted as unreachable
          front,    \* ghost: the tab people put in front (0 once it was closed,
                    \* by the time the focus was set or later, or an open makes the
                    \* preference name a served path again), and whether a call
                    \* under way had read the same path before
          tabs,     \* ghost: the tabs as people see them
          scScript    \* the scScript explored, with the asks left

scvars == <<lists, entries, plug, tables, config, pref, file, call, reloading,
            missed, front, tabs, scScript>>

Nowhere == [tab |-> 0, twice |-> FALSE]
NoCall == [op |-> "none", pc |-> "idle", path |-> 0, focus |-> 0, succ |-> 0,
           todo |-> <<>>, desired |-> <<>>, version |-> 0, hubs |-> <<>>,
           repos |-> <<>>, active |-> 0]

---------------------------------------------------------------------------
(* Membership. *)

PushNew(list, p) == IF p \in ToSet(list) THEN list ELSE Append(list, p)

\* `set.contains(path) && !next.contains(path)` down a list: each of the set once
Within(list, set) ==
    LET next[n \in 0 .. Len(list)] ==
            IF n = 0 THEN <<>>
            ELSE IF list[n] \in set THEN PushNew(next[n - 1], list[n]) ELSE next[n - 1]
    IN  next[Len(list)]

\* `retain(|entry| entry != path)`, on lists that name no path twice: the start
\* may give one twice, but nothing tells that from a base that names it once
Without(list, p) == Within(list, SCPaths \ {p})

\* union_paths: the base then the added paths, without the hidden, in the order remembered
Natural(l) == Within(l.base \o l.added, SCPaths \ l.hidden)
UnionPaths(l) == Within(l.order \o Natural(l), ToSet(Natural(l)))

\* add_path once the path is known not to be served
Shown(l, p) ==
    [l EXCEPT !.hidden = l.hidden \ {p},
              !.base = IF p \in l.hidden THEN Without(l.base, p) ELSE l.base,
              !.added = PushNew(l.added, p)]

RemovePath(l, p) ==
    [l EXCEPT !.added = Without(l.added, p), !.base = Without(l.base, p),
              !.order = Without(l.order, p), !.hidden = l.hidden \cup {p}]

\* reorder: what was asked for, of what is served, then the rest
Arranged(served, desired) == Within(desired \o served, ToSet(served))

Reordered(l, desired) == [l EXCEPT !.order = Arranged(UnionPaths(l), desired)]

---------------------------------------------------------------------------
(* Entries and reads. *)

Served == ToSet([i \in DOMAIN entries |-> entries[i].path])
Paths == [i \in DOMAIN entries |-> entries[i].path]

\* reconcile: an entry survives a change of membership untouched, a new path
\* gets a hub built from the tables as they stand, the others are retired
Reconcile(l) ==
    LET next == UnionPaths(l)
        new == ToSet(next) \ Served
        hub(p) == IF p \in new THEN Len(plug) + 1
                  ELSE entries[CHOOSE i \in DOMAIN entries : entries[i].path = p].hub
    IN  /\ lists' = l
        /\ entries' = [i \in DOMAIN next |-> [path |-> next[i], hub |-> hub(next[i])]]
        /\ plug' = IF new = {} THEN plug ELSE Append(plug, tables)

\* active_repo_from, read at one moment
ActiveRepo == IF pref \in Served THEN pref ELSE IF entries = <<>> THEN 0 ELSE Paths[1]

\* successor_of: the tab after the closing one, or the one before when it is last
SuccessorOf(p) ==
    LET at == IF p \in Served THEN CHOOSE i \in DOMAIN entries : Paths[i] = p ELSE 0
    IN  CASE at = 0 -> 0
          [] at > 0 /\ at < Len(entries) -> Paths[at + 1]
          [] at = Len(entries) /\ at > 1 -> Paths[at - 1]
          [] OTHER -> 0

\* a close or reorder under way already took p for what the preference says
Expected(p) == \E c \in Callers : call[c].op \in {"close", "reorder"} /\ call[c].focus = p

CallAt(c, pc) == call[c].pc = pc
Becomes(c, r) == call' = [call EXCEPT ![c] = r]
GoesTo(c, pc) == Becomes(c, [call[c] EXCEPT !.pc = pc])
Ends(c) == Becomes(c, NoCall)
Persists == IF scScript.persist THEN "load" ELSE "return"

catvars == <<lists, entries, plug>>
reloadvars == <<tables, config, reloading, missed>>
othervars == <<file, scScript>>

---------------------------------------------------------------------------
(* The start of an operation: the request is read, nothing is locked yet. *)

Ask(c) ==
    /\ CallAt(c, "idle") /\ scScript.asks > 0
    /\ scScript' = [scScript EXCEPT !.asks = @ - 1]
    /\ \E op \in scScript.ops :
         \/ /\ op \in {"open", "close", "focus"}
            /\ \E p \in SCPaths :
                 Becomes(c, [NoCall EXCEPT !.op = op, !.pc = IF op = "open" THEN "add" ELSE "get",
                                           !.path = p])
         \/ /\ op = "reorder"
            /\ \E ids \in SCOrders :
                 Becomes(c, [NoCall EXCEPT !.op = op, !.pc = "read", !.todo = ids])
         \/ op = "reload" /\ Becomes(c, [NoCall EXCEPT !.op = op, !.pc = "lock"])
    /\ UNCHANGED <<catvars, reloadvars, pref, file, front, tabs>>

\* catalog.get(id): unknown is an error, and ends a focus and a close
GetEntry(c) ==
    /\ CallAt(c, "get")
    /\ IF call[c].path \in Served
       THEN GoesTo(c, IF call[c].op = "focus" THEN "set" ELSE "read")
       ELSE Ends(c)
    /\ UNCHANGED <<catvars, reloadvars, pref, front, tabs, othervars>>

---------------------------------------------------------------------------
(* open_repo *)

\* Catalog::add_path
AddPath(c) ==
    /\ CallAt(c, "add")
    /\ LET p == call[c].path
       IN  \/ /\ p \in Served
              /\ GoesTo(c, "added")
              /\ UNCHANGED <<catvars, front, tabs>>
           \/ /\ p \notin Served
              /\ Len(UnionPaths(Shown(lists, p))) > MaxProjects
              /\ Ends(c)
              /\ UNCHANGED <<catvars, front, tabs>>
           \/ /\ p \notin Served
              /\ Len(UnionPaths(Shown(lists, p))) =< MaxProjects
              /\ Reconcile(Shown(lists, p))
              /\ tabs' = Append(tabs, p)
              /\ front' = IF pref = p THEN Nowhere ELSE front
              /\ GoesTo(c, "added")
    /\ UNCHANGED <<reloadvars, pref, othervars>>

\* catalog.get: somebody may have closed it again
GetAdded(c) ==
    /\ CallAt(c, "added")
    /\ GoesTo(c, IF call[c].path \in Served THEN "set" ELSE Persists)
    /\ UNCHANGED <<catvars, reloadvars, pref, front, tabs, othervars>>

\* prefs.set_active_repo, for an open and for a focus
SetActiveRepo(c) ==
    /\ CallAt(c, "set")
    /\ pref' = call[c].path
    /\ front' = IF call[c].path \in Served
                THEN [tab |-> call[c].path, twice |-> Expected(call[c].path)] ELSE Nowhere
    /\ GoesTo(c, IF call[c].op = "open" THEN Persists ELSE "return")
    /\ UNCHANGED <<catvars, reloadvars, tabs, othervars>>

ReturnCall(c) ==
    /\ CallAt(c, "return")
    /\ Ends(c)
    /\ UNCHANGED <<catvars, reloadvars, pref, front, tabs, othervars>>

---------------------------------------------------------------------------
(* close_repo and reorder_repos: decided from one read of the preference. *)

ReadFocus(c) ==
    /\ CallAt(c, "read")
    /\ Becomes(c, [call[c] EXCEPT !.focus = pref, !.pc = "resolve"])
    /\ UNCHANGED <<catvars, reloadvars, pref, front, tabs, othervars>>

AfterFront(c, active) ==
    IF call[c].op = "close"
    THEN IF active = call[c].path THEN "successor" ELSE "remove"
    ELSE "front"

\* id_of_path of the remembered path
ResolveFocus(c) ==
    /\ CallAt(c, "resolve")
    /\ GoesTo(c, IF call[c].focus \notin Served THEN "first"
               ELSE IF call[c].op = "close" THEN AfterFront(c, call[c].focus)
               ELSE "paths")
    /\ UNCHANGED <<catvars, reloadvars, pref, front, tabs, othervars>>

\* the fallback: the first repository served
FirstServed(c) ==
    /\ CallAt(c, "first")
    /\ LET active == IF entries = <<>> THEN 0 ELSE Paths[1]
       IN  Becomes(c, [call[c] EXCEPT !.succ = IF call[c].op = "reorder" THEN active ELSE 0,
                                      !.pc = AfterFront(c, active)])
    /\ UNCHANGED <<catvars, reloadvars, pref, front, tabs, othervars>>

Successor(c) ==
    /\ CallAt(c, "successor")
    /\ Becomes(c, [call[c] EXCEPT !.succ = SuccessorOf(call[c].path), !.pc = "remove"])
    /\ UNCHANGED <<catvars, reloadvars, pref, front, tabs, othervars>>

\* Catalog::remove_path, then the retired entry's runtime and hub are stopped
CloseEntry(c) ==
    /\ CallAt(c, "remove")
    /\ Reconcile(RemovePath(lists, call[c].path))
    /\ tabs' = Without(tabs, call[c].path)
    /\ front' = IF front.tab = call[c].path THEN Nowhere ELSE front
    /\ GoesTo(c, IF call[c].succ = 0 THEN Persists ELSE "check")
    /\ UNCHANGED <<reloadvars, pref, othervars>>

\* the successor must still be served
CheckServed(c) ==
    /\ CallAt(c, "check")
    /\ GoesTo(c, IF call[c].succ \in Served THEN "write" ELSE Persists)
    /\ UNCHANGED <<catvars, reloadvars, pref, front, tabs, othervars>>

\* Mutant: a close writes the successor whatever was focused meanwhile.
WritesAnyway(expected, next) == pref' = next
\* prefs.set_active_repo_if
SetActiveRepoIf(expected, next) == pref' = IF pref = expected THEN next ELSE pref

WriteFocus(c) ==
    /\ CallAt(c, "write")
    /\ SetActiveRepoIf(call[c].focus, call[c].succ)
    /\ GoesTo(c, IF call[c].op = "close" THEN Persists ELSE "arrange")
    /\ UNCHANGED <<catvars, reloadvars, front, tabs, othervars>>

\* reorder: the path of the fallback, unless it was closed meanwhile
GetFront(c) ==
    /\ CallAt(c, "front")
    /\ Becomes(c, [call[c] EXCEPT !.succ = IF call[c].succ \in Served THEN call[c].succ ELSE 0,
                                  !.pc = "paths"])
    /\ UNCHANGED <<catvars, reloadvars, pref, front, tabs, othervars>>

\* the path of one id after the other, dropping those that are gone
GetPath(c) ==
    /\ CallAt(c, "paths")
    /\ IF call[c].todo = <<>>
       THEN GoesTo(c, IF call[c].succ = 0 THEN "arrange" ELSE "write")
       ELSE LET p == Head(call[c].todo)
                got == call[c].desired
            IN  Becomes(c, [call[c] EXCEPT !.desired = IF p \in Served THEN Append(got, p) ELSE got,
                                           !.todo = Tail(call[c].todo)])
    /\ UNCHANGED <<catvars, reloadvars, pref, front, tabs, othervars>>

Arrange(c) ==
    /\ CallAt(c, "arrange")
    /\ Reconcile(Reordered(lists, call[c].desired))
    /\ tabs' = Arranged(tabs, call[c].desired)
    /\ GoesTo(c, Persists)
    /\ UNCHANGED <<reloadvars, pref, front, othervars>>

---------------------------------------------------------------------------
(* persist_workspace: load, read the catalog, save; no lock around them. *)

LoadFile(c) ==
    /\ CallAt(c, "load")
    /\ Becomes(c, [NoCall EXCEPT !.op = "persist", !.pc = "mirror", !.active = file.active])
    /\ UNCHANGED <<catvars, reloadvars, pref, front, tabs, othervars>>

Mirror(c) ==
    /\ CallAt(c, "mirror")
    /\ Becomes(c, [call[c] EXCEPT !.pc = "save", !.repos = Paths,
                                  !.active = IF call[c].active \in Served THEN call[c].active
                                             ELSE IF entries = <<>> THEN 0 ELSE Paths[1]])
    /\ UNCHANGED <<catvars, reloadvars, pref, front, tabs, othervars>>

SaveFile(c) ==
    /\ CallAt(c, "save")
    /\ file' = [repos |-> call[c].repos, active |-> call[c].active]
    /\ Ends(c)
    /\ UNCHANGED <<catvars, reloadvars, pref, front, tabs, scScript>>

---------------------------------------------------------------------------
(* reload_config_at *)

\* somebody edits the config file
EditConfig ==
    /\ "reload" \in scScript.ops /\ config < 3
    /\ config' = config + 1
    /\ UNCHANGED <<catvars, tables, reloading, missed, pref, call, front, tabs, othervars>>

\* reload_lock, then the file is read and validated; an unreadable one is refused
LockAndRead(c) ==
    /\ CallAt(c, "lock") /\ reloading = 0
    /\ \/ /\ reloading' = c
          /\ Becomes(c, [call[c] EXCEPT !.pc = "swap", !.version = config])
       \/ /\ Ends(c) /\ UNCHANGED reloading
    /\ UNCHANGED <<catvars, tables, config, missed, pref, front, tabs, othervars>>

\* set_config_tables: the swap and the entries to tell, under the transaction
SetConfigTables(c) ==
    /\ CallAt(c, "swap")
    /\ tables' = call[c].version
    /\ Becomes(c, [call[c] EXCEPT !.pc = "tell", !.hubs = [i \in DOMAIN entries |-> entries[i].hub]])
    /\ UNCHANGED <<catvars, config, reloading, missed, pref, front, tabs, othervars>>

\* a hub takes the request into its queue, or is counted as unreachable
TellHub(c) ==
    /\ CallAt(c, "tell") /\ call[c].hubs # <<>>
    /\ LET hub == Head(call[c].hubs)
       IN  \/ /\ plug' = [plug EXCEPT ![hub] = call[c].version]
              /\ missed' = missed \ {hub}
           \/ /\ missed' = missed \cup {hub}
              /\ UNCHANGED plug
    /\ Becomes(c, [call[c] EXCEPT !.hubs = Tail(call[c].hubs)])
    /\ UNCHANGED <<lists, entries, tables, config, reloading, pref, front, tabs, othervars>>

ReportReload(c) ==
    /\ CallAt(c, "tell") /\ call[c].hubs = <<>>
    /\ reloading' = 0
    /\ Ends(c)
    /\ UNCHANGED <<catvars, tables, config, missed, pref, front, tabs, othervars>>

---------------------------------------------------------------------------
SCInit ==
    /\ scScript \in SCScripts
    /\ lists = [base |-> Within(SCBase, SCPaths), added |-> <<>>, hidden |-> {}, order |-> <<>>]
    /\ tabs = UnionPaths(lists)
    /\ entries = [i \in DOMAIN tabs |-> [path |-> tabs[i], hub |-> i]]
    /\ plug = [i \in DOMAIN tabs |-> 1]
    /\ tables = 1 /\ config = 1
    /\ pref \in SCPrefs
    /\ file = [repos |-> tabs, active |-> IF tabs = <<>> THEN 0 ELSE tabs[1]]
    /\ call = [c \in Callers |-> NoCall]
    /\ reloading = 0 /\ missed = {}
    /\ front = [tab |-> ActiveRepo, twice |-> FALSE]

CallStep(c) ==
    \/ Ask(c) \/ GetEntry(c) \/ AddPath(c) \/ GetAdded(c) \/ SetActiveRepo(c) \/ ReturnCall(c)
    \/ ReadFocus(c) \/ ResolveFocus(c) \/ FirstServed(c) \/ Successor(c) \/ CloseEntry(c) \/ CheckServed(c)
    \/ WriteFocus(c) \/ GetFront(c) \/ GetPath(c) \/ Arrange(c)
    \/ LoadFile(c) \/ Mirror(c) \/ SaveFile(c)
    \/ LockAndRead(c) \/ SetConfigTables(c) \/ TellHub(c) \/ ReportReload(c)

SCNext == EditConfig \/ \E c \in Callers : CallStep(c)

SCSpec == SCInit /\ [][SCNext]_scvars

---------------------------------------------------------------------------
(* Properties. *)

\* The four lists show people one strip of tabs: an open puts its tab at the
\* end wherever it stood before it was closed, a close takes out its own tab
\* only, a reorder loses none (membership.rs).
TabsKept == Paths = tabs /\ UnionPaths(lists) = tabs

\* The tab people put in front stays in front until it is closed itself: no
\* close, reorder or open of another caller, at whichever of its steps, moves
\* the focus away from it (operations.rs close_repo, reorder_repos), unless it
\* is the path such a call had already read as the one in front.
FrontKept == front.tab \in Served /\ ~front.twice => ActiveRepo = front.tab

\* "Guarantees *the close* does not overwrite a focus made meanwhile"
\* (operations.rs close_repo): the same without the exception.
FocusSurvives == front.tab \in Served => ActiveRepo = front.tab

\* Outside a reload every open repository runs the plugins of the tables the
\* next one will be given, or was counted as too busy to be told; a repository
\* opened in the same beat never falls between (reload.rs, config_tables.rs).
ReloadReaches ==
    reloading = 0 =>
        \A i \in DOMAIN entries : plug[entries[i].hub] = tables \/ entries[i].hub \in missed

\* What a session promises of the repositories it serves.
CatalogRight == TabsKept /\ FrontKept /\ ReloadReaches

\* The workspace file holds the repositories served whenever nobody is
\* changing them (operations.rs persist_workspace).
FileMirrors ==
    scScript.persist /\ (\A c \in Callers : call[c] = NoCall) => ToSet(file.repos) = Served
=============================================================================
