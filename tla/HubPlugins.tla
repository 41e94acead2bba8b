----------------------------- MODULE HubPlugins -----------------------------
(***************************************************************************)
(* The plugin side of a hub's worker: which plugin watches which pane, the *)
(* holds that keep an exited pane's slot open for a relaunch, the guard    *)
(* every plugin command passes, and the reload of the plugin table         *)
(* (hub_plugins*.rs, hub_events.rs, hub_relaunch.rs, hub_recovery.rs,      *)
(* hub_reload*.rs, plugin/guard*.rs). Everything here is local to the      *)
(* worker thread, so one handler is one step; what is concurrent is the    *)
(* order in which people, processes, plugins and the clock reach it.       *)
(*                                                                         *)
(* A plugin may ask for anything at any moment with any generation it has  *)
(* been told, so its command queue is left out. Time is kept as what is    *)
(* left of each wait. The backend's processes and the hub's pane list gain *)
(* and lose a pane in the same step, so one list stands for both.          *)
(***************************************************************************)
EXTENDS Integers, Sequences, SequencesExt, FiniteSets

CONSTANTS
    Names,           \* configured plugin names
    NoName,
    OptedIn,         \* plugins some startup command of this hub names
    NoSpec,
    Specs,           \* what a child is launched from: command, args and env
    Tables,          \* bound: the plugin tables there may be
    MaxPaneIds,      \* bound: panes ever spawned
    MaxOpened,       \* bound: ids past this one are for second relaunches only
    Cap,             \* terminal cap
    TTL,             \* PENDING_RELAUNCH_TTL
    Window,          \* DEFAULT_RATE_WINDOW
    MaxSends,        \* DEFAULT_MAX_SENDS
    MaxRelaunches,   \* DEFAULT_MAX_RELAUNCHES
    MinIdle          \* PANE_IDLE_THRESHOLD

ASSUME NameAssumption == NoName \notin Names /\ OptedIn \subseteq Names
ASSUME LimitAssumption ==
    /\ MaxPaneIds \in Nat /\ Cap \in Nat
    /\ TTL \in Nat \ {0} /\ Window \in Nat \ {0}
    /\ MaxSends \in Nat /\ MaxRelaunches \in Nat /\ MinIdle \in Nat

PaneIds == 1 .. MaxPaneIds
\* A token is named after the first pane that carried it; 0 is no slot.
NoSlot == [token |-> 0, generation |-> 0, command |-> FALSE]
NoHold == [index |-> 0, left |-> 0]

VARIABLES
    next_id,
    slots,           \* PtyBackend.slots
    panes,           \* live panes, in the clients' order
    owners,
    intended,
    hosts,           \* names with a live host
    launched,        \* what each host was launched from
    watch_on_signal,
    pending,         \* holds: where the pane sat, and what is left of its TTL
    recovery,        \* panes with a standing report, Shared.recovery
    sends,           \* the guard's budgets, per token: what is left of the
    relaunches,      \*   window for each approved action
    idle,            \* how long each pane has been quiet, up to MinIdle
    idle_announced,
    told,            \* panes the child that watches them was sent PaneOpened for
    spawned          \* history: relaunches a token got since a person acted

backend == <<next_id, slots, panes, idle>>
watching == <<owners, intended, hosts, launched, watch_on_signal>>
budgets == <<sends, relaunches, spawned>>
events == <<idle_announced, told>>
vars == <<backend, watching, pending, recovery, budgets, events>>

Slot == [token : PaneIds, generation : 0 .. MaxPaneIds, command : BOOLEAN]
Stamped(f, max) ==
    \A t \in PaneIds : f[t] \in Seq(1 .. Window) /\ Len(f[t]) <= max

\* The types of the worker's variables.
TypeOK ==
    /\ next_id \in 1 .. MaxPaneIds + 1
    /\ slots \in [PaneIds -> Slot \cup {NoSlot}]
    /\ panes \in Seq(PaneIds) /\ Len(panes) <= Cap
    /\ owners \in [PaneIds -> Names \cup {NoName}]
    /\ intended \in [PaneIds -> Names \cup {NoName}]
    /\ hosts \in SUBSET Names
    /\ launched \in [Names -> Specs \cup {NoSpec}]
    /\ watch_on_signal \in SUBSET Names
    /\ pending \in [PaneIds -> [index : 1 .. Cap, left : 0 .. TTL] \cup {NoHold}]
    /\ recovery \in SUBSET PaneIds
    /\ Stamped(sends, MaxSends)
    /\ Stamped(relaunches, MaxRelaunches)
    /\ Stamped(spawned, MaxPaneIds)
    /\ idle \in [PaneIds -> 0 .. MinIdle]
    /\ idle_announced \in SUBSET PaneIds
    /\ told \in SUBSET PaneIds

Live == ToSet(panes)
Held == {p \in PaneIds : pending[p] # NoHold}
HasSlot(p) == slots[p] # NoSlot
PanesOf(n) == {p \in PaneIds : owners[p] = n}

----------------------------------------------------------------------------
(* Pieces the handlers share *)

\* The guard's Budgets::clear, for the tokens of some panes' slots: a pane
\* whose slot is already gone has no token to clear.
Cancel(ps) ==
    LET void == {slots[p].token : p \in ps}
        Cleared(f) == [t \in PaneIds |-> IF t \in void THEN <<>> ELSE f[t]]
    IN  /\ sends' = Cleared(sends)
        /\ relaunches' = Cleared(relaunches)
        /\ spawned' = Cleared(spawned)

\* forget and release_pane, for the panes in ps; forget drops the opt-in too.
Release(ps) ==
    /\ owners' = [p \in PaneIds |-> IF p \in ps THEN NoName ELSE owners[p]]
    /\ pending' = [p \in PaneIds |-> IF p \in ps THEN NoHold ELSE pending[p]]
    /\ idle_announced' = idle_announced \ ps
    /\ told' = told \ ps
    /\ Cancel(ps)
Forget(p) ==
    /\ Release({p})
    /\ intended' = [intended EXCEPT ![p] = NoName]

\* retire_slot, and the slot's half of destroy_pane
Retire(ps) == slots' = [p \in PaneIds |-> IF p \in ps THEN NoSlot ELSE slots[p]]

\* Mutant: only a held pane's report is ended.
EndsHeldOnly(ps) == recovery' = recovery \ (ps \cap Held)
\* end_recovery and end_recovery_if_reported
EndRecovery(ps) == recovery' = recovery \ ps

\* A pane is in the order once.
PlaceOf(p) == CHOOSE i \in 1 .. Len(panes) : panes[i] = p
Without(p) == RemoveAt(panes, PlaceOf(p))

\* spawn_pane followed by register_pane, at the end of the order
SpawnPane ==
    /\ next_id <= MaxPaneIds
    /\ next_id' = next_id + 1
    /\ idle' = [idle EXCEPT ![next_id] = 0]

----------------------------------------------------------------------------
(* Panes opened, used and closed by people *)

\* Command::Create and a pane of a startup batch: `named` is what its
\* configuration names, NoName for a pane a client opened. adopt records the
\* opt-in whatever happens, and grants the pane only to a live host.
OpenPane(named, command) ==
    LET p == next_id
        adopted == named \in hosts
    IN
    /\ Len(panes) < Cap /\ next_id <= MaxOpened
    /\ named \in OptedIn \cup {NoName}
    /\ SpawnPane
    /\ slots' = [slots EXCEPT ![p] = [token |-> p, generation |-> 0, command |-> command]]
    /\ panes' = Append(panes, p)
    /\ intended' = [intended EXCEPT ![p] = named]
    /\ owners' = [owners EXCEPT ![p] = IF adopted THEN named ELSE NoName]
    /\ told' = IF adopted THEN told \cup {p} ELSE told
    /\ UNCHANGED <<hosts, launched, watch_on_signal, pending, recovery, budgets,
                   idle_announced>>

\* A queued close: a watched pane's slot is retired before its process goes.
ClosePane(p) ==
    /\ p \in Live
    /\ IF owners[p] # NoName
       THEN Forget(p)
       ELSE UNCHANGED <<owners, intended, pending, events, budgets>>
    /\ Retire({p})
    /\ EndRecovery({p})
    /\ panes' = Without(p)
    /\ idle' = [idle EXCEPT ![p] = 0]
    /\ UNCHANGED <<next_id, hosts, launched, watch_on_signal>>

\* Command::Input: user_input voids what the plugin had spent on the pane.
UserInput(p) ==
    /\ p \in Live
    /\ owners[p] # NoName
    /\ Cancel({p})
    /\ UNCHANGED <<backend, watching, pending, recovery, events>>

\* cancel_recovery: the hold is the recovery, and without one nothing happens.
CancelRecovery(p) ==
    /\ p \in Held
    /\ Forget(p)
    /\ Retire({p})
    /\ EndRecovery({p})
    /\ UNCHANGED <<next_id, panes, idle, hosts, launched, watch_on_signal>>

----------------------------------------------------------------------------
(* What the processes and the clock do *)

\* pane_output: fresh bytes end the quiet period.
PaneOutput(p) ==
    /\ p \in Live
    /\ idle' = [idle EXCEPT ![p] = 0]
    /\ IF owners[p] # NoName
       THEN idle_announced' = idle_announced \ {p}
       ELSE UNCHANGED idle_announced
    /\ UNCHANGED <<next_id, slots, panes, watching, pending, recovery, budgets, told>>

\* Mutant: a pane nobody watches is held as well.
HoldsUnwatched(p) == slots[p].command
\* A plugin watches it, and is_relaunchable: the host launched a command in it.
Holdable(p) == owners[p] # NoName /\ slots[p].command

\* hold_for_relaunch
HoldForRelaunch(p) ==
    /\ pending' = [pending EXCEPT
            ![p] = [index |-> PlaceOf(p), left |-> TTL]]
    /\ idle_announced' = idle_announced \ {p}

\* pane_exited: a watched pane that could be relaunched keeps its slot and is
\* held, with its report; every other one is destroyed and its report ended.
PaneExited(p) ==
    /\ p \in Live
    /\ panes' = Without(p)
    /\ IF Holdable(p)
       THEN /\ HoldForRelaunch(p)
            /\ UNCHANGED <<slots, owners, intended, budgets, recovery, told>>
       ELSE /\ Retire({p})
            /\ EndRecovery({p})
            /\ IF owners[p] # NoName
               THEN Forget(p)
               ELSE UNCHANGED <<owners, intended, pending, events, budgets>>
    /\ idle' = [idle EXCEPT ![p] = 0]
    /\ UNCHANGED <<next_id, hosts, launched, watch_on_signal>>

\* notify_idle, in every pass that finds a host: once per quiet period.
NotifyIdle ==
    LET due == {p \in Live \ idle_announced : owners[p] # NoName /\ idle[p] >= MinIdle}
    IN
    /\ hosts # {} /\ due # {}
    /\ idle_announced' = idle_announced \cup due
    /\ UNCHANGED <<backend, watching, pending, recovery, budgets, told>>

\* expire_pending, in every pass that finds a host, and end_recovery for what
\* it retired.
ExpirePending ==
    LET expired == {p \in Held : pending[p].left = 0}
    IN
    /\ hosts # {} /\ expired # {}
    /\ Release(expired)
    /\ intended' = [p \in PaneIds |-> IF p \in expired THEN NoName ELSE intended[p]]
    /\ Retire(expired)
    /\ EndRecovery(expired)
    /\ UNCHANGED <<next_id, panes, idle, hosts, launched, watch_on_signal>>

\* The retain of try_spend, for a moment: stamps are pushed in order, so the
\* ones past the window come first.
PastWindow(s) == CHOOSE n \in 0 .. Len(s) : \A i \in 1 .. Len(s) : i <= n <=> s[i] = 1
Aged(s) == [i \in 1 .. Len(s) - PastWindow(s) |-> s[i + PastWindow(s)] - 1]

\* A moment passes: holds and windows run down, quiet panes grow quieter.
\* No hold is past its deadline when the worker's next pass reaches it.
Tick ==
    /\ \A p \in Held : pending[p].left > 0
    /\ pending' = [p \in PaneIds |-> IF p \in Held THEN [pending[p] EXCEPT !.left = @ - 1]
                                     ELSE NoHold]
    /\ sends' = [t \in PaneIds |-> Aged(sends[t])]
    /\ relaunches' = [t \in PaneIds |-> Aged(relaunches[t])]
    /\ spawned' = [t \in PaneIds |-> Aged(spawned[t])]
    /\ idle' = [p \in PaneIds |-> IF p \in Live /\ idle[p] < MinIdle THEN idle[p] + 1
                                  ELSE idle[p]]
    /\ UNCHANGED <<next_id, slots, panes, watching, recovery, events>>

----------------------------------------------------------------------------
(* The guard and what a plugin may do through it *)

\* Rules 2 to 4 of the guard: the token resolves to a slot, this plugin has
\* the pane, and the command was meant for the spawn that is there now.
PaneFacts(n, p, generation) ==
    /\ HasSlot(p)
    /\ owners[p] = n
    /\ slots[p].generation = generation

\* try_spend; stamps past the window have been pruned by Tick.
Unspent(stamps, max) == Len(stamps) < max

\* SendInput: into a live, quiet pane, within the budget.
SendInput(n, p, generation) ==
    LET t == slots[p].token IN
    /\ n \in hosts /\ PaneFacts(n, p, generation)
    /\ p \in Live /\ idle[p] >= MinIdle
    /\ Unspent(sends[t], MaxSends)
    /\ sends' = [sends EXCEPT ![t] = Append(@, Window)]
    /\ UNCHANGED <<backend, watching, pending, recovery, relaunches, spawned, events>>

\* Status: the cache a later client is replayed from; `cancelled` ends it.
Status(n, p, generation, cancelled) ==
    /\ n \in hosts /\ PaneFacts(n, p, generation)
    /\ recovery' = IF cancelled THEN recovery \ {p} ELSE recovery \cup {p}
    /\ UNCHANGED <<backend, watching, pending, budgets, events>>

\* judge_watch and watch_pane_for_plugin: a live pane no other plugin has.
WatchPane(n, p) ==
    /\ n \in hosts /\ n \in watch_on_signal
    /\ p \in Live
    /\ owners[p] \in {n, NoName}
    /\ intended' = [intended EXCEPT ![p] = n]
    /\ owners' = [owners EXCEPT ![p] = n]
    /\ told' = told \cup {p}
    /\ UNCHANGED <<backend, hosts, launched, watch_on_signal, pending, recovery,
                   budgets, idle_announced>>

\* Mutant: the budget is kept by pane id, which a relaunch changes.
JudgesByPane(n, p, generation) ==
    /\ n \in hosts /\ PaneFacts(n, p, generation)
    /\ p \notin Live /\ slots[p].command
    /\ Unspent(relaunches[p], MaxRelaunches)
    /\ relaunches' = [relaunches EXCEPT ![p] = Append(@, Window)]
    /\ UNCHANGED sends
\* judge_relaunch: an exited pane that had a command, within the budget, which
\* the approval spends. Arguments the operator did not allow are refused.
JudgeRelaunch(n, p, generation) ==
    LET t == slots[p].token IN
    /\ n \in hosts /\ PaneFacts(n, p, generation)
    /\ p \notin Live /\ slots[p].command
    /\ Unspent(relaunches[t], MaxRelaunches)
    /\ relaunches' = [relaunches EXCEPT ![t] = Append(@, Window)]
    /\ UNCHANGED sends

\* take_over: the spent budget stays with the token; the opt-in stays behind.
TakeOver(p, q) == owners' = [owners EXCEPT ![p] = NoName, ![q] = owners[p]]

\* restore_pane_index, clamped to the panes there are
PutBack(q, index) ==
    InsertAt(panes, IF index <= Len(panes) THEN index ELSE Len(panes) + 1, q)

\* relaunch_for_plugin, when the process came up
Relaunch(n, p, generation) ==
    LET q == next_id
        slot == [slots[p] EXCEPT !.generation = @ + 1]
    IN
    /\ p \in Held
    /\ JudgeRelaunch(n, p, generation)
    /\ Len(panes) < Cap /\ (next_id <= MaxOpened \/ slots[p].generation > 0)
    /\ SpawnPane
    /\ slots' = [slots EXCEPT ![p] = NoSlot, ![q] = slot]
    /\ panes' = PutBack(q, pending[p].index)
    /\ pending' = [pending EXCEPT ![p] = NoHold]
    /\ TakeOver(p, q)
    /\ told' = (told \ {p}) \cup {q}
    /\ spawned' = [spawned EXCEPT ![slot.token] = Append(@, Window)]
    /\ idle_announced' = idle_announced \ {p}
    /\ EndRecovery({p})
    /\ UNCHANGED <<intended, hosts, launched, watch_on_signal>>

\* relaunch_for_plugin when no slot is free, reservations included, or when
\* the spawn fails: the hold goes back as it was, but relaunch_pane has let
\* the slot go before it spawns.
RelaunchFails(n, p, generation, spawning) ==
    /\ p \in Held
    /\ JudgeRelaunch(n, p, generation)
    /\ spawning => Len(panes) < Cap
    /\ IF spawning THEN Retire({p}) ELSE UNCHANGED slots
    /\ UNCHANGED <<next_id, panes, idle, watching, pending, recovery, spawned, events>>

----------------------------------------------------------------------------
(* Re-applying the plugin table *)

\* A plugin the table disables, or does not name, is Off.
Off == [enabled |-> FALSE, watch |-> FALSE, spec |-> NoSpec]
Config == [enabled : {TRUE}, watch : BOOLEAN, spec : Specs] \cup {Off}
ASSUME TableAssumption == Tables \subseteq [Names -> Config]

\* is_wanted: an enabled plugin that was opted into, that may be signalled, or
\* that is watching a pane.
Wanted(cfg) ==
    {n \in Names : /\ cfg[n].enabled
                   /\ n \in OptedIn \/ cfg[n].watch \/ PanesOf(n) # {}}

\* The hosts whose child is what the new table asks for.
Kept(cfg) == {n \in hosts \cap Wanted(cfg) : launched[n] = cfg[n].spec}

\* retire_holds_of: every hold of a host that is stopped, replaced or not.
\* Mutant: only a replaced plugin's holds are retired, the others released.
ReplacedHolds(cfg) == {p \in Held : owners[p] \in (hosts \cap Wanted(cfg)) \ Kept(cfg)}
RetiredBy(cfg) == {p \in Held : owners[p] \in hosts \ Kept(cfg)}

\* abandon: what was dropped for good and what failed to come up again.
Abandoned(cfg, failed) == (hosts \ Wanted(cfg)) \cup (failed \ Kept(cfg))

\* Mutant: panes that are still owned are not announced to the new child.
UnownedOnly(cfg, failed) ==
    {p \in Live : /\ owners[p] = NoName
                  /\ intended[p] \in Wanted(cfg) \ (Kept(cfg) \cup failed)}
\* start_host: the live panes that opted into a plugin that came up.
HandedOver(cfg, failed) ==
    {p \in Live : intended[p] \in Wanted(cfg) \ (Kept(cfg) \cup failed)}

\* reload_hub_plugins; `failed` are the wanted children that do not launch.
ReloadPlugins(cfg, failed) ==
    LET up == Wanted(cfg) \ failed
        retired == RetiredBy(cfg)
        released == {p \in PaneIds \ retired : owners[p] \in Abandoned(cfg, failed)}
        handed == HandedOver(cfg, failed)
        loose == retired \cup released
    IN
    /\ failed \subseteq Wanted(cfg) \ Kept(cfg)
    /\ hosts' = up
    /\ launched' = [n \in Names |-> IF n \in up THEN cfg[n].spec ELSE NoSpec]
    /\ watch_on_signal' = (watch_on_signal \ (Abandoned(cfg, failed) \cup up))
                          \cup {n \in up : cfg[n].watch}
    /\ owners' = [p \in PaneIds |-> IF p \in handed THEN intended[p]
                                    ELSE IF p \in loose THEN NoName ELSE owners[p]]
    /\ pending' = [p \in PaneIds |-> IF p \in loose THEN NoHold ELSE pending[p]]
    /\ Cancel(loose)
    /\ Retire(retired)
    /\ idle_announced' = idle_announced \ loose
    /\ told' = {p \in told : owners[p] \in Kept(cfg)} \cup handed
    /\ EndRecovery(loose)
    /\ UNCHANGED <<next_id, panes, idle, intended>>

----------------------------------------------------------------------------
\* Plugins::start: the first table, and the children of it that launch.
Init ==
    /\ next_id = 1
    /\ slots = [p \in PaneIds |-> NoSlot]
    /\ panes = <<>>
    /\ owners = [p \in PaneIds |-> NoName]
    /\ intended = [p \in PaneIds |-> NoName]
    /\ \E cfg \in Tables :
        \E up \in SUBSET Wanted(cfg) :
            /\ hosts = up
            /\ launched = [n \in Names |-> IF n \in up THEN cfg[n].spec ELSE NoSpec]
            /\ watch_on_signal = {n \in up : cfg[n].watch}
    /\ pending = [p \in PaneIds |-> NoHold]
    /\ recovery = {}
    /\ sends = [t \in PaneIds |-> <<>>]
    /\ relaunches = [t \in PaneIds |-> <<>>]
    /\ spawned = [t \in PaneIds |-> <<>>]
    /\ idle = [p \in PaneIds |-> 0]
    /\ idle_announced = {}
    /\ told = {}

PluginActs ==
    \E n \in Names, p \in PaneIds, generation \in 0 .. MaxPaneIds :
        \/ SendInput(n, p, generation)
        \/ \E cancelled \in BOOLEAN : Status(n, p, generation, cancelled)
        \/ Relaunch(n, p, generation)
        \/ \E spawning \in BOOLEAN : RelaunchFails(n, p, generation, spawning)

Next ==
    \/ \E named \in Names \cup {NoName}, command \in BOOLEAN : OpenPane(named, command)
    \/ \E p \in PaneIds : ClosePane(p)
    \/ \E p \in PaneIds : UserInput(p)
    \/ \E p \in PaneIds : CancelRecovery(p)
    \/ \E p \in PaneIds : PaneOutput(p)
    \/ \E p \in PaneIds : PaneExited(p)
    \/ NotifyIdle
    \/ ExpirePending
    \/ Tick
    \/ PluginActs
    \/ \E n \in Names, p \in PaneIds : WatchPane(n, p)
    \/ \E cfg \in Tables, failed \in SUBSET Names : ReloadPlugins(cfg, failed)

Spec == Init /\ [][Next]_vars

\* The worker passes again by the earliest deadline (hub_deadline.rs), and the
\* clock runs.
FairSpec == Spec /\ WF_vars(Tick) /\ WF_vars(ExpirePending)

----------------------------------------------------------------------------
(* Properties *)

\* A hold belongs to a plugin that is still running. Holds are expired, and
\* relaunched, only in a pass that finds a host, so one left behind by a
\* reload would never end.
HoldsAreWatched ==
    \A p \in Held : owners[p] \in hosts /\ p \notin Live

\* A report stands only on a pane whose plugin is running and still has it, so
\* that something can answer or end it: every way a pane is let go of ends it.
ReportsAnswerable ==
    \A p \in recovery : owners[p] \in hosts /\ p \in Live \cup Held

\* A slot, and with it a token, outlives its process only under a hold:
\* nothing retires it later.
SlotsAccounted ==
    /\ TypeOK
    /\ \A p \in PaneIds : HasSlot(p) => p \in Live \cup Held
    /\ \A p, q \in PaneIds : HasSlot(p) /\ HasSlot(q) /\ slots[p].token = slots[q].token
                                => p = q

\* Without a person typing, cancelling or reloading in between, one terminal
\* is relaunched at most so often in a window, over all the ids, exits and
\* replaced children it goes through.
RelaunchesBounded ==
    \A t \in PaneIds : Len(spawned[t]) <= MaxRelaunches

\* A running plugin was sent PaneOpened for every pane it watches in that
\* pane's first process, also by the child that replaced the one it began
\* with and by a plugin enabled after the pane opened.
FirstSpawnKnown ==
    \A p \in Live : owners[p] \in hosts /\ slots[p].generation = 0
                       => p \in told

\* All five: what the hub keeps about plugins and panes agrees through every
\* exit, relaunch, failed spawn and reload (hub_plugins_slots.rs,
\* hub_reload_hosts.rs).
PluginsRight ==
    HoldsAreWatched /\ ReportsAnswerable /\ SlotsAccounted /\ RelaunchesBounded /\ FirstSpawnKnown

\* As start_host's comment has it, every pane a plugin has was handed to the
\* child that runs now, relaunched ones too.
EveryPaneHandedOver ==
    \A p \in Live : owners[p] \in hosts => p \in told

\* A hold always ends: relaunched, cancelled, dropped by a reload or expired.
HoldsEnd == \A p \in PaneIds : (p \in Held) ~> (p \notin Held)

=============================================================================
