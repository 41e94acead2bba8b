----------------------------- MODULE LoginTokens -----------------------------
(***************************************************************************)
(* The session tokens of the web server (src/web/common/sessions.rs,       *)
(* sessions_file.rs): logins, logouts and checks of tokens by threads that *)
(* each change the list under its lock and then write it to the file under *)
(* another, writes that fail, and the server stopped at any moment and     *)
(* started again, perhaps with another lifetime.                           *)
(***************************************************************************)
EXTENDS Integers, Sequences, FiniteSets, SequencesExt

CONSTANTS LoginThreads,  \* the threads serving requests
          Lifetimes,     \* lifetimes the operator may configure; Never: no expiry
          Never,         \* larger than every time that is reached
          MaxSessions,   \* MAX_SESSIONS
          MaxLogins, MaxClock, MaxStarts   \* bounds of the run

ASSUME LoginAssumption ==
    /\ Lifetimes \subseteq Nat \ {0} /\ Never \in Nat
    /\ \A l \in Lifetimes : l + MaxClock < Never \/ l = Never
    /\ {MaxSessions, MaxLogins, MaxClock, MaxStarts} \subseteq Nat
    /\ 0 \notin LoginThreads

VARIABLES tokens,   \* the logins in memory, oldest first: [value, expiry]
          disk,     \* the logins in the file
          ttl, loginClock, minted, starts,
          lgThread, \* thread -> where it is in a request
          lgWriter, \* the thread holding the write lock, 0 when none
          dead,     \* ghost: tokens removed by a request whose write was done
          due       \* ghost: token -> the earliest deadline a policy set for it

lgvars == <<tokens, disk, ttl, loginClock, minted, starts, lgThread, lgWriter, dead, due>>

Resting == [pc |-> "idle", gone |-> {}]
Values(list) == {list[i].value : i \in DOMAIN list}

---------------------------------------------------------------------------
(* sessions_file.rs *)

\* the entries of a list at the places S, in the order R of those places
Ranked(list, S, R) ==
    LET rank(i) == Cardinality({j \in S : <<j, i>> \in R})
    IN  [n \in 1 .. Cardinality(S) |-> list[CHOOSE i \in S : rank(i) = n]]

AsListed(list) == {p \in (DOMAIN list) \X (DOMAIN list) : p[1] =< p[2]}

\* retain
Retain(list, S) == Ranked(list, S, AsListed(list))

Sweep(list) == Retain(list, {i \in DOMAIN list : list[i].expiry > loginClock})

\* trim: the expired first, then the oldest beyond the cap
Trim(list) ==
    LET alive == Sweep(list)
    IN  SubSeq(alive, (IF Len(alive) > MaxSessions THEN Len(alive) - MaxSessions ELSE 0) + 1,
               Len(alive))

Deadline(lifetime) == IF lifetime = Never THEN Never ELSE loginClock + lifetime

\* clamp: only ever lowered
Clamp(list, lifetime) ==
    [i \in DOMAIN list |->
        [list[i] EXCEPT !.expiry = IF @ > Deadline(lifetime) THEN Deadline(lifetime) ELSE @]]

\* normalize: in the order of expiry, tokens that share one as the file had them
ByExpiry(list) ==
    {p \in (DOMAIN list) \X (DOMAIN list) :
        \/ list[p[1]].expiry < list[p[2]].expiry
        \/ list[p[1]].expiry = list[p[2]].expiry /\ p[1] =< p[2]}

Normalize(list) == Ranked(list, DOMAIN list, ByExpiry(list))

---------------------------------------------------------------------------
(* Requests: the list is changed under its lock, the file written after it. *)

Issue(t) ==
    /\ lgThread[t].pc = "idle" /\ minted < MaxLogins
    /\ minted' = minted + 1
    /\ LET list == Append(tokens, [value |-> minted', expiry |-> Deadline(ttl)])
       IN  /\ tokens' = Trim(list)
           /\ lgThread' = [lgThread EXCEPT ![t] = [pc |-> "lock",
                                                   gone |-> Values(list) \ Values(Trim(list))]]
    /\ due' = [due EXCEPT ![minted'] = Deadline(ttl)]
    /\ UNCHANGED <<disk, ttl, loginClock, starts, lgWriter, dead>>

\* revoke: nothing is written for a token that is not held
Revoke(t, v) ==
    /\ lgThread[t].pc = "idle" /\ v \in Values(tokens)
    /\ tokens' = Retain(tokens, {i \in DOMAIN tokens : tokens[i].value # v})
    /\ lgThread' = [lgThread EXCEPT ![t] = [pc |-> "lock", gone |-> {v}]]
    /\ UNCHANGED <<disk, ttl, loginClock, minted, starts, lgWriter, dead, due>>

\* is_valid of a token that has expired: the write forgets it
CheckExpired(t, v) ==
    /\ lgThread[t].pc = "idle"
    /\ \E i \in DOMAIN tokens : tokens[i].value = v /\ tokens[i].expiry =< loginClock
    /\ lgThread' = [lgThread EXCEPT ![t] = [pc |-> "lock", gone |-> {v}]]
    /\ UNCHANGED <<tokens, disk, ttl, loginClock, minted, starts, lgWriter, dead, due>>

\* Mutant: the snapshot is taken without the write lock.
SnapshotsUnlocked(t) ==
    /\ lgThread[t].pc = "lock"
    /\ lgThread' = [lgThread EXCEPT ![t].pc = "snapshot"]
    /\ UNCHANGED <<tokens, disk, ttl, loginClock, minted, starts, lgWriter, dead, due>>
\* persist: the write lock is held from the snapshot to the end of the write
WriteLock(t) ==
    /\ lgThread[t].pc = "lock" /\ lgWriter = 0
    /\ lgWriter' = t
    /\ lgThread' = [lgThread EXCEPT ![t].pc = "snapshot"]
    /\ UNCHANGED <<tokens, disk, ttl, loginClock, minted, starts, dead, due>>

Snapshot(t) ==
    /\ lgThread[t].pc = "snapshot"
    /\ tokens' = Sweep(tokens)
    /\ lgThread' = [lgThread EXCEPT ![t] = [pc |-> "write", gone |-> @.gone, data |-> tokens']]
    /\ UNCHANGED <<disk, ttl, loginClock, minted, starts, lgWriter, dead, due>>

\* write_atomic: a rename, so all of it or, when it fails, none
WriteFile(t) ==
    /\ lgThread[t].pc = "write"
    /\ \/ /\ disk' = lgThread[t].data
          /\ dead' = dead \cup lgThread[t].gone
       \/ UNCHANGED <<disk, dead>>
    /\ lgWriter' = IF lgWriter = t THEN 0 ELSE lgWriter
    /\ lgThread' = [lgThread EXCEPT ![t] = Resting]
    /\ UNCHANGED <<tokens, ttl, loginClock, minted, starts, due>>

Tick ==
    /\ loginClock < MaxClock
    /\ loginClock' = loginClock + 1
    /\ UNCHANGED <<tokens, disk, ttl, minted, starts, lgThread, lgWriter, dead, due>>

\* the server stops at any moment and is started with the lifetime configured
\* then; what loading removed or shortened is written down, if the write works
Restart(lifetime) ==
    /\ starts < MaxStarts
    /\ starts' = starts + 1
    /\ ttl' = lifetime
    /\ tokens' = Trim(Clamp(Normalize(disk), lifetime))
    /\ \/ disk' = tokens'
          /\ due' = [v \in DOMAIN due |->
                       IF v \in Values(tokens') /\ due[v] > Deadline(lifetime)
                       THEN Deadline(lifetime) ELSE due[v]]
       \/ tokens' # disk /\ UNCHANGED <<disk, due>>
    /\ lgThread' = [t \in LoginThreads |-> Resting]
    /\ lgWriter' = 0
    /\ UNCHANGED <<loginClock, minted, dead>>

LGInit ==
    /\ tokens = <<>> /\ disk = <<>> /\ ttl \in Lifetimes /\ loginClock = 0
    /\ minted = 0 /\ starts = 0
    /\ lgThread = [t \in LoginThreads |-> Resting] /\ lgWriter = 0
    /\ dead = {} /\ due = [v \in 1 .. MaxLogins |-> Never]

LGNext ==
    \/ Tick \/ \E lifetime \in Lifetimes : Restart(lifetime)
    \/ \E t \in LoginThreads :
         \/ Issue(t) \/ WriteLock(t) \/ Snapshot(t) \/ WriteFile(t)
         \/ \E v \in 1 .. MaxLogins : Revoke(t, v) \/ CheckExpired(t, v)

LGSpec == LGInit /\ [][LGNext]_lgvars

---------------------------------------------------------------------------
(* Properties. *)

\* A token a logout, an eviction or an expiry removed, once that request's
\* write was done, is never again in the file nor in memory, whatever writes
\* were under way and however often the server is started (sessions.rs persist).
NothingReturns == dead \cap (Values(disk) \cup Values(tokens)) = {}

\* No login outlives a lifetime that was once in force and written down: a
\* restart never grants a fresh one (sessions.rs load, sessions_file.rs clamp).
PolicyHolds ==
    /\ \A i \in DOMAIN tokens : tokens[i].expiry =< due[tokens[i].value]
    /\ Len(tokens) =< MaxSessions /\ Len(disk) =< MaxSessions

\* What ends a login ends it for good, and no restart prolongs one.
TokensRight == NothingReturns /\ PolicyHolds
=============================================================================
