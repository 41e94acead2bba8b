---------------------------- MODULE PluginProofs -----------------------------
(***************************************************************************)
(* The two plugins.  The agents' shared memory for any number of helpers,  *)
(* any limits and any sequence of calls, deaths, timeouts and failed       *)
(* statements; the recovery of a limited agent for any limits on waits and *)
(* attempts, any adapter, and any order of output, deaths, closes, clock   *)
(* jumps and host verdicts.                                                *)
(***************************************************************************)
EXTENDS MemoryStore, Recovery, FiniteSetTheorems, TLAPS

----------------------------------------------------------------------------
(* The inductive invariant *)

InTransaction == {"first", "second", "commit"}
Spots == {"idle", "wal", "switch", "version", "migrate", "run"} \cup InTransaction
Operations == {"none", "search", "recent"} \cup Writes
Row == [id : Nat \ {0}, kind : {"note", "board"}, author : {"agent", "named"}, call : Nat \ {0},
        created : Nat, expires : Int]
File == [wal : BOOLEAN, version : {0, 1}, entries : SUBSET Row, index : SUBSET Nat, last : Nat]
Helper == [at : Spots, store : BOOLEAN, client : {"agent", "named"}, seen : Row \cup {NoNote},
           op : Operations, ok : BOOLEAN, now : Nat, ttl : Int, call : Nat]

MemoryType ==
    /\ db \in File /\ IsFiniteSet(db.entries)
    /\ work \in File
    /\ txHolder \in Helpers \cup {0}
    /\ helper \in [Helpers -> Helper]
    /\ memClock \in Nat /\ memCalls \in Nat
    /\ msScript \in MSScripts
    /\ told \subseteq Row /\ posted \subseteq Row

\* A transaction is where its holder is, and nobody else is in one.
HolderKept ==
    \A h \in Helpers : helper[h].at \in InTransaction <=> txHolder = h

\* Until the journal is switched nobody is past opening the file, and one
\* helper at a time switches it.
JournalKept ==
    /\ \A h \in Helpers : helper[h].at = "switch" => ~db.wal
    /\ \A h, o \in Helpers : helper[h].at = "switch" /\ helper[o].at = "switch" => h = o
    /\ ~db.wal => \A h \in Helpers : ~helper[h].store /\ helper[h].at \in {"idle", "wal", "switch"}

\* What the transaction would commit is what its statements so far make of
\* the committed file: nobody else writes meanwhile.
Erased(h) == {e \in NotesOf(db) : e.id = helper[h].seen.id}
Cleared(h) ==
    [db EXCEPT !.entries = @ \ {e \in PostsOf(db) :
                                   e.author = AuthorLabel(h) \/ e.expires <= helper[h].now}]
NewRow(h, kind, expires) ==
    [id |-> db.last + 1, kind |-> kind, author |-> AuthorLabel(h), call |-> helper[h].call,
     created |-> helper[h].now, expires |-> expires]
WithRow(f, row) == [f EXCEPT !.entries = @ \cup {row}, !.last = row.id]

WritePending(h) ==
    LET row == NewRow(h, "note", 0)
    IN  /\ Cardinality(NotesOf(db)) < MaxNotes
        /\ work = IF helper[h].at = "second" THEN WithRow(db, row)
                  ELSE [WithRow(db, row) EXCEPT !.index = @ \cup {row.id}]
DeletePending(h) ==
    LET left == [db EXCEPT !.entries = @ \ Erased(h)]
    IN  /\ helper[h].at = "second" => Erased(h) # {}
        /\ work = IF helper[h].at = "second" \/ Erased(h) = {} THEN left
                  ELSE [left EXCEPT !.index = @ \ {helper[h].seen.id}]
PostPending(h) ==
    work = IF helper[h].at = "second" THEN Cleared(h)
           ELSE WithRow(Cleared(h), NewRow(h, "board", helper[h].now + helper[h].ttl))

WorkKept ==
    /\ txHolder = 0 => work = db
    /\ \A h \in Helpers :
          /\ txHolder = h => helper[h].op \in Writes
          /\ txHolder = h /\ helper[h].at = "first" => work = db
          /\ txHolder = h /\ helper[h].at # "first" =>
                /\ helper[h].op = "write" => WritePending(h)
                /\ helper[h].op = "delete" => DeletePending(h)
                /\ helper[h].op = "post" => PostPending(h)

\* Every row anybody has ever been shown: no two share a number, and no
\* number is past the last one given.
Shown == db.entries \cup told \cup ({helper[h].seen : h \in Helpers} \ {NoNote})
NumbersKept ==
    /\ \A e \in Shown : e.id <= db.last
    /\ \A e, f \in Shown : e.id = f.id => e = f

\* A call is one row at most, and a call under way has none yet.
CallsKept ==
    /\ \A e \in db.entries : e.call <= memCalls
    /\ \A h \in Helpers :
          helper[h].at # "idle" =>
             /\ helper[h].call \in 1 .. memCalls /\ helper[h].now <= memClock
             /\ \A e \in db.entries : e.call # helper[h].call
             /\ \A o \in Helpers \ {h} : helper[o].at # "idle" => helper[o].call # helper[h].call

\* Notes are told to be saved, posts to be on the board.
KindsKept == (\A e \in told : e.kind = "note") /\ (\A e \in posted : e.kind = "board")

MemoryInv ==
    /\ MemoryType /\ HolderKept /\ JournalKept /\ WorkKept /\ NumbersKept /\ CallsKept /\ KindsKept
    /\ MemoryRight

----------------------------------------------------------------------------
(* A helper changes *)

\* One helper changes, the others stay as they are.
LEMMA BecomesFacts ==
    ASSUME helper \in [Helpers -> Helper], NEW h \in Helpers, NEW new \in Helper,
           HelperBecomes(h, new)
    PROVE  /\ helper' \in [Helpers -> Helper] /\ helper'[h] = new
           /\ \A o \in Helpers : o # h => helper'[o] = helper[o]
BY DEF HelperBecomes

\* A helper that goes on keeps its call.
LEMMA GoesOnFacts ==
    ASSUME helper \in [Helpers -> Helper], NEW h \in Helpers, NEW at \in Spots, GoesOn(h, at)
    PROVE  /\ helper' \in [Helpers -> Helper]
           /\ \A o \in Helpers : o # h => helper'[o] = helper[o]
           /\ helper'[h].at = at
           /\ helper'[h].store = helper[h].store /\ helper'[h].client = helper[h].client
           /\ helper'[h].seen = helper[h].seen /\ helper'[h].op = helper[h].op
           /\ helper'[h].now = helper[h].now /\ helper'[h].ttl = helper[h].ttl
           /\ helper'[h].call = helper[h].call /\ helper'[h].ok = helper[h].ok
<1>1. [helper[h] EXCEPT !.at = at] \in Helper
  BY DEF Helper
<1>2. /\ helper' \in [Helpers -> Helper] /\ helper'[h] = [helper[h] EXCEPT !.at = at]
      /\ \A o \in Helpers : o # h => helper'[o] = helper[o]
  BY <1>1, BecomesFacts DEF GoesOn
<1> QED BY <1>2 DEF Helper

\* A call that is over leaves an idle helper.
LEMMA RepliedFacts ==
    ASSUME helper \in [Helpers -> Helper], NEW h \in Helpers
    PROVE  /\ Replied(h) \in Helper /\ Replied(h).at = "idle"
           /\ Replied(h).seen = helper[h].seen /\ Replied(h).store = helper[h].store
<1> DEFINE r1 == [helper[h] EXCEPT !.at = "idle"]
           r2 == [r1 EXCEPT !.op = "none"]
           r3 == [r2 EXCEPT !.ok = TRUE]
           r4 == [r3 EXCEPT !.now = 0]
           r5 == [r4 EXCEPT !.ttl = 0]
           r6 == [r5 EXCEPT !.call = 0]
           Same(r) == /\ r \in Helper /\ r.at = "idle"
                      /\ r.seen = helper[h].seen /\ r.store = helper[h].store
<1>1. Same(r1)
  BY DEF Helper, Spots
<1> HIDE DEF r1
<1>2. Same(r2)
  BY <1>1 DEF Helper, Operations
<1> HIDE DEF r2
<1>3. Same(r3)
  BY <1>2 DEF Helper
<1> HIDE DEF r3
<1>4. Same(r4)
  BY <1>3 DEF Helper
<1> HIDE DEF r4
<1>5. Same(r5)
  BY <1>4 DEF Helper
<1> HIDE DEF r5
<1>6. Same(r6)
  BY <1>5 DEF Helper
<1>7. Replied(h) = r6
  BY Zenon DEF Replied, r1, r2, r3, r4, r5
<1> HIDE DEF r6
<1> QED BY <1>6, <1>7

\* What a helper has pending depends on it and on the two files.
LEMMA PendingKept ==
    ASSUME NEW o, helper'[o] = helper[o], db' = db, work' = work
    PROVE  /\ WritePending(o) => WritePending(o)'
           /\ DeletePending(o) => DeletePending(o)'
           /\ PostPending(o) => PostPending(o)'
<1>1. NewRow(o, "note", 0)' = NewRow(o, "note", 0) /\ NotesOf(db)' = NotesOf(db)
  BY DEF NewRow, AuthorLabel, NotesOf
<1>2. WritePending(o) => WritePending(o)'
  BY <1>1 DEF WritePending
<1>3. DeletePending(o) => DeletePending(o)'
  BY <1>1 DEF DeletePending, Erased
<1>4. Cleared(o)' = Cleared(o)
  BY DEF Cleared, PostsOf, AuthorLabel
<1>5. PostPending(o) => PostPending(o)'
  BY <1>4 DEF PostPending, NewRow, AuthorLabel
<1> QED BY <1>2, <1>3, <1>5

\* A step that leaves the file, the transaction and what was promised alone.
LEMMA QuietStep ==
    ASSUME MemoryInv, NEW h \in Helpers, NEW new \in Helper, HelperBecomes(h, new),
           UNCHANGED <<db, txHolder, work, memClock, told, doomed, posted, msScript>>,
           memCalls' \in Nat, memCalls' >= memCalls,
           helper[h].at \notin InTransaction, new.at \notin InTransaction,
           new.seen \in Shown \cup {NoNote},
           new.at = "switch" => ~db.wal /\ \A o \in Helpers \ {h} : helper[o].at # "switch",
           ~db.wal => ~new.store /\ new.at \in {"idle", "wal", "switch"},
           new.at # "idle" =>
              /\ new.call \in 1 .. memCalls' /\ new.now <= memClock
              /\ (helper[h].at # "idle" /\ new.call = helper[h].call) \/ new.call > memCalls
    PROVE  MemoryInv'
<1>1. /\ helper' \in [Helpers -> Helper] /\ helper'[h] = new
      /\ \A o \in Helpers : o # h => helper'[o] = helper[o]
  BY BecomesFacts DEF MemoryInv, MemoryType
<1>2. MemoryType'
  BY <1>1 DEF MemoryInv, MemoryType
<1>3. HolderKept' /\ JournalKept'
  BY <1>1 DEF MemoryInv, HolderKept, JournalKept
<1>4. txHolder # h
  BY DEF MemoryInv, HolderKept
<1>5. WorkKept'
  <2> SUFFICES ASSUME NEW o \in Helpers, txHolder = o
               PROVE  /\ helper'[o].op \in Writes
                      /\ helper'[o].at = "first" => work = db
                      /\ helper'[o].at # "first" =>
                            /\ helper'[o].op = "write" => WritePending(o)'
                            /\ helper'[o].op = "delete" => DeletePending(o)'
                            /\ helper'[o].op = "post" => PostPending(o)'
    BY DEF WorkKept, MemoryInv
  <2>1. helper'[o] = helper[o] /\ db' = db /\ work' = work
    BY <1>1, <1>4
  <2> QED BY <2>1, PendingKept DEF MemoryInv, WorkKept
<1>6. NumbersKept'
  BY <1>1 DEF MemoryInv, NumbersKept, Shown
<1>7. CallsKept'
  BY <1>1 DEF MemoryInv, MemoryType, CallsKept, Helper, File, Row
<1>8. KindsKept' /\ MemoryRight'
  BY DEF MemoryInv, KindsKept, MemoryRight
<1> QED BY <1>2, <1>3, <1>5, <1>6, <1>7, <1>8 DEF MemoryInv

----------------------------------------------------------------------------
(* Steps outside the transactions *)

\* A helper's own record, and what it has seen.
LEMMA HelperFacts ==
    ASSUME MemoryInv, NEW h \in Helpers
    PROVE  /\ helper[h] \in Helper /\ helper[h].seen \in Shown \cup {NoNote}
           /\ helper[h].at \in InTransaction => db.wal
BY DEF MemoryInv, MemoryType, JournalKept, Shown, InTransaction

\* "initialize" touches nothing but the name.
LEMMA InitializeStep == ASSUME MemoryInv, NEW h \in Helpers, Initialize(h) PROVE MemoryInv'
<1> DEFINE new == [helper[h] EXCEPT !.client = "named"]
<1>1. helper[h] \in Helper
  BY HelperFacts
<1>2. new \in Helper /\ new.at = helper[h].at /\ new.store = helper[h].store /\ new.seen = helper[h].seen
  BY <1>1 DEF Helper
<1>3. /\ HelperBecomes(h, new) /\ helper[h].at = "idle"
      /\ UNCHANGED <<db, txHolder, work, memClock, memCalls, told, doomed, posted, msScript>>
  BY DEF Initialize, UnchangedRest
<1>4. ~db.wal => ~helper[h].store
  BY DEF MemoryInv, JournalKept
<1>5. memCalls' \in Nat /\ memCalls' >= memCalls
  BY <1>3 DEF MemoryInv, MemoryType
<1> HIDE DEF new
<1> QED BY <1>2, <1>3, <1>4, <1>5, HelperFacts, QuietStep DEF InTransaction

\* A call that starts has a number of its own.
LEMMA CallToolStep == ASSUME MemoryInv, NEW h \in Helpers, CallTool(h) PROVE MemoryInv'
<1>1. PICK op \in msScript.ops, ok \in BOOLEAN, ttl \in Ttls \cup {0} :
        HelperBecomes(h, [helper[h] EXCEPT
              !.at = IF helper[h].store THEN "run" ELSE "wal",
              !.op = op, !.ok = ok, !.now = memClock, !.ttl = ttl, !.call = memCalls + 1])
  BY DEF CallTool
<1> DEFINE at == IF helper[h].store THEN "run" ELSE "wal"
           r1 == [helper[h] EXCEPT !.at = at]
           r2 == [r1 EXCEPT !.op = op]
           r3 == [r2 EXCEPT !.ok = ok]
           r4 == [r3 EXCEPT !.now = memClock]
           r5 == [r4 EXCEPT !.ttl = ttl]
           r6 == [r5 EXCEPT !.call = memCalls + 1]
           Same(r) == /\ r \in Helper /\ r.at = at
                      /\ r.seen = helper[h].seen /\ r.store = helper[h].store
<1>2. HelperBecomes(h, r6)
  BY <1>1, Zenon
<1>3. helper[h] \in Helper /\ memCalls \in Nat /\ memClock \in Nat /\ ttl \in Int /\ op \in Operations
  BY HelperFacts, MemoryAssumption, ScriptAssumption DEF MemoryInv, MemoryType, Operations
<1>4. at \in {"run", "wal"} /\ at \in Spots
  BY DEF Spots
<1>5. helper[h].store => at = "run"
  OBVIOUS
<1>6. ~helper[h].store => at = "wal"
  OBVIOUS
<1> HIDE DEF at
<1>11. Same(r1)
  BY <1>3, <1>4 DEF Helper
<1> HIDE DEF r1
<1>12. Same(r2)
  BY <1>3, <1>11 DEF Helper
<1> HIDE DEF r2
<1>13. Same(r3)
  BY <1>12 DEF Helper
<1> HIDE DEF r3
<1>14. Same(r4) /\ r4.now = memClock
  BY <1>3, <1>13 DEF Helper
<1> HIDE DEF r4
<1>15. Same(r5) /\ r5.now = memClock
  BY <1>3, <1>14 DEF Helper
<1> HIDE DEF r5
<1>16. Same(r6) /\ r6.now = memClock /\ r6.call = memCalls + 1
  BY <1>3, <1>15 DEF Helper
<1> HIDE DEF r6
<1>17. /\ helper[h].at = "idle" /\ memCalls' = memCalls + 1
       /\ UNCHANGED <<db, txHolder, work, memClock, told, doomed, posted, msScript>>
  BY DEF CallTool
<1>18. ~db.wal => ~helper[h].store
  BY DEF MemoryInv, JournalKept
<1>19. memCalls' \in Nat /\ memCalls' >= memCalls /\ r6.call \in 1 .. memCalls' /\ r6.call > memCalls
       /\ r6.now <= memClock
  BY <1>3, <1>16, <1>17
<1>20. r6.at \notin InTransaction /\ helper[h].at \notin InTransaction /\ r6.at # "switch"
  BY <1>4, <1>16, <1>17 DEF InTransaction
<1>21. ~db.wal => ~r6.store /\ r6.at \in {"idle", "wal", "switch"}
  BY <1>6, <1>16, <1>18
<1>22. r6.seen \in Shown \cup {NoNote}
  BY <1>16, HelperFacts
<1>23. r6 \in Helper
  BY <1>16
<1> QED BY <1>2, <1>17, <1>19, <1>20, <1>21, <1>22, <1>23, QuietStep

\* What quiet steps leave alone.
Quiet == UNCHANGED <<db, txHolder, work, memClock, memCalls, told, doomed, posted, msScript>>

\* A call that is over, without a transaction or with what it was shown.
LEMMA ReplyStep ==
    ASSUME MemoryInv, NEW h \in Helpers, helper[h].at \notin InTransaction, Quiet,
           NEW n \in Shown \cup {NoNote}, n \in Row \cup {NoNote},
           \/ HelperBecomes(h, Replied(h))
           \/ HelperBecomes(h, [Replied(h) EXCEPT !.seen = n])
    PROVE  MemoryInv'
<1>1. helper \in [Helpers -> Helper] /\ memCalls \in Nat
  BY DEF MemoryInv, MemoryType
<1>2. /\ Replied(h) \in Helper /\ Replied(h).at = "idle"
      /\ Replied(h).seen \in Shown \cup {NoNote} /\ Replied(h).store = helper[h].store
  BY <1>1, RepliedFacts, HelperFacts
<1>3. /\ [Replied(h) EXCEPT !.seen = n] \in Helper /\ [Replied(h) EXCEPT !.seen = n].at = "idle"
      /\ [Replied(h) EXCEPT !.seen = n].seen = n
      /\ [Replied(h) EXCEPT !.seen = n].store = helper[h].store
  BY <1>2 DEF Helper
<1>4. PICK new \in {Replied(h), [Replied(h) EXCEPT !.seen = n]} : HelperBecomes(h, new)
  OBVIOUS
<1>5. /\ new \in Helper /\ new.at = "idle" /\ new.store = helper[h].store
      /\ new.seen \in Shown \cup {NoNote}
  BY <1>2, <1>3
<1>6. ~db.wal => ~helper[h].store
  BY DEF MemoryInv, JournalKept
<1>7. /\ UNCHANGED <<db, txHolder, work, memClock, told, doomed, posted, msScript>>
      /\ memCalls' \in Nat /\ memCalls' >= memCalls
  BY <1>1 DEF Quiet
<1> QED BY <1>4, <1>5, <1>6, <1>7, QuietStep DEF InTransaction

\* Opening the file, up to the tables.
LEMMA OpeningStep ==
    ASSUME MemoryInv, NEW h \in Helpers, helper[h].at \in {"wal", "version"}, Quiet,
           NEW at, NEW store \in BOOLEAN, at \in {"switch", "version", "migrate", "run"},
           at = "switch" => ~db.wal /\ \A o \in Helpers : helper[o].at # "switch",
           at # "switch" => db.wal, ~db.wal => ~store,
           NEW new \in Helper, HelperBecomes(h, new),
           new.at = at, new.store = store, new.seen = helper[h].seen,
           new.call = helper[h].call, new.now = helper[h].now
    PROVE  MemoryInv'
<1>1. /\ UNCHANGED <<db, txHolder, work, memClock, told, doomed, posted, msScript>>
      /\ memCalls' = memCalls /\ memCalls' \in Nat /\ memCalls' >= memCalls
  BY DEF Quiet, MemoryInv, MemoryType
<1>2. helper[h].call \in 1 .. memCalls /\ helper[h].now <= memClock
  BY DEF MemoryInv, CallsKept
<1>3. new.seen \in Shown \cup {NoNote}
  BY HelperFacts
<1>4. new.at \notin InTransaction /\ helper[h].at \notin InTransaction /\ new.at # "idle"
      /\ helper[h].at # "idle"
  BY DEF InTransaction
<1> QED BY <1>1, <1>2, <1>3, <1>4, QuietStep

\* The journal is switched by one helper at a time.
LEMMA EnterWalStep == ASSUME MemoryInv, NEW h \in Helpers, EnterWal(h) PROVE MemoryInv'
<1> DEFINE at == IF db.wal THEN "version" ELSE "switch"
           new == [helper[h] EXCEPT !.at = at]
<1>1. helper[h] \in Helper /\ db.wal \in BOOLEAN
  BY HelperFacts DEF MemoryInv, MemoryType, File
<1>2. /\ new \in Helper /\ new.at = at /\ new.store = helper[h].store /\ new.seen = helper[h].seen
      /\ new.call = helper[h].call /\ new.now = helper[h].now
  BY <1>1 DEF Helper, Spots
<1>3. HelperBecomes(h, new) /\ Quiet /\ helper[h].at = "wal"
  BY DEF EnterWal, GoesOn, UnchangedRest, Quiet
<1>4. (~db.wal => ~helper[h].store) /\ helper[h].store \in BOOLEAN
  BY <1>1 DEF MemoryInv, JournalKept, Helper
<1>5. /\ at \in {"switch", "version", "migrate", "run"}
      /\ at = "switch" => ~db.wal /\ \A o \in Helpers : helper[o].at # "switch"
      /\ at # "switch" => db.wal
  BY <1>1 DEF EnterWal
<1> HIDE DEF new, at
<1> QED BY <1>2, <1>3, <1>4, <1>5, OpeningStep

\* The version says whether the tables are there.
LEMMA ReadVersionStep == ASSUME MemoryInv, NEW h \in Helpers, ReadVersion(h) PROVE MemoryInv'
<1> DEFINE ready == [helper[h] EXCEPT !.at = "run", !.store = TRUE]
           bare == [helper[h] EXCEPT !.at = "migrate"]
<1>1. helper[h] \in Helper /\ db.wal \in BOOLEAN
  BY HelperFacts DEF MemoryInv, MemoryType, File
<1>2. /\ ready \in Helper /\ ready.at = "run" /\ ready.store = TRUE /\ ready.seen = helper[h].seen
      /\ ready.call = helper[h].call /\ ready.now = helper[h].now
  BY <1>1 DEF Helper, Spots
<1>3. /\ bare \in Helper /\ bare.at = "migrate" /\ bare.store = helper[h].store
      /\ bare.seen = helper[h].seen /\ bare.call = helper[h].call /\ bare.now = helper[h].now
  BY <1>1 DEF Helper, Spots
<1>4. /\ HelperBecomes(h, ready) \/ HelperBecomes(h, bare)
      /\ Quiet /\ helper[h].at = "version"
  BY DEF ReadVersion, UnchangedRest, Quiet
<1>5. db.wal /\ helper[h].store \in BOOLEAN
  BY <1>1, <1>4 DEF MemoryInv, JournalKept, Helper
<1> HIDE DEF ready, bare
<1>6. CASE HelperBecomes(h, ready)
  BY <1>2, <1>4, <1>5, <1>6, OpeningStep
<1>7. CASE HelperBecomes(h, bare)
  BY <1>3, <1>4, <1>5, <1>7, OpeningStep
<1> QED BY <1>4, <1>6, <1>7

\* Deadlines, refusals and reads.
LEMMA OutsideSteps ==
    ASSUME MemoryInv, NEW h \in Helpers,
           WalDeadline(h) \/ Refuse(h) \/ BusyTimeout(h) \/ Read(h)
    PROVE  MemoryInv'
<1>1. Quiet /\ helper[h].at \notin InTransaction
  BY DEF WalDeadline, Refuse, BusyTimeout, Read, UnchangedRest, Quiet, InTransaction
<1>2. CASE WalDeadline(h) \/ Refuse(h) \/ BusyTimeout(h)
  <2>1. HelperBecomes(h, Replied(h))
    BY <1>2 DEF WalDeadline, Refuse, BusyTimeout
  <2> QED BY <1>1, <2>1, ReplyStep
<1>3. CASE Read(h)
  <2>1. PICK n \in IF Found(h) = {} THEN {helper[h].seen} ELSE Found(h) :
           HelperBecomes(h, [Replied(h) EXCEPT !.seen = n])
    BY <1>3 DEF Read
  <2>2. Found(h) \subseteq db.entries
    BY DEF Found, NotesOf
  <2>3. n \in Shown \cup {NoNote} /\ n \in Row \cup {NoNote}
    BY <2>1, <2>2, HelperFacts DEF Shown, MemoryInv, MemoryType, File, Helper
  <2> QED BY <1>1, <2>1, <2>3, ReplyStep
<1> QED BY <1>2, <1>3

----------------------------------------------------------------------------
(* The file changes without a row *)

\* Nobody is in a transaction before the journal is switched.
LEMMA NoTransactionYet ==
    ASSUME MemoryInv, ~db.wal
    PROVE  txHolder = 0
BY DEF MemoryInv, MemoryType, HolderKept, JournalKept, InTransaction

\* A file with the same rows, index and numbers, and no transaction: the
\* promises hold of it.
LEMMA SameRows ==
    ASSUME MemoryInv, db' \in File, db'.entries = db.entries, db'.index = db.index,
           db'.last = db.last, txHolder = 0, txHolder' = 0, work' = db',
           NEW h \in Helpers, NEW new \in Helper, HelperBecomes(h, new),
           helper[h].at # "idle", new.at \in {"version", "run"}, helper[h].at \notin InTransaction,
           new.seen = helper[h].seen, new.call = helper[h].call, new.now = helper[h].now,
           db'.wal, \A o \in Helpers \ {h} : helper[o].at # "switch",
           UNCHANGED <<memClock, memCalls, told, doomed, posted, msScript>>
    PROVE  MemoryInv'
<1>1. /\ helper' \in [Helpers -> Helper] /\ helper'[h] = new
      /\ \A o \in Helpers : o # h => helper'[o] = helper[o]
  BY BecomesFacts DEF MemoryInv, MemoryType
<1>2. MemoryType'
  BY <1>1 DEF MemoryInv, MemoryType
<1>3. HolderKept'
  BY <1>1, MemoryAssumption DEF MemoryInv, HolderKept, InTransaction
<1>4. JournalKept'
  BY <1>1 DEF JournalKept
<1>5. WorkKept'
  BY MemoryAssumption DEF WorkKept
<1>6. NumbersKept'
  BY <1>1 DEF MemoryInv, NumbersKept, Shown
<1>7. CallsKept'
  BY <1>1 DEF MemoryInv, MemoryType, CallsKept, Helper, File, Row
<1>8. KindsKept' /\ MemoryRight'
  BY DEF MemoryInv, KindsKept, MemoryRight, NotesOf, PostsOf
<1> QED BY <1>2, <1>3, <1>4, <1>5, <1>6, <1>7, <1>8 DEF MemoryInv

\* The journal mode changes nothing that was promised.
LEMMA SwitchedStep == ASSUME MemoryInv, NEW h \in Helpers, Switched(h) PROVE MemoryInv'
<1> DEFINE new == [helper[h] EXCEPT !.at = "version"]
<1>1. helper[h] \in Helper /\ db \in File
  BY HelperFacts DEF MemoryInv, MemoryType
<1>2. /\ new \in Helper /\ new.at = "version" /\ new.seen = helper[h].seen
      /\ new.call = helper[h].call /\ new.now = helper[h].now
  BY <1>1 DEF Helper, Spots
<1>3. /\ helper[h].at = "switch" /\ db' = [db EXCEPT !.wal = TRUE] /\ work' = db'
      /\ HelperBecomes(h, new)
      /\ UNCHANGED <<txHolder, memClock, memCalls, told, doomed, posted, msScript>>
  BY DEF Switched, GoesOn, UnchangedRest
<1>4. db' \in File /\ db'.wal /\ db'.entries = db.entries /\ db'.index = db.index /\ db'.last = db.last
  BY <1>1, <1>3 DEF File
<1>5. ~db.wal /\ \A o \in Helpers \ {h} : helper[o].at # "switch"
  BY <1>3 DEF MemoryInv, JournalKept
<1>6. txHolder = 0
  BY <1>5, NoTransactionYet
<1> HIDE DEF new
<1> QED BY <1>2, <1>3, <1>4, <1>5, <1>6, SameRows DEF InTransaction

\* Tables that are there stay as they are.
LEMMA MigrateStep == ASSUME MemoryInv, NEW h \in Helpers, Migrate(h) PROVE MemoryInv'
<1> DEFINE new == [helper[h] EXCEPT !.at = "run", !.store = TRUE]
<1>1. helper[h] \in Helper /\ db \in File
  BY HelperFacts DEF MemoryInv, MemoryType
<1>2. /\ new \in Helper /\ new.at = "run" /\ new.seen = helper[h].seen
      /\ new.call = helper[h].call /\ new.now = helper[h].now
  BY <1>1 DEF Helper, Spots
<1>3. /\ helper[h].at = "migrate" /\ txHolder = 0 /\ db' = [db EXCEPT !.version = 1] /\ work' = db'
      /\ HelperBecomes(h, new)
      /\ UNCHANGED <<txHolder, memClock, memCalls, told, doomed, posted, msScript>>
  BY DEF Migrate, Migrated, UnchangedRest
<1>4. db' \in File /\ db'.wal = db.wal /\ db'.entries = db.entries /\ db'.index = db.index
      /\ db'.last = db.last
  BY <1>1, <1>3 DEF File
<1>5. db.wal /\ \A o \in Helpers : helper[o].at # "switch"
  BY <1>3 DEF MemoryInv, JournalKept
<1> HIDE DEF new
<1> QED BY <1>2, <1>3, <1>4, <1>5, SameRows DEF InTransaction

\* Time passes.
LEMMA MemTickStep == ASSUME MemoryInv, MemTick PROVE MemoryInv'
<1>1. /\ memClock' = memClock + 1 /\ memClock \in Nat
      /\ UNCHANGED <<db, txHolder, work, helper, memCalls, told, doomed, posted, msScript>>
  BY DEF MemTick, MemoryInv, MemoryType
<1>2. MemoryType' /\ HolderKept' /\ JournalKept' /\ NumbersKept' /\ KindsKept'
  BY <1>1 DEF MemoryInv, MemoryType, HolderKept, JournalKept, NumbersKept, KindsKept, Shown
<1>3. WorkKept'
  BY <1>1, PendingKept DEF MemoryInv, WorkKept
<1>4. CallsKept'
  BY <1>1 DEF MemoryInv, MemoryType, CallsKept, Helper
<1>5. \A p \in posted : p.expires > memClock' => p.expires > memClock
  BY <1>1 DEF MemoryInv, MemoryType, Row
<1>6. MemoryRight'
  BY <1>1, <1>5 DEF MemoryInv, MemoryRight
<1> QED BY <1>2, <1>3, <1>4, <1>6 DEF MemoryInv

----------------------------------------------------------------------------
(* Inside a transaction *)

\* A transaction starts from what is committed.
LEMMA BeginStep == ASSUME MemoryInv, NEW h \in Helpers, BeginImmediate(h) PROVE MemoryInv'
<1>1. /\ helper[h].at = "run" /\ helper[h].op \in Writes /\ txHolder = 0 /\ txHolder' = h /\ work' = db
      /\ GoesOn(h, "first")
      /\ UNCHANGED <<db, memClock, memCalls, told, doomed, posted, msScript>>
  BY DEF BeginImmediate, UnchangedRest
<1>2. helper \in [Helpers -> Helper] /\ "first" \in Spots
  BY DEF MemoryInv, MemoryType, Spots, InTransaction
<1>3. /\ helper' \in [Helpers -> Helper]
      /\ \A o \in Helpers : o # h => helper'[o] = helper[o]
      /\ helper'[h].at = "first" /\ helper'[h].store = helper[h].store
      /\ helper'[h].seen = helper[h].seen /\ helper'[h].op = helper[h].op
      /\ helper'[h].now = helper[h].now /\ helper'[h].call = helper[h].call
  BY <1>1, <1>2, GoesOnFacts
<1>4. MemoryType'
  BY <1>1, <1>3 DEF MemoryInv, MemoryType
<1>5. \A o \in Helpers : helper[o].at \notin InTransaction
  BY <1>1, MemoryAssumption DEF MemoryInv, HolderKept
<1>6. HolderKept'
  BY <1>1, <1>3, <1>5 DEF HolderKept, InTransaction
<1>7. JournalKept'
  BY <1>1, <1>3 DEF MemoryInv, JournalKept
<1>8. WorkKept'
  BY <1>1, <1>3, MemoryAssumption DEF WorkKept
<1>9. NumbersKept'
  BY <1>1, <1>3 DEF MemoryInv, NumbersKept, Shown
<1>10. CallsKept'
  BY <1>1, <1>3 DEF MemoryInv, CallsKept
<1>11. KindsKept' /\ MemoryRight'
  BY <1>1 DEF MemoryInv, KindsKept, MemoryRight
<1> QED BY <1>4, <1>6, <1>7, <1>8, <1>9, <1>10, <1>11 DEF MemoryInv

\* A transaction that ends without its changes, or a helper that goes without
\* one: nothing is lost but the helper's call.
LEMMA RollbackStep ==
    ASSUME MemoryInv, NEW h \in Helpers, RolledBack(h), NEW new \in Helper, HelperBecomes(h, new),
           new.at = "idle", new.seen \in {helper[h].seen, NoNote}, ~db.wal => ~new.store,
           UNCHANGED <<memClock, memCalls, told, doomed, posted, msScript>>
    PROVE  MemoryInv'
<1>1. /\ helper' \in [Helpers -> Helper] /\ helper'[h] = new
      /\ \A o \in Helpers : o # h => helper'[o] = helper[o]
  BY BecomesFacts DEF MemoryInv, MemoryType
<1>2. /\ db' = db
      /\ txHolder = h => txHolder' = 0 /\ work' = db
      /\ txHolder # h => txHolder' = txHolder /\ work' = work
  BY DEF RolledBack
<1>3. MemoryType'
  BY <1>1, <1>2 DEF MemoryInv, MemoryType
<1>4. HolderKept'
  BY <1>1, <1>2, MemoryAssumption DEF MemoryInv, HolderKept, InTransaction
<1>5. JournalKept'
  BY <1>1, <1>2 DEF MemoryInv, JournalKept
<1>6. WorkKept'
  <2>1. CASE txHolder = h
    BY <1>2, <2>1, MemoryAssumption DEF WorkKept
  <2>2. CASE txHolder # h
    BY <1>1, <1>2, <2>2, PendingKept DEF MemoryInv, WorkKept
  <2> QED BY <2>1, <2>2
<1>7. NumbersKept'
  BY <1>1, <1>2 DEF MemoryInv, NumbersKept, Shown
<1>8. CallsKept'
  BY <1>1, <1>2 DEF MemoryInv, CallsKept
<1>9. KindsKept' /\ MemoryRight'
  BY <1>2 DEF MemoryInv, KindsKept, MemoryRight
<1> QED BY <1>3, <1>4, <1>5, <1>6, <1>7, <1>8, <1>9 DEF MemoryInv

\* A failed statement, and a helper that is killed.
LEMMA FailingSteps ==
    ASSUME MemoryInv, NEW h \in Helpers, StatementFails(h) \/ HelperDies(h)
    PROVE  MemoryInv'
<1>1. RolledBack(h) /\ UNCHANGED <<memClock, memCalls, told, doomed, posted, msScript>>
  BY DEF StatementFails, HelperDies, UnchangedRest
<1>2. CASE StatementFails(h)
  <2>1. HelperBecomes(h, Replied(h))
    BY <1>2 DEF StatementFails
  <2>2. /\ Replied(h) \in Helper /\ Replied(h).at = "idle" /\ Replied(h).seen = helper[h].seen
        /\ Replied(h).store = helper[h].store
    BY RepliedFacts DEF MemoryInv, MemoryType
  <2>3. ~db.wal => ~helper[h].store
    BY DEF MemoryInv, JournalKept
  <2> QED BY <1>1, <2>1, <2>2, <2>3, RollbackStep
<1>3. CASE HelperDies(h)
  <2>1. HelperBecomes(h, NewHelper)
    BY <1>3 DEF HelperDies
  <2>2. /\ NewHelper \in Helper /\ NewHelper.at = "idle" /\ NewHelper.seen = NoNote
        /\ ~NewHelper.store
    BY DEF NewHelper, Helper, Spots, Operations
  <2> QED BY <1>1, <2>1, <2>2, RollbackStep
<1> QED BY <1>2, <1>3

\* AUTOINCREMENT, and the row it makes.
LEMMA InsertFacts ==
    ASSUME NEW f \in File, f.last = db.last, NEW h, NEW kind, NEW expires
    PROVE  Insert(f, h, kind, expires) = WithRow(f, NewRow(h, kind, expires))
<1>1. f.last \in Nat
  BY DEF File
<1>2. Max({f.last, f.last + 1}) = f.last + 1
  BY <1>1 DEF Max
<1>3. NewRow(h, kind, expires).id = f.last + 1
  BY DEF NewRow
<1> QED BY <1>2, <1>3 DEF Insert, WithRow, NewRow, NextRowId

\* The row of a call under way is a row, with the number after the last.
LEMMA NewRowFacts ==
    ASSUME MemoryInv, NEW h \in Helpers, helper[h].at # "idle", NEW kind \in {"note", "board"},
           NEW expires \in Int
    PROVE  /\ NewRow(h, kind, expires) \in Row
           /\ NewRow(h, kind, expires).id = db.last + 1
           /\ NewRow(h, kind, expires).kind = kind
           /\ NewRow(h, kind, expires).call = helper[h].call
           /\ NewRow(h, kind, expires).author = AuthorLabel(h)
           /\ \A e \in db.entries : e # NewRow(h, kind, expires)
<1>1. db.last \in Nat /\ helper[h] \in Helper
  BY HelperFacts DEF MemoryInv, MemoryType, File
<1>2. helper[h].call \in Nat \ {0} /\ helper[h].now \in Nat /\ AuthorLabel(h) \in {"agent", "named"}
  BY <1>1 DEF MemoryInv, MemoryType, CallsKept, Helper, AuthorLabel
<1>3. db.last + 1 \in Nat \ {0}
  BY <1>1
<1>4. NewRow(h, kind, expires) \in Row
  BY <1>2, <1>3 DEF NewRow, Row
<1>5. \A e \in db.entries : e.call # helper[h].call
  BY DEF MemoryInv, CallsKept
<1> QED BY <1>4, <1>5 DEF NewRow

\* A file with one more row.
LEMMA WithRowFacts ==
    ASSUME NEW f \in File, NEW row \in Row
    PROVE  /\ WithRow(f, row) \in File
           /\ WithRow(f, row).entries = f.entries \cup {row} /\ WithRow(f, row).last = row.id
           /\ WithRow(f, row).index = f.index /\ WithRow(f, row).wal = f.wal
<1> DEFINE g == [f EXCEPT !.entries = @ \cup {row}]
<1>1. g \in File /\ g.entries = f.entries \cup {row} /\ g.index = f.index /\ g.wal = f.wal
  BY DEF File
<1>2. row.id \in Nat
  BY DEF Row
<1>3. WithRow(f, row) = [g EXCEPT !.last = row.id]
  BY Zenon DEF WithRow
<1> HIDE DEF g
<1> QED BY <1>1, <1>2, <1>3 DEF File

\* Board rows that are cleared.
LEMMA ClearedFacts ==
    ASSUME MemoryInv, NEW h
    PROVE  /\ Cleared(h) \in File /\ Cleared(h).last = db.last /\ Cleared(h).index = db.index
           /\ Cleared(h).wal = db.wal
           /\ Cleared(h).entries = db.entries \ {e \in PostsOf(db) :
                                       e.author = AuthorLabel(h) \/ e.expires <= helper[h].now}
BY DEF Cleared, MemoryInv, MemoryType, File

\* Notes that are erased.
LEMMA LeftFacts ==
    ASSUME MemoryInv, NEW h
    PROVE  LET left == [db EXCEPT !.entries = @ \ Erased(h)]
           IN  /\ left \in File /\ left.last = db.last /\ left.index = db.index
               /\ left.wal = db.wal /\ left.entries = db.entries \ Erased(h)
BY DEF MemoryInv, MemoryType, File

\* A statement changes only what the transaction would commit.
LEMMA StatementStep ==
    ASSUME MemoryInv, NEW h \in Helpers, txHolder = h, NEW at \in {"second", "commit"},
           GoesOn(h, at), work' \in File,
           UNCHANGED <<db, txHolder, memClock, memCalls, told, doomed, posted, msScript>>,
           helper[h].op = "write" => WritePending(h)',
           helper[h].op = "delete" => DeletePending(h)',
           helper[h].op = "post" => PostPending(h)'
    PROVE  MemoryInv'
<1>1. helper \in [Helpers -> Helper] /\ at \in Spots
  BY DEF MemoryInv, MemoryType, Spots, InTransaction
<1>2. /\ helper' \in [Helpers -> Helper]
      /\ \A o \in Helpers : o # h => helper'[o] = helper[o]
      /\ helper'[h].at = at /\ helper'[h].store = helper[h].store
      /\ helper'[h].seen = helper[h].seen /\ helper'[h].op = helper[h].op
      /\ helper'[h].now = helper[h].now /\ helper'[h].call = helper[h].call
  BY <1>1, GoesOnFacts
<1>3. helper[h].at \in InTransaction /\ h # 0
  BY MemoryAssumption DEF MemoryInv, HolderKept
<1>4. MemoryType'
  BY <1>2 DEF MemoryInv, MemoryType
<1>5. HolderKept' /\ JournalKept'
  BY <1>2, <1>3 DEF MemoryInv, HolderKept, JournalKept, InTransaction
<1>6. WorkKept'
  BY <1>2, <1>3 DEF MemoryInv, WorkKept
<1>7. NumbersKept'
  BY <1>2 DEF MemoryInv, NumbersKept, Shown
<1>8. CallsKept'
  BY <1>2, <1>3 DEF MemoryInv, CallsKept, InTransaction
<1>9. KindsKept' /\ MemoryRight'
  BY DEF MemoryInv, KindsKept, MemoryRight
<1> QED BY <1>4, <1>5, <1>6, <1>7, <1>8, <1>9 DEF MemoryInv

\* A helper that goes on within its transaction keeps its row, its note and
\* the board rows it replaces.
LEMMA GoesOnKeeps ==
    ASSUME helper \in [Helpers -> Helper], NEW h \in Helpers, NEW at \in Spots, GoesOn(h, at),
           UNCHANGED db
    PROVE  /\ \A kind, expires : NewRow(h, kind, expires)' = NewRow(h, kind, expires)
           /\ Cleared(h)' = Cleared(h) /\ Erased(h)' = Erased(h)
BY GoesOnFacts DEF NewRow, Cleared, Erased, AuthorLabel, NotesOf, PostsOf

\* The row of a write under way is found by its call.
LEMMA RowOfFacts ==
    ASSUME MemoryInv, NEW h \in Helpers, helper[h].at # "idle", NEW kind \in {"note", "board"},
           NEW expires \in Int, NEW S, S \subseteq db.entries,
           work.entries = S \cup {NewRow(h, kind, expires)}
    PROVE  RowOf(h) = NewRow(h, kind, expires)
<1>1. NewRow(h, kind, expires).call = helper[h].call
  BY NewRowFacts
<1>2. \A e \in S : e.call # helper[h].call
  BY DEF MemoryInv, CallsKept
<1> QED BY <1>1, <1>2 DEF RowOf

\* What a holder knows of its place.
LEMMA HolderFacts ==
    ASSUME MemoryInv, NEW h \in Helpers, txHolder = h
    PROVE  /\ helper[h].at \in InTransaction /\ helper[h].at # "idle" /\ h # 0 /\ db.wal
           /\ helper \in [Helpers -> Helper] /\ db \in File
           /\ helper[h].now \in Int /\ helper[h].ttl \in Int
<1>1. helper[h].at \in InTransaction
  BY DEF MemoryInv, HolderKept
<1>2. helper \in [Helpers -> Helper] /\ db \in File
  BY DEF MemoryInv, MemoryType
<1>3. helper[h].now \in Int /\ helper[h].ttl \in Int
  BY <1>2 DEF Helper
<1> QED BY <1>1, <1>2, <1>3, HelperFacts, MemoryAssumption DEF InTransaction

\* write_note
LEMMA WriteStep ==
    ASSUME MemoryInv, NEW h \in Helpers, txHolder = h, helper[h].op = "write", WriteNote(h),
           UnchangedRest
    PROVE  MemoryInv'
<1> DEFINE row == NewRow(h, "note", 0)
<1>1. /\ helper[h].at \in InTransaction /\ helper[h].at # "idle" /\ db \in File
      /\ helper \in [Helpers -> Helper]
  BY HolderFacts
<1>2. row \in Row /\ row.id = db.last + 1
  BY <1>1, NewRowFacts
<1>3. WithRow(db, row) \in File /\ WithRow(db, row).entries = db.entries \cup {row}
  BY <1>1, <1>2, WithRowFacts
<1>4. UNCHANGED <<memClock, memCalls, told, doomed, posted, msScript>>
  BY DEF UnchangedRest
<1>5. CASE helper[h].at = "first" /\ TooMany(work)
  <2>1. HelperBecomes(h, Replied(h)) /\ RolledBack(h)
    BY <1>5 DEF WriteNote
  <2>2. /\ Replied(h) \in Helper /\ Replied(h).at = "idle" /\ Replied(h).seen = helper[h].seen
    BY <1>1, RepliedFacts
  <2> QED BY <1>4, <2>1, <2>2, HolderFacts, RollbackStep
<1>6. CASE helper[h].at = "first" /\ ~TooMany(work)
  <2>1. work = db
    BY <1>6 DEF MemoryInv, WorkKept
  <2>2. /\ work' = Insert(work, h, "note", 0) /\ GoesOn(h, "second") /\ UNCHANGED <<db, txHolder>>
    BY <1>6 DEF WriteNote
  <2>3. work' = WithRow(db, row)
    BY <1>1, <2>1, <2>2, InsertFacts
  <2>4. "second" \in Spots
    BY DEF Spots, InTransaction
  <2>5. row' = row /\ helper'[h].at = "second"
    BY <1>1, <2>2, <2>4, GoesOnKeeps, GoesOnFacts
  <2>6. Cardinality(NotesOf(db)) < MaxNotes
    <3>1. IsFiniteSet(NotesOf(db))
      BY FS_Subset DEF NotesOf, MemoryInv, MemoryType
    <3>2. Cardinality(NotesOf(db)) \in Nat
      BY <3>1, FS_CardinalityType
    <3> QED BY <1>6, <2>1, <3>2, MemoryAssumption DEF TooMany
  <2>7. WritePending(h)'
    <3>1. NotesOf(db)' = NotesOf(db)
      BY <2>2
    <3> QED BY <2>2, <2>3, <2>5, <2>6, <3>1 DEF WritePending
  <2> QED BY <1>3, <1>4, <2>2, <2>3, <2>7, StatementStep
<1>7. CASE helper[h].at = "second"
  <2>1. work = WithRow(db, row) /\ Cardinality(NotesOf(db)) < MaxNotes
    BY <1>7 DEF MemoryInv, WorkKept, WritePending
  <2>2. RowOf(h) = row
    BY <1>1, <1>3, <2>1, RowOfFacts
  <2>3. /\ work' = [work EXCEPT !.index = @ \cup {RowOf(h).id}]
        /\ GoesOn(h, "commit") /\ UNCHANGED <<db, txHolder>>
    BY <1>7 DEF WriteNote
  <2>4. work' = [WithRow(db, row) EXCEPT !.index = @ \cup {row.id}]
    BY <2>1, <2>2, <2>3
  <2>5. work' \in File
    BY <1>2, <1>3, <2>4 DEF File, Row
  <2>6. "commit" \in Spots
    BY DEF Spots, InTransaction
  <2>7. row' = row /\ helper'[h].at = "commit"
    BY <1>1, <2>3, <2>6, GoesOnKeeps, GoesOnFacts
  <2>8. WritePending(h)'
    <3>1. NotesOf(db)' = NotesOf(db)
      BY <2>3
    <3>2. WithRow(db, row)' = WithRow(db, row)
      BY <2>3, <2>7 DEF WithRow
    <3> HIDE DEF row
    <3> QED BY <2>1, <2>4, <2>7, <3>1, <3>2 DEF WritePending, row
  <2> QED BY <1>4, <2>3, <2>5, <2>8, StatementStep
<1> QED BY <1>1, <1>5, <1>6, <1>7 DEF WriteNote

\* delete_note
LEMMA DeleteStep ==
    ASSUME MemoryInv, NEW h \in Helpers, txHolder = h, helper[h].op = "delete", DeleteNote(h),
           UnchangedRest
    PROVE  MemoryInv'
<1> DEFINE left == [db EXCEPT !.entries = @ \ Erased(h)]
<1>1. helper[h].at \in InTransaction /\ helper \in [Helpers -> Helper] /\ db \in File
  BY HolderFacts
<1>2. left \in File /\ left.index = db.index
  BY LeftFacts
<1>3. UNCHANGED <<memClock, memCalls, told, doomed, posted, msScript>>
  BY DEF UnchangedRest
<1>4. "second" \in Spots /\ "commit" \in Spots
  BY DEF Spots, InTransaction
<1>5. CASE helper[h].at = "first"
  <2> DEFINE at == IF Erased(h) # {} THEN "second" ELSE "commit"
  <2>1. work = db
    BY <1>5 DEF MemoryInv, WorkKept
  <2>2. work' = left /\ GoesOn(h, at) /\ UNCHANGED <<db, txHolder>>
    BY <1>5, <2>1 DEF DeleteNote, Erased
  <2>3. at \in {"second", "commit"} /\ at \in Spots
    BY <1>4
  <2> HIDE DEF at
  <2>4. Erased(h)' = Erased(h) /\ helper'[h].at = at
    BY <1>1, <2>2, <2>3, GoesOnKeeps, GoesOnFacts
  <2>5. DeletePending(h)'
    BY <2>2, <2>3, <2>4 DEF DeletePending, at
  <2> QED BY <1>2, <1>3, <2>2, <2>3, <2>5, StatementStep
<1>6. CASE helper[h].at = "second"
  <2>1. work = left
    BY <1>6 DEF MemoryInv, WorkKept, DeletePending
  <2>2. work' = [left EXCEPT !.index = @ \ {helper[h].seen.id}] /\ GoesOn(h, "commit")
        /\ UNCHANGED <<db, txHolder>>
    BY <1>6, <2>1 DEF DeleteNote
  <2>3. work' \in File
    BY <1>2, <2>2 DEF File
  <2>4. Erased(h)' = Erased(h) /\ helper'[h].at = "commit" /\ helper'[h].seen = helper[h].seen
    BY <1>1, <1>4, <2>2, GoesOnKeeps, GoesOnFacts
  <2>5. Erased(h) # {}
    BY <1>6 DEF MemoryInv, WorkKept, DeletePending
  <2>6. DeletePending(h)'
    BY <2>2, <2>4, <2>5 DEF DeletePending
  <2> QED BY <1>3, <2>2, <2>3, <2>6, StatementStep
<1> QED BY <1>1, <1>5, <1>6 DEF DeleteNote

\* post_board
LEMMA PostStep ==
    ASSUME MemoryInv, NEW h \in Helpers, txHolder = h, helper[h].op = "post", PostBoard(h),
           UnchangedRest
    PROVE  MemoryInv'
<1> DEFINE expires == helper[h].now + helper[h].ttl
           row == NewRow(h, "board", expires)
<1>1. /\ helper[h].at \in InTransaction /\ helper[h].at # "idle" /\ db \in File
      /\ helper \in [Helpers -> Helper] /\ expires \in Int
  BY HolderFacts
<1>2. row \in Row
  BY <1>1, NewRowFacts
<1>3. Cleared(h) \in File /\ Cleared(h).last = db.last
  BY ClearedFacts
<1>4. UNCHANGED <<memClock, memCalls, told, doomed, posted, msScript>>
  BY DEF UnchangedRest
<1>5. "second" \in Spots /\ "commit" \in Spots
  BY DEF Spots, InTransaction
<1>6. CASE helper[h].at = "first"
  <2>1. work = db
    BY <1>6 DEF MemoryInv, WorkKept
  <2>2. work' = Cleared(h) /\ GoesOn(h, "second") /\ UNCHANGED <<db, txHolder>>
    BY <1>6, <2>1 DEF PostBoard, Replaced, Cleared
  <2>3. Cleared(h)' = Cleared(h) /\ helper'[h].at = "second"
    BY <1>1, <1>5, <2>2, GoesOnKeeps, GoesOnFacts
  <2>4. PostPending(h)'
    BY <2>2, <2>3 DEF PostPending
  <2> QED BY <1>3, <1>4, <2>2, <2>4, StatementStep
<1>7. CASE helper[h].at = "second"
  <2>1. work = Cleared(h)
    BY <1>7 DEF MemoryInv, WorkKept, PostPending
  <2>2. work' = Insert(Cleared(h), h, "board", expires) /\ GoesOn(h, "commit")
        /\ UNCHANGED <<db, txHolder>>
    BY <1>7, <2>1 DEF PostBoard
  <2>3. work' = WithRow(Cleared(h), row)
    BY <1>3, <2>2, InsertFacts
  <2>4. work' \in File
    BY <1>2, <1>3, <2>3, WithRowFacts
  <2>5. /\ Cleared(h)' = Cleared(h) /\ \A k, e : NewRow(h, k, e)' = NewRow(h, k, e)
        /\ helper'[h].at = "commit"
        /\ helper'[h].now = helper[h].now /\ helper'[h].ttl = helper[h].ttl
    BY <1>1, <1>5, <2>2, GoesOnKeeps, GoesOnFacts
  <2>6. row' = row
    BY <2>5
  <2>7. WithRow(Cleared(h), row)' = WithRow(Cleared(h), row)
    BY <2>5, <2>6 DEF WithRow
  <2>8. PostPending(h)'
    BY <2>3, <2>5, <2>7 DEF PostPending
  <2> QED BY <1>4, <2>2, <2>4, <2>8, StatementStep
<1> QED BY <1>1, <1>6, <1>7 DEF PostBoard

----------------------------------------------------------------------------
(* The commit *)

\* The committed file is what the transaction made of it; if that keeps every
\* number, every call and every promise, the commit keeps the invariant.
LEMMA CommitKeeps ==
    ASSUME MemoryInv, NEW h \in Helpers, txHolder = h, helper[h].at = "commit",
           db' = work, work' = work, work \in File, IsFiniteSet(work.entries), work.wal,
           txHolder' = 0,
           NEW new \in Helper, HelperBecomes(h, new), new.at = "idle",
           told' \subseteq Row, posted' \subseteq Row, KindsKept', MemoryRight',
           UNCHANGED <<memClock, memCalls, msScript>>,
           db.last <= work.last,
           \A e \in work.entries \cup told' \cup ({new.seen} \ {NoNote}) :
              e \in Shown \/ (e.id = db.last + 1 /\ e.id <= work.last /\ e.call = helper[h].call),
           \A e, f \in work.entries \cup told' \cup ({new.seen} \ {NoNote}) :
              e.id = db.last + 1 /\ f.id = db.last + 1 => e = f,
           \A e \in work.entries : e \in db.entries \/ e.call = helper[h].call
    PROVE  MemoryInv'
<1>1. /\ helper' \in [Helpers -> Helper] /\ helper'[h] = new
      /\ \A o \in Helpers : o # h => helper'[o] = helper[o]
  BY BecomesFacts DEF MemoryInv, MemoryType
<1>2. h # 0 /\ \A o \in Helpers : o # h => helper[o].at \notin InTransaction
  BY MemoryAssumption DEF MemoryInv, HolderKept
<1>3. MemoryType'
  BY <1>1 DEF MemoryInv, MemoryType
<1>4. HolderKept'
  BY <1>1, <1>2, MemoryAssumption DEF HolderKept, InTransaction
<1>5. JournalKept'
  <2>1. db.wal
    BY HolderFacts
  <2> QED BY <1>1, <2>1 DEF MemoryInv, JournalKept
<1>6. WorkKept'
  BY MemoryAssumption DEF WorkKept
<1>7. NumbersKept'
  <2> DEFINE shown == work.entries \cup told' \cup ({new.seen} \ {NoNote})
  <2>1. Shown' \subseteq shown \cup Shown
    BY <1>1 DEF Shown
  <2>2. \A e \in Shown' : e \in Shown \/ (e \in shown /\ e.id = db.last + 1 /\ e.id <= work.last)
    BY <2>1
  <2>3. \A e \in Shown : e.id <= db.last /\ e.id \in Nat
    BY DEF MemoryInv, MemoryType, NumbersKept, Shown, File, Helper, Row
  <2>4. db.last \in Nat /\ work.last \in Nat
    BY DEF MemoryInv, MemoryType, File
  <2>5. \A e \in Shown' : e.id <= work.last
    BY <2>2, <2>3, <2>4
  <2>6. \A e, f \in Shown' : e.id = f.id => e = f
    BY <2>2, <2>3, <2>4 DEF MemoryInv, NumbersKept
  <2> QED BY <2>5, <2>6 DEF NumbersKept
<1>8. CallsKept'
  <2>1. helper[h].call \in 1 .. memCalls /\ memCalls \in Nat
    BY DEF MemoryInv, MemoryType, CallsKept
  <2>2. \A e \in work.entries : e.call <= memCalls
    BY <2>1 DEF MemoryInv, CallsKept
  <2>3. \A o \in Helpers : o # h /\ helper[o].at # "idle" =>
           helper[o].call # helper[h].call /\ \A e \in db.entries : e.call # helper[o].call
    BY DEF MemoryInv, CallsKept
  <2>4. \A o \in Helpers : helper'[o].at # "idle" => o # h /\ helper'[o] = helper[o]
    BY <1>1
  <2>5. \A o \in Helpers : helper'[o].at # "idle" => \A e \in work.entries : e.call # helper'[o].call
    BY <2>3, <2>4
  <2> QED BY <2>2, <2>4, <2>5 DEF MemoryInv, CallsKept
<1> QED BY <1>3, <1>4, <1>5, <1>6, <1>7, <1>8 DEF MemoryInv

\* Adding a row to a finite set of rows.
LEMMA FiniteRows ==
    ASSUME MemoryInv
    PROVE  /\ \A S : S \subseteq db.entries => IsFiniteSet(S)
           /\ \A S, r : S \subseteq db.entries => IsFiniteSet(S \cup {r})
           /\ IsFiniteSet(NotesOf(db)) /\ Cardinality(NotesOf(db)) \in Nat
<1>1. \A S : S \subseteq db.entries => IsFiniteSet(S)
  BY FS_Subset DEF MemoryInv, MemoryType
<1>2. \A S, r : S \subseteq db.entries => IsFiniteSet(S \cup {r})
  BY <1>1, FS_AddElement
<1>3. IsFiniteSet(NotesOf(db))
  BY <1>1 DEF NotesOf
<1> QED BY <1>1, <1>2, <1>3, FS_CardinalityType

\* What a commit does, whatever the call was.
LEMMA CommitFacts ==
    ASSUME MemoryInv, NEW h \in Helpers, Commit(h)
    PROVE  /\ txHolder = h /\ helper[h].at = "commit" /\ helper[h].op \in Writes
           /\ db' = work /\ txHolder' = 0 /\ work' = work /\ work \in File
           /\ UNCHANGED <<memClock, memCalls, msScript>>
           /\ told \subseteq Row /\ posted \subseteq Row
<1>1. helper[h].at = "commit" /\ db' = work /\ txHolder' = 0 /\ work' = work
      /\ UNCHANGED <<memClock, memCalls, msScript>>
  BY DEF Commit
<1>2. txHolder = h
  BY <1>1 DEF MemoryInv, HolderKept, InTransaction
<1> QED BY <1>1, <1>2 DEF MemoryInv, MemoryType, WorkKept

\* A committed write is in the file and in the index, within the limit, and
\* its author is told its number.
LEMMA CommitWriteStep ==
    ASSUME MemoryInv, NEW h \in Helpers, Commit(h), helper[h].op = "write"
    PROVE  MemoryInv'
<1> DEFINE row == NewRow(h, "note", 0)
           new == [Replied(h) EXCEPT !.seen = row]
<1>1. /\ txHolder = h /\ helper[h].at = "commit" /\ db' = work /\ txHolder' = 0 /\ work' = work
      /\ work \in File /\ told \subseteq Row /\ posted \subseteq Row
      /\ UNCHANGED <<memClock, memCalls, msScript>>
  BY CommitFacts
<1>2. db \in File /\ db.wal
  BY <1>1, HolderFacts
<1>3. /\ row \in Row /\ row.id = db.last + 1 /\ row.kind = "note" /\ row.call = helper[h].call
      /\ \A e \in db.entries : e # row
  BY <1>1, NewRowFacts
<1>4. /\ work = [WithRow(db, row) EXCEPT !.index = @ \cup {row.id}]
      /\ Cardinality(NotesOf(db)) < MaxNotes
  BY <1>1 DEF MemoryInv, WorkKept, WritePending
<1>5. /\ WithRow(db, row) \in File /\ WithRow(db, row).entries = db.entries \cup {row}
      /\ WithRow(db, row).last = row.id /\ WithRow(db, row).index = db.index
      /\ WithRow(db, row).wal = db.wal
  BY <1>2, <1>3, WithRowFacts
<1>6. /\ work.entries = db.entries \cup {row} /\ work.last = db.last + 1
      /\ work.index = db.index \cup {row.id} /\ work.wal
  BY <1>2, <1>3, <1>4, <1>5 DEF File
<1>7. RowOf(h) = row
  BY <1>1, <1>6, RowOfFacts
<1> HIDE DEF row
<1>8. /\ HelperBecomes(h, new) /\ told' = told \cup {row} /\ doomed' = doomed /\ posted' = posted
  BY <1>7 DEF Commit
<1>9. new \in Helper /\ new.at = "idle" /\ new.seen = row
  <2>1. Replied(h) \in Helper /\ Replied(h).at = "idle"
    BY RepliedFacts DEF MemoryInv, MemoryType
  <2> QED BY <1>3, <2>1 DEF Helper
<1> HIDE DEF new
<1>10. KindsKept'
  BY <1>3, <1>8 DEF MemoryInv, KindsKept
<1>11. MemoryRight'
  <2>1. NotesOf(work) = NotesOf(db) \cup {row} /\ PostsOf(work) = PostsOf(db)
    BY <1>3, <1>6 DEF NotesOf, PostsOf
  <2>2. row \notin NotesOf(db)
    BY <1>3 DEF NotesOf
  <2>3. Cardinality(NotesOf(work)) = Cardinality(NotesOf(db)) + 1
    BY <2>1, <2>2, FiniteRows, FS_AddElement
  <2>4. Cardinality(NotesOf(work)) <= MaxNotes
    BY <1>4, <2>3, FiniteRows, MemoryAssumption
  <2>5. work.index = {n.id : n \in NotesOf(work)}
    BY <1>6, <2>1 DEF MemoryInv, MemoryRight
  <2> QED BY <1>1, <1>6, <1>8, <2>1, <2>4, <2>5 DEF MemoryInv, MemoryRight
<1>12. IsFiniteSet(work.entries)
  <2>1. IsFiniteSet(db.entries \cup {row})
    BY FiniteRows
  <2> QED BY <1>6, <2>1
<1>13. db.last <= work.last /\ db.last \in Nat
  BY <1>2, <1>6 DEF File
<1>14. \A e \in work.entries \cup told' \cup ({new.seen} \ {NoNote}) : e \in Shown \/ e = row
  BY <1>6, <1>8, <1>9 DEF Shown
<1>15. \A e \in Shown : e.id # db.last + 1
  BY <1>13 DEF MemoryInv, MemoryType, NumbersKept, Shown, File, Helper, Row
<1>16. told' \subseteq Row /\ posted' \subseteq Row
  BY <1>1, <1>3, <1>8
<1>17. \A e \in work.entries \cup told' \cup ({new.seen} \ {NoNote}) :
          e \in Shown \/ (e.id = db.last + 1 /\ e.id <= work.last /\ e.call = helper[h].call)
  BY <1>3, <1>6, <1>13, <1>14
<1>18. \A e, f \in work.entries \cup told' \cup ({new.seen} \ {NoNote}) :
          e.id = db.last + 1 /\ f.id = db.last + 1 => e = f
  BY <1>14, <1>15
<1>19. \A e \in work.entries : e \in db.entries \/ e.call = helper[h].call
  BY <1>3, <1>6
<1> QED BY <1>1, <1>6, <1>8, <1>9, <1>10, <1>11, <1>12, <1>13, <1>16, <1>17, <1>18, <1>19, CommitKeeps

\* A committed delete takes the note that was asked for and no other, and its
\* words from the index.
LEMMA CommitDeleteStep ==
    ASSUME MemoryInv, NEW h \in Helpers, Commit(h), helper[h].op = "delete"
    PROVE  MemoryInv'
<1> DEFINE left == [db EXCEPT !.entries = @ \ Erased(h)]
           new == [Replied(h) EXCEPT !.seen = @]
<1>1. /\ txHolder = h /\ helper[h].at = "commit" /\ db' = work /\ txHolder' = 0 /\ work' = work
      /\ work \in File /\ told \subseteq Row /\ posted \subseteq Row
      /\ UNCHANGED <<memClock, memCalls, msScript>>
  BY CommitFacts
<1>2. db \in File /\ db.wal /\ helper[h] \in Helper
  BY <1>1, HolderFacts, HelperFacts
<1>3. work = IF Erased(h) = {} THEN left ELSE [left EXCEPT !.index = @ \ {helper[h].seen.id}]
  BY <1>1 DEF MemoryInv, WorkKept, DeletePending
<1>4. /\ left \in File /\ left.entries = db.entries \ Erased(h) /\ left.last = db.last
      /\ left.index = db.index /\ left.wal = db.wal
  BY LeftFacts
<1> HIDE DEF left
<1>5. /\ work.entries = db.entries \ Erased(h) /\ work.last = db.last /\ work.wal
      /\ work.index = IF Erased(h) = {} THEN db.index ELSE db.index \ {helper[h].seen.id}
  BY <1>2, <1>3, <1>4 DEF File
<1>6. /\ HelperBecomes(h, new) /\ told' = told /\ doomed' = doomed \cup {helper[h].seen}
      /\ posted' = posted
  BY DEF Commit
<1>7. new \in Helper /\ new.at = "idle" /\ new.seen = helper[h].seen
  <2>1. Replied(h) \in Helper /\ Replied(h).at = "idle" /\ Replied(h).seen = helper[h].seen
    BY RepliedFacts DEF MemoryInv, MemoryType
  <2> QED BY <2>1 DEF Helper
<1> HIDE DEF new
<1>8. KindsKept'
  BY <1>6 DEF MemoryInv, KindsKept
<1>9. \A e \in Shown : e \in Row
  BY DEF MemoryInv, MemoryType, Shown, File, Helper
<1>10. MemoryRight'
  <2>1. NotesOf(work) = NotesOf(db) \ Erased(h) /\ PostsOf(work) = PostsOf(db)
    BY <1>5 DEF NotesOf, PostsOf, Erased
  <2>2. Cardinality(NotesOf(work)) <= MaxNotes
    <3>1. Cardinality(NotesOf(work)) <= Cardinality(NotesOf(db)) /\ IsFiniteSet(NotesOf(work))
      BY <2>1, FiniteRows, FS_Subset
    <3>2. Cardinality(NotesOf(work)) \in Nat
      BY <3>1, FS_CardinalityType
    <3> QED BY <3>1, <3>2, FiniteRows, MemoryAssumption DEF MemoryInv, MemoryRight
  <2>3. work.index = {n.id : n \in NotesOf(work)}
    BY <1>5, <2>1 DEF MemoryInv, MemoryRight, Erased
  <2>4. ASSUME NEW e \in told \ doomed' PROVE e \in work.entries
    <3>1. e \in db.entries
      BY <1>6, <2>4 DEF MemoryInv, MemoryRight
    <3>2. e \notin Erased(h)
      <4>1. SUFFICES ASSUME e.id = helper[h].seen.id PROVE FALSE
        BY DEF Erased
      <4>2. e.id # 0 /\ e \in Shown
        BY <3>1, <1>9 DEF Shown, Row
      <4>3. helper[h].seen # NoNote
        BY <4>1, <4>2 DEF NoNote
      <4>4. helper[h].seen \in Shown
        BY <4>3 DEF Shown
      <4>5. e = helper[h].seen
        BY <4>1, <4>2, <4>4 DEF MemoryInv, NumbersKept
      <4> QED BY <1>6, <2>4, <4>5
    <3> QED BY <1>5, <3>1, <3>2
  <2>5. \A p \in posted : p.expires > memClock => p \in work.entries
    BY <1>5 DEF MemoryInv, MemoryRight, KindsKept, Erased, NotesOf
  <2> QED BY <1>1, <1>6, <2>1, <2>2, <2>3, <2>4, <2>5 DEF MemoryInv, MemoryRight
<1>11. IsFiniteSet(work.entries)
  BY <1>5, FiniteRows
<1>12. db.last <= work.last /\ db.last \in Nat
  BY <1>2, <1>5 DEF File
<1>13. \A e \in work.entries \cup told' \cup ({new.seen} \ {NoNote}) : e \in Shown
  BY <1>5, <1>6, <1>7 DEF Shown
<1>14. \A e \in Shown : e.id # db.last + 1
  BY <1>9, <1>12 DEF MemoryInv, NumbersKept, Row
<1>15. \A e, f \in work.entries \cup told' \cup ({new.seen} \ {NoNote}) :
          e.id = db.last + 1 /\ f.id = db.last + 1 => e = f
  BY <1>13, <1>14
<1>16. \A e \in work.entries : e \in db.entries
  BY <1>5
<1>17. told' \subseteq Row /\ posted' \subseteq Row
  BY <1>1, <1>6
<1> QED BY <1>1, <1>5, <1>6, <1>7, <1>8, <1>10, <1>11, <1>12, <1>13, <1>15, <1>16, <1>17, CommitKeeps

\* A committed post takes the place of its author's, and of what had expired
\* when the call began.
LEMMA CommitPostStep ==
    ASSUME MemoryInv, NEW h \in Helpers, Commit(h), helper[h].op = "post"
    PROVE  MemoryInv'
<1> DEFINE row == NewRow(h, "board", helper[h].now + helper[h].ttl)
           gone == {e \in PostsOf(db) : e.author = AuthorLabel(h) \/ e.expires <= helper[h].now}
           new == [Replied(h) EXCEPT !.seen = @]
<1>1. /\ txHolder = h /\ helper[h].at = "commit" /\ db' = work /\ txHolder' = 0 /\ work' = work
      /\ work \in File /\ told \subseteq Row /\ posted \subseteq Row
      /\ UNCHANGED <<memClock, memCalls, msScript>>
  BY CommitFacts
<1>2. db \in File /\ db.wal /\ helper[h].now + helper[h].ttl \in Int
  BY <1>1, HolderFacts
<1>3. /\ row \in Row /\ row.id = db.last + 1 /\ row.kind = "board" /\ row.call = helper[h].call
      /\ row.author = AuthorLabel(h)
  BY <1>1, <1>2, NewRowFacts
<1>4. work = WithRow(Cleared(h), row)
  BY <1>1 DEF MemoryInv, WorkKept, PostPending
<1>5. /\ Cleared(h) \in File /\ Cleared(h).entries = db.entries \ gone
      /\ Cleared(h).index = db.index /\ Cleared(h).wal = db.wal
  BY ClearedFacts
<1>6. /\ work.entries = (db.entries \ gone) \cup {row} /\ work.last = db.last + 1
      /\ work.index = db.index /\ work.wal
  <2> HIDE DEF row, gone
  <2>1. /\ WithRow(Cleared(h), row).entries = Cleared(h).entries \cup {row}
        /\ WithRow(Cleared(h), row).last = row.id
        /\ WithRow(Cleared(h), row).index = Cleared(h).index
        /\ WithRow(Cleared(h), row).wal = Cleared(h).wal
    BY <1>3, <1>5, WithRowFacts
  <2> QED BY <1>2, <1>3, <1>4, <1>5, <2>1
<1>7. RowOf(h) = row
  BY <1>1, <1>2, <1>6, RowOfFacts
<1> HIDE DEF row
<1>8. /\ HelperBecomes(h, new) /\ told' = told /\ doomed' = doomed
      /\ posted' = {p \in posted : p.author # AuthorLabel(h)} \cup {row}
  BY <1>7 DEF Commit
<1>9. new \in Helper /\ new.at = "idle" /\ new.seen = helper[h].seen
  <2>1. Replied(h) \in Helper /\ Replied(h).at = "idle" /\ Replied(h).seen = helper[h].seen
    BY RepliedFacts DEF MemoryInv, MemoryType
  <2> QED BY <2>1 DEF Helper
<1> HIDE DEF new
<1>10. KindsKept'
  BY <1>3, <1>8 DEF MemoryInv, KindsKept
<1>11. helper[h].now <= memClock /\ helper[h].now \in Nat /\ memClock \in Nat
  BY <1>1 DEF MemoryInv, MemoryType, CallsKept, Helper
<1>12. MemoryRight'
  <2>1. NotesOf(work) = NotesOf(db) /\ PostsOf(work) = (PostsOf(db) \ gone) \cup {row}
    BY <1>3, <1>6 DEF NotesOf, PostsOf
  <2>2. \A p, q \in PostsOf(work) : p.author = q.author => p = q
    BY <1>3, <2>1 DEF MemoryInv, MemoryRight
  <2>3. told \ doomed \subseteq work.entries
    BY <1>6 DEF MemoryInv, MemoryRight, KindsKept, PostsOf
  <2>4. ASSUME NEW p \in posted, p.author # AuthorLabel(h), p.expires > memClock
        PROVE  p \in work.entries
    <3>1. p \in db.entries /\ p.expires \in Int
      BY <1>1, <2>4 DEF MemoryInv, MemoryRight, Row
    <3>2. ~(p.expires <= helper[h].now)
      BY <1>11, <2>4, <3>1
    <3> QED BY <1>6, <2>4, <3>1, <3>2
  <2>5. \A p \in posted' : p.expires > memClock => p \in work.entries
    BY <1>6, <1>8, <2>4
  <2> QED BY <1>1, <1>6, <1>8, <2>1, <2>2, <2>3, <2>5 DEF MemoryInv, MemoryRight
<1>13. IsFiniteSet(work.entries)
  BY <1>6, FiniteRows
<1>14. db.last <= work.last /\ db.last \in Nat
  BY <1>2, <1>6 DEF File
<1>15. \A e \in work.entries \cup told' \cup ({new.seen} \ {NoNote}) : e \in Shown \/ e = row
  BY <1>6, <1>8, <1>9 DEF Shown
<1>16. \A e \in Shown : e.id # db.last + 1
  BY <1>14 DEF MemoryInv, MemoryType, NumbersKept, Shown, File, Helper, Row
<1>17. told' \subseteq Row /\ posted' \subseteq Row
  BY <1>1, <1>3, <1>8
<1>18. \A e \in work.entries \cup told' \cup ({new.seen} \ {NoNote}) :
          e \in Shown \/ (e.id = db.last + 1 /\ e.id <= work.last /\ e.call = helper[h].call)
  BY <1>3, <1>6, <1>14, <1>15
<1>19. \A e, f \in work.entries \cup told' \cup ({new.seen} \ {NoNote}) :
          e.id = db.last + 1 /\ f.id = db.last + 1 => e = f
  BY <1>15, <1>16
<1>20. \A e \in work.entries : e \in db.entries \/ e.call = helper[h].call
  BY <1>3, <1>6
<1> QED BY <1>1, <1>6, <1>8, <1>9, <1>10, <1>12, <1>13, <1>14, <1>17, <1>18, <1>19, <1>20, CommitKeeps

----------------------------------------------------------------------------
(* The theorems *)

\* An empty file, opened by everybody or by nobody.
LEMMA MemoryStarts == MSInit => MemoryInv
<1> SUFFICES ASSUME MSInit PROVE MemoryInv
  OBVIOUS
<1> USE DEF MSInit
<1>1. msScript.fresh \in BOOLEAN
  BY ScriptAssumption
<1>2. /\ db \in File /\ db.entries = {} /\ db.index = {} /\ db.last = 0 /\ db.wal = ~msScript.fresh
  BY <1>1 DEF File
<1>3. /\ helper \in [Helpers -> Helper]
      /\ \A h \in Helpers : /\ helper[h].at = "idle" /\ helper[h].seen = NoNote
                            /\ helper[h].store = ~msScript.fresh
  <2>1. [NewHelper EXCEPT !.store = ~msScript.fresh] \in Helper
    <3>1. NewHelper \in Helper
      BY DEF NewHelper, Helper, Spots, Operations
    <3> QED BY <1>1, <3>1 DEF Helper
  <2> QED BY <2>1 DEF NewHelper
<1>4. MemoryType
  BY <1>2, <1>3, FS_EmptySet DEF MemoryType
<1>5. HolderKept /\ JournalKept /\ WorkKept
  BY <1>1, <1>2, <1>3, MemoryAssumption DEF HolderKept, JournalKept, WorkKept, InTransaction
<1>6. NumbersKept /\ CallsKept /\ KindsKept
  BY <1>2, <1>3 DEF NumbersKept, CallsKept, KindsKept, Shown
<1>7. MemoryRight
  <2>1. NotesOf(db) = {} /\ PostsOf(db) = {}
    BY <1>2 DEF NotesOf, PostsOf
  <2>2. Cardinality(NotesOf(db)) <= MaxNotes
    BY <2>1, FS_EmptySet, MemoryAssumption
  <2>3. db.index = {n.id : n \in NotesOf(db)}
    BY <1>2, <2>1
  <2> QED BY <1>2, <2>1, <2>2, <2>3 DEF MemoryRight
<1> QED BY <1>4, <1>5, <1>6, <1>7 DEF MemoryInv

\* MemoryInv is an inductive invariant of the shared memory.
THEOREM MemoryInductive == MSSpec => []MemoryInv
<1>1. MemoryInv /\ [MSNext]_msvars => MemoryInv'
  <2> SUFFICES ASSUME MemoryInv, [MSNext]_msvars PROVE MemoryInv'
    OBVIOUS
  <2>1. CASE MemTick
    BY <2>1, MemTickStep
  <2>2. ASSUME NEW h \in Helpers, HelperStep(h) PROVE MemoryInv'
    <3>1. CASE Statement(h)
      BY <3>1, WriteStep, DeleteStep, PostStep DEF Statement
    <3>2. CASE Commit(h)
      BY <3>2, CommitFacts, CommitWriteStep, CommitDeleteStep, CommitPostStep DEF Writes
    <3> QED
      BY <2>2, <3>1, <3>2, InitializeStep, CallToolStep, EnterWalStep, ReadVersionStep, OutsideSteps,
         SwitchedStep, MigrateStep, BeginStep, FailingSteps DEF HelperStep
  <2>3. CASE UNCHANGED msvars
    <3>1. UNCHANGED <<db, txHolder, work, helper, memClock, memCalls, msScript, told, doomed, posted>>
      BY <2>3 DEF msvars
    <3>2. MemoryType' /\ HolderKept' /\ JournalKept' /\ NumbersKept' /\ CallsKept' /\ KindsKept'
      BY <3>1 DEF MemoryInv, MemoryType, HolderKept, JournalKept, NumbersKept, CallsKept, KindsKept, Shown
    <3>3. WorkKept' /\ MemoryRight'
      BY <3>1, PendingKept DEF MemoryInv, WorkKept, MemoryRight
    <3> QED BY <3>2, <3>3 DEF MemoryInv
  <2> QED BY <2>1, <2>2, <2>3 DEF MSNext
<1> QED BY <1>1, MemoryStarts, PTL DEF MSSpec

\* Saved notes stay until somebody asks to delete them, posts until they
\* expire or are replaced, the limit holds, the index is exact and nobody has
\* two lines on the board: for any number of helpers on one file, each of them
\* failing, giving up or dying at any statement.
THEOREM MemoryIsRight == MSSpec => []MemoryRight
<1>1. MemoryInv => MemoryRight
  BY DEF MemoryInv
<1> QED BY <1>1, MemoryInductive, PTL

----------------------------------------------------------------------------
(* Recovery of a limited agent *)

----------------------------------------------------------------------------
(* The inductive invariant *)

Waiting == {"WaitingForReset", "Backoff"}
Settled == Waiting \cup {"Idle", "Resuming", "NeedsAttention", "Closed"}
Fields == {"gen", "state", "limit", "wait", "attempt", "alive", "age", "ask"}

News == [kind : {"PaneOpened", "PaneOutput", "PaneExited", "UserInput", "PaneClosed"}, gen : Nat]
Values(s) == {s[i] : i \in DOMAIN s}
IsList(s) == s \in Seq(Values(s))

\* A recovery between two messages, whatever limit it is about.
Machine(r) ==
    /\ DOMAIN r = Fields
    /\ r.gen \in Nat /\ r.alive \in BOOLEAN /\ r.age \in Nat
    /\ r.attempt \in 0 .. MaxResumeAttempts

HostType ==
    /\ DOMAIN host = {"gen", "alive", "open", "inbox", "events"}
    /\ host.gen \in Nat /\ host.alive \in BOOLEAN
    /\ host.inbox \in Seq(News)
    /\ IsList(asks) /\ \A a \in Values(asks) : a.gen \in Nat

\* Nobody is ahead of the host, and whoever thinks the host's present process
\* is gone is right.
NewsTrue ==
    /\ \A e \in Values(host.inbox) :
         e.gen =< host.gen /\ (e.kind = "PaneExited" /\ e.gen = host.gen => ~host.alive)
    /\ \A a \in Values(asks) : a.gen =< host.gen /\ (a.gen = host.gen => ~host.alive)
    /\ rec.gen =< host.gen /\ (rec.gen = host.gen /\ ~rec.alive => ~host.alive)

\* A wait, since ticks after its limit was noted and with drift ticks of drift.
WaitTrue(w, since, drift) ==
    /\ w \in [left : Int, lag : Int]
    /\ w.left > 0 \/ w.lag > 0
    /\ w.lag - w.left =< drift
    /\ since >= MinWait \/ since + w.left >= MinWait

WaitsTrue ==
    /\ ghost.since \in Nat /\ clock.drift \in Nat /\ scene.drift \in Nat /\ clock.drift =< scene.drift
    /\ rec.state \in Settled
    /\ rec.state \in Waiting => WaitTrue(rec.wait, ghost.since, clock.drift)
    /\ rec.state = "Resuming" => ghost.since >= MinWait

Budgeted == ghost.blind \in Nat /\ ghost.blind =< rec.attempt /\ ~ghost.early

GhostShape ==
    DOMAIN ghost = {"since", "blind", "early"} /\ DOMAIN clock = {"jumps", "drift", "records"}

RecInv == HostType /\ Machine(rec) /\ NewsTrue /\ WaitsTrue /\ Budgeted /\ GhostShape

----------------------------------------------------------------------------
(* Waits *)

Planned(w) == \E n \in MinWait .. MaxWait : w = [left |-> n, lag |-> n]

\* Two to any power is a natural number.
LEMMA PowerOfTwo == ASSUME NEW n \in Nat PROVE 2 ^ n \in Nat
<1>1. IsFiniteSet(1 .. n) /\ Cardinality(1 .. n) = n
  <2>1. IsFiniteSet(1 .. n) /\ Cardinality(1 .. n) = IF 1 > n THEN 0 ELSE n - 1 + 1
    BY FS_Interval
  <2> QED BY <2>1
<1>2. IsFiniteSet(SUBSET (1 .. n)) /\ Cardinality(SUBSET (1 .. n)) = 2 ^ Cardinality(1 .. n)
  BY <1>1, FS_SUBSET
<1>3. Cardinality(SUBSET (1 .. n)) \in Nat
  BY <1>2, FS_CardinalityType
<1> QED BY <1>1, <1>2, <1>3

LEMMA BackoffPlanned == ASSUME NEW n \in Nat \ {0} PROVE Planned(Backoff(n))
<1> DEFINE doubled == BackoffBase * 2 ^ (n - 1)
           p == IF doubled < MinWait THEN MinWait ELSE IF doubled > BackoffMax THEN BackoffMax ELSE doubled
<1>1. doubled \in Nat
  <2>1. n - 1 \in Nat
    OBVIOUS
  <2>2. 2 ^ (n - 1) \in Nat
    BY <2>1, PowerOfTwo
  <2>3. BackoffBase \in Nat
    BY RecoveryAssumption
  <2> HIDE DEF doubled
  <2>4. \A x \in Nat : BackoffBase * x \in Nat
    BY <2>3
  <2> QED BY <2>2, <2>4 DEF doubled
<1>2. Backoff(n) = WaitFor(p)
  BY DEF Backoff
<1> HIDE DEF doubled
<1>3. p \in MinWait .. MaxWait
  BY <1>1, RecoveryAssumption
<1> HIDE DEF p
<1> QED BY <1>2, <1>3 DEF WaitFor, Planned

LEMMA PlannedTrue ==
    ASSUME NEW w, Planned(w), NEW since \in Nat, NEW drift \in Nat
    PROVE  WaitTrue(w, since, drift) /\ w \in [left : Int, lag : Int] /\ w.left > 0
<1>1. PICK n \in MinWait .. MaxWait : w = [left |-> n, lag |-> n]
  BY DEF Planned
<1>2. n \in Int /\ n > 0 /\ n >= MinWait /\ MinWait \in Nat
  BY RecoveryAssumption
<1> QED BY <1>1, <1>2 DEF WaitTrue

----------------------------------------------------------------------------
(* What the machine's operators leave alone *)

Alike(r, s) ==
    Machine(s) /\ s.gen = r.gen /\ s.alive = r.alive /\ s.attempt = r.attempt /\ s.ask = r.ask

\* The wait was armed, or no further try is allowed.
Armed(s) == s.state = "NeedsAttention" \/ (s.state \in Waiting /\ Planned(s.wait))

LEMMA ArmBackoffFacts ==
    ASSUME NEW r, Machine(r)
    PROVE  Alike(r, ArmBackoff(r)) /\ Armed(ArmBackoff(r)) /\ ArmBackoff(r).limit = r.limit
<1>1. CASE r.attempt >= MaxResumeAttempts
  BY <1>1 DEF ArmBackoff, GoTo, Alike, Machine, Fields, Armed
<1>2. CASE ~(r.attempt >= MaxResumeAttempts)
  <2>1. r.attempt + 1 \in Nat \ {0}
    BY DEF Machine
  <2>2. Planned(Backoff(r.attempt + 1))
    BY <2>1, BackoffPlanned
  <2> QED BY <1>2, <2>2 DEF ArmBackoff, GoTo, Alike, Machine, Fields, Armed, Waiting
<1> QED BY <1>1, <1>2

LEMMA NoteLimitFacts ==
    ASSUME NEW r, Machine(r), NEW limit, NEW planned \in MinWait .. MaxWait
    PROVE  LET s == NoteLimit(r, limit, planned)
           IN /\ Alike(r, s)
              /\ s = r \/ Armed(s)
<1> DEFINE n == [r EXCEPT !.limit = <<limit>>, !.state = "LimitDetected"]
<1>1. Alike(r, n) /\ Machine(n)
  BY DEF Alike, Machine, Fields
<1>2. Alike(n, ArmWait(n, planned)) /\ Armed(ArmWait(n, planned))
  <2>1. CASE n.limit[1].resets # 0
    <3>1. Planned(WaitFor(planned))
      BY DEF Planned, WaitFor
    <3> HIDE DEF n
    <3> QED BY <1>1, <2>1, <3>1 DEF ArmWait, GoTo, Alike, Machine, Fields, Armed, Waiting
  <2>2. CASE ~(n.limit[1].resets # 0)
    <3> HIDE DEF n
    <3> QED BY <1>1, <2>2, ArmBackoffFacts DEF ArmWait
  <2> QED BY <2>1, <2>2
<1>3. NoteLimit(r, limit, planned) = r \/ NoteLimit(r, limit, planned) = ArmWait(n, planned)
  BY DEF NoteLimit
<1>4. Alike(r, r)
  BY DEF Alike
<1> HIDE DEF n
<1> QED BY <1>1, <1>2, <1>3, <1>4 DEF Alike

LEMMA CancelFacts ==
    ASSUME NEW r, Machine(r)
    PROVE  Alike(r, Cancel(r)) /\ Cancel(r).state = "Idle" /\ Cancel(r).limit = <<>>
BY DEF Cancel, GoTo, Alike, Machine, Fields

\* The process is gone and one more try is spent on it, or none is made.
Tried(r, s) ==
    /\ Machine(s) /\ s.gen = r.gen /\ s.alive = r.alive
    /\ \/ s.state \in {"Idle", "NeedsAttention"} /\ s.attempt = r.attempt /\ s.ask = r.ask
       \/ /\ s.state = "Resuming" /\ s.attempt = r.attempt + 1 /\ ~r.alive
          /\ \E id : s.ask = <<[gen |-> r.gen, id |-> id]>>

LEMMA TryResumeFacts == ASSUME NEW r, Machine(r), NEW e PROVE Tried(r, TryResume(r, e))
<1> DEFINE id == ResumeId(r, e)
           spent == GoTo([r EXCEPT !.attempt = @ + 1, !.age = 0,
                                   !.ask = <<[gen |-> r.gen, id |-> id]>>], "Resuming")
<1>1. /\ Machine(GoTo(r, "NeedsAttention")) /\ GoTo(r, "NeedsAttention").gen = r.gen
      /\ GoTo(r, "NeedsAttention").alive = r.alive /\ GoTo(r, "NeedsAttention").attempt = r.attempt
      /\ GoTo(r, "NeedsAttention").ask = r.ask /\ GoTo(r, "NeedsAttention").state = "NeedsAttention"
  BY DEF GoTo, Machine, Fields
<1>2. ASSUME r.attempt < MaxResumeAttempts
      PROVE  /\ Machine(spent) /\ spent.gen = r.gen /\ spent.alive = r.alive
             /\ spent.attempt = r.attempt + 1 /\ spent.state = "Resuming"
             /\ spent.ask = <<[gen |-> r.gen, id |-> id]>>
  <2>1. r.attempt + 1 \in 0 .. MaxResumeAttempts
    BY <1>2, RecoveryAssumption DEF Machine
  <2> HIDE DEF id
  <2> QED BY <2>1 DEF GoTo, Machine, Fields
<1>3. /\ Machine(Cancel(r)) /\ Cancel(r).gen = r.gen /\ Cancel(r).alive = r.alive
      /\ Cancel(r).attempt = r.attempt /\ Cancel(r).ask = r.ask /\ Cancel(r).state = "Idle"
  BY CancelFacts DEF Alike
<1>4. \/ TryResume(r, e) = Cancel(r)
      \/ TryResume(r, e) = GoTo(r, "NeedsAttention")
      \/ TryResume(r, e) = spent /\ r.attempt < MaxResumeAttempts /\ ~r.alive
  <2>1. r.attempt \in Nat /\ MaxResumeAttempts \in Nat
    BY RecoveryAssumption DEF Machine
  <2> QED BY <2>1 DEF TryResume, SpendAttempt
<1> HIDE DEF spent, id
<1> QED BY <1>1, <1>2, <1>3, <1>4 DEF Tried

LEMMA PolledTrue ==
    ASSUME NEW w, NEW since \in Nat, NEW drift \in Nat, WaitTrue(w, since, drift),
           NEW d \in {0, 1}, NEW jump \in Jumps,
           NEW since2 \in Nat, since2 = since + d \/ (since2 = since /\ since >= MaxWait),
           NEW drift2 \in Nat, drift2 >= IF jump = -1 THEN drift + 1 ELSE drift
    PROVE  LET v == Polled(w, d, jump)
           IN IF Elapsed(v) THEN since2 >= MinWait ELSE WaitTrue(v, since2, drift2)
<1> DEFINE v == Polled(w, d, jump)
<1>1. w.left \in Int /\ w.lag \in Int /\ MinWait \in Nat /\ MaxWait \in Nat /\ MinWait =< MaxWait
      /\ JumpTolerance \in Nat
  BY RecoveryAssumption DEF WaitTrue
<1>2. /\ v \in [left : Int, lag : Int] /\ v.left = w.left - d
      /\ v.lag = w.lag - d \/ (jump = -1 /\ v.lag = w.lag - d + 1)
  BY <1>1 DEF Polled, Jumps
<1> HIDE DEF v
<1>a. /\ v.left \in Int /\ v.lag \in Int /\ d \in Int /\ d >= 0
      /\ drift2 >= drift /\ (jump = -1 => drift2 >= drift + 1)
      /\ w.lag - w.left =< drift /\ (since >= MinWait \/ since + w.left >= MinWait)
  BY <1>2 DEF WaitTrue
<1>3. v.lag - v.left =< drift2
  BY <1>1, <1>2, <1>a
<1>4. since2 >= MinWait \/ since2 + v.left >= MinWait
  BY <1>1, <1>2, <1>a
<1>5. CASE Elapsed(v)
  <2>1. since2 >= MinWait
    BY <1>1, <1>2, <1>4, <1>5 DEF Elapsed
  <2> QED BY <1>5, <2>1 DEF v
<1>6. CASE ~Elapsed(v)
  <2>1. WaitTrue(v, since2, drift2)
    BY <1>a, <1>2, <1>3, <1>4, <1>6 DEF Elapsed, WaitTrue
  <2> QED BY <1>6, <2>1 DEF v
<1> QED BY <1>5, <1>6 DEF v

\* What the waiting half of the invariant says of a recovery.
Sound(r, since, drift) ==
    /\ r.state \in Settled
    /\ r.state \in Waiting => WaitTrue(r.wait, since, drift)
    /\ r.state = "Resuming" => since >= MinWait

\* A tick asks for a relaunch only when the wait is over and the process gone.
Ticked(r, s, since, drift) ==
    /\ Machine(s) /\ s.gen = r.gen /\ s.alive = r.alive /\ Sound(s, since, drift)
    /\ \/ s.ask = <<>> /\ s.attempt = r.attempt
       \/ /\ s.attempt = r.attempt + 1 /\ ~r.alive /\ since >= MinWait
          /\ \E id : s.ask = <<[gen |-> r.gen, id |-> id]>>

LEMMA TickFacts ==
    ASSUME NEW r, Machine(r), r.ask = <<>>, NEW e, NEW since \in Nat, NEW drift \in Nat,
           Sound(r, since, drift), NEW d \in {0, 1}, NEW jump \in Jumps,
           NEW since2 \in Nat, since2 = since + d \/ (since2 = since /\ since >= MaxWait),
           NEW drift2 \in Nat, drift2 >= IF jump = -1 THEN drift + 1 ELSE drift
    PROVE  Ticked(r, MachineTick(r, e, d, jump), since2, drift2)
<1> DEFINE w == Polled(r.wait, d, jump)
           s == MachineTick(r, e, d, jump)
           ready == GoTo([r EXCEPT !.wait = NoWait], "ReadyToResume")
<1>0. MinWait \in Nat /\ MaxWait \in Nat /\ MinWait =< MaxWait
  BY RecoveryAssumption
<1>1. CASE r.state \in Waiting
  <2>1. IF Elapsed(w) THEN since2 >= MinWait ELSE WaitTrue(w, since2, drift2)
    BY <1>1, PolledTrue DEF Sound
  <2>2. CASE Elapsed(w)
    <3>a. ready.state = "ReadyToResume"
      BY DEF GoTo, Machine, Fields
    <3>1. s = TryResume(ready, e)
      <4> HIDE DEF ready
      <4>1. r.state = "WaitingForReset" \/ r.state = "Backoff"
        BY <1>1 DEF Waiting
      <4>2. CASE r.state = "WaitingForReset"
        BY <2>2, <3>a, <4>2 DEF MachineTick, ready, Waiting
      <4>3. CASE r.state = "Backoff"
        BY <2>2, <3>a, <4>3 DEF MachineTick, ready, Waiting
      <4> QED BY <4>1, <4>2, <4>3
    <3>2. Machine(ready) /\ ready.gen = r.gen /\ ready.alive = r.alive /\ ready.attempt = r.attempt
          /\ ready.ask = r.ask
      BY DEF GoTo, Machine, Fields
    <3> HIDE DEF w, s, ready
    <3>3. /\ Machine(s) /\ s.gen = r.gen /\ s.alive = r.alive
          /\ \/ s.state \in {"Idle", "NeedsAttention"} /\ s.attempt = r.attempt /\ s.ask = <<>>
             \/ /\ s.state = "Resuming" /\ s.attempt = r.attempt + 1 /\ ~r.alive
                /\ \E id : s.ask = <<[gen |-> r.gen, id |-> id]>>
      <4>1. Tried(ready, s)
        BY <3>1, <3>2, TryResumeFacts
      <4> QED BY <3>2, <4>1 DEF Tried
    <3>4. since2 >= MinWait
      BY <2>1, <2>2
    <3> QED BY <3>3, <3>4 DEF Ticked, Sound, Settled, Waiting, s
  <2>3. CASE ~Elapsed(w)
    <3>1. s = [r EXCEPT !.wait = w]
      BY <1>1, <2>3 DEF MachineTick, Waiting, Machine, Fields
    <3>2. WaitTrue(w, since2, drift2)
      BY <2>1, <2>3
    <3> HIDE DEF w, s, ready
    <3>3. /\ Machine(s) /\ s.gen = r.gen /\ s.alive = r.alive /\ s.ask = <<>>
          /\ s.attempt = r.attempt /\ s.state = r.state /\ s.wait = w
      BY <3>1 DEF Machine, Fields
    <3> QED BY <1>1, <3>2, <3>3 DEF Ticked, Sound, Settled, Waiting, s
  <2> QED BY <2>2, <2>3
<1>2. CASE r.state = "Resuming"
  <2>1. since2 >= MinWait
    BY <1>0, <1>2 DEF Sound
  <2>2. CASE r.age + d >= ResumeConfirm
    <3>1. Alike(r, ArmBackoff(r)) /\ Armed(ArmBackoff(r))
      BY ArmBackoffFacts
    <3>2. s = ArmBackoff(r)
      <4>1. ArmBackoff(r).state # "ReadyToResume"
        BY <3>1 DEF Armed, Waiting
      <4> QED BY <1>2, <2>2, <4>1 DEF MachineTick
    <3> HIDE DEF s
    <3>3. s.state \in Waiting => WaitTrue(s.wait, since2, drift2)
      BY <3>1, <3>2, PlannedTrue DEF Armed, Waiting
    <3> QED BY <3>1, <3>2, <3>3 DEF Ticked, Sound, Settled, Waiting, Armed, Alike, s
  <2>3. CASE ~(r.age + d >= ResumeConfirm)
    <3>1. s = [r EXCEPT !.age = r.age + d]
      BY <1>2, <2>3 DEF MachineTick, Machine, Fields
    <3> HIDE DEF s
    <3>2. /\ Machine(s) /\ s.gen = r.gen /\ s.alive = r.alive /\ s.ask = <<>>
          /\ s.attempt = r.attempt /\ s.state = r.state
      BY <3>1 DEF Machine, Fields
    <3> QED BY <1>2, <2>1, <3>2 DEF Ticked, Sound, Settled, Waiting, s
  <2> QED BY <2>2, <2>3
<1>3. CASE r.state \in Settled \ (Waiting \cup {"Resuming"})
  <2>1. s = r
    BY <1>3 DEF MachineTick, Settled, Waiting
  <2> HIDE DEF s
  <2> QED BY <1>3, <2>1 DEF Ticked, Sound, s
<1> QED BY <1>1, <1>2, <1>3 DEF Sound

LEMMA EventFacts ==
    ASSUME NEW r, Machine(r), NEW e \in News
    PROVE  LET s == [OnEvent(r, e) EXCEPT !.ask = <<>>]
           IN /\ Machine(s) /\ s.gen = e.gen /\ s.ask = <<>>
              /\ ~s.alive => e.kind = "PaneExited" \/ (e.gen = r.gen /\ ~r.alive)
              /\ \/ s.attempt = r.attempt
                 \/ /\ s.attempt = 0
                    /\ \/ e.kind \in {"UserInput", "PaneClosed"}
                       \/ r.state = "Resuming" /\ e.gen # r.gen /\ r.limit # <<>> /\ r.limit[1].resets # 0
              /\ s.state = "Idle" \/ (s.state = r.state /\ s.wait = r.wait /\ s.limit = r.limit)
<1> DEFINE n == [r EXCEPT !.gen = e.gen, !.alive = TRUE]
           moved == IF e.gen = r.gen THEN r
                    ELSE IF r.state = "Resuming" THEN ConfirmResume(n) ELSE Cancel(n)
<1>0. e.gen \in Nat /\ 0 \in 0 .. MaxResumeAttempts
  BY RecoveryAssumption DEF News
<1>1. /\ Machine(n) /\ n.gen = e.gen /\ n.alive = TRUE /\ n.attempt = r.attempt /\ n.limit = r.limit
  BY <1>0 DEF Machine, Fields
<1>2. /\ Machine(Cancel(n)) /\ Cancel(n).gen = e.gen /\ Cancel(n).alive = TRUE
      /\ Cancel(n).attempt = r.attempt /\ Cancel(n).state = "Idle"
  <2> HIDE DEF n
  <2> QED BY <1>1, CancelFacts DEF Alike
<1>3. /\ Machine(ConfirmResume(n)) /\ ConfirmResume(n).gen = e.gen /\ ConfirmResume(n).alive = TRUE
      /\ ConfirmResume(n).state = "Idle"
      /\ \/ ConfirmResume(n).attempt = r.attempt
         \/ ConfirmResume(n).attempt = 0 /\ r.limit # <<>> /\ r.limit[1].resets # 0
  <2> HIDE DEF n
  <2> DEFINE c == Cancel(n)
  <2>1. ConfirmResume(n) = [c EXCEPT !.attempt = IF n.limit # <<>> /\ n.limit[1].resets # 0 THEN 0 ELSE @]
    BY DEF ConfirmResume
  <2> HIDE DEF c
  <2>2. Machine(c) /\ c.gen = e.gen /\ c.alive = TRUE /\ c.attempt = r.attempt /\ c.state = "Idle"
    BY <1>2 DEF c
  <2> QED BY <1>0, <1>1, <2>1, <2>2 DEF Machine, Fields
<1>4. /\ Machine(moved) /\ moved.gen = e.gen
      /\ ~moved.alive => e.gen = r.gen /\ ~r.alive
      /\ \/ moved.attempt = r.attempt
         \/ /\ moved.attempt = 0
            /\ r.state = "Resuming" /\ e.gen # r.gen /\ r.limit # <<>> /\ r.limit[1].resets # 0
      /\ moved.state = "Idle" \/ (moved.state = r.state /\ moved.wait = r.wait /\ moved.limit = r.limit)
  <2> HIDE DEF n
  <2>1. CASE e.gen = r.gen
    BY <2>1
  <2>2. CASE e.gen # r.gen /\ r.state = "Resuming"
    BY <1>3, <2>2
  <2>3. CASE e.gen # r.gen /\ r.state # "Resuming"
    BY <1>2, <2>3
  <2> QED BY <2>1, <2>2, <2>3
<1>5. \/ OnEvent(r, e) = moved /\ e.kind \notin {"PaneExited"}
      \/ OnEvent(r, e) = [moved EXCEPT !.alive = TRUE]
      \/ OnEvent(r, e) = [moved EXCEPT !.alive = FALSE] /\ e.kind = "PaneExited"
      \/ /\ OnEvent(r, e) = Cancel([moved EXCEPT !.attempt = 0])
         /\ e.kind \in {"UserInput", "PaneClosed"}
  BY Zenon DEF OnEvent
<1> HIDE DEF moved
<1>6. CASE OnEvent(r, e) = Cancel([moved EXCEPT !.attempt = 0]) /\ e.kind \in {"UserInput", "PaneClosed"}
  <2> DEFINE z == [moved EXCEPT !.attempt = 0]
  <2>1. Machine(z) /\ z.gen = e.gen /\ z.alive = moved.alive /\ z.attempt = 0
    BY <1>0, <1>4 DEF Machine, Fields
  <2> HIDE DEF z
  <2>2. /\ Machine(Cancel(z)) /\ Cancel(z).gen = e.gen /\ Cancel(z).alive = moved.alive
        /\ Cancel(z).attempt = 0 /\ Cancel(z).state = "Idle"
    BY <2>1, CancelFacts DEF Alike
  <2> QED BY <1>4, <1>6, <2>2 DEF Machine, Fields, z
<1>7. CASE OnEvent(r, e) = moved /\ e.kind \notin {"PaneExited"}
  BY <1>4, <1>7 DEF Machine, Fields
<1>8. CASE OnEvent(r, e) = [moved EXCEPT !.alive = TRUE]
  BY <1>4, <1>8 DEF Machine, Fields
<1>9. CASE OnEvent(r, e) = [moved EXCEPT !.alive = FALSE] /\ e.kind = "PaneExited"
  BY <1>4, <1>9 DEF Machine, Fields
<1> QED BY <1>5, <1>6, <1>7, <1>8, <1>9

----------------------------------------------------------------------------
(* Messages on their way *)

LEMMA ListOf == ASSUME NEW S, NEW s \in Seq(S) PROVE IsList(s) /\ Values(s) \subseteq S
<1>1. Len(s) \in Nat /\ DOMAIN s = 1 .. Len(s) /\ \A i \in 1 .. Len(s) : s[i] \in S
  OBVIOUS
<1>2. s \in [1 .. Len(s) -> Values(s)]
  BY <1>1 DEF Values
<1>3. s \in Seq(Values(s))
  BY <1>1, <1>2
<1>4. Values(s) \subseteq S
  BY <1>1 DEF Values
<1> QED BY <1>3, <1>4 DEF IsList

LEMMA TailOf ==
    ASSUME NEW S, NEW s \in Seq(S), s # <<>>
    PROVE  /\ Tail(s) \in Seq(S) /\ Head(s) \in Values(s) /\ Head(s) \in S
           /\ Values(Tail(s)) \subseteq Values(s) /\ IsList(Tail(s))
<1>1. Tail(s) \in Seq(S) /\ Len(Tail(s)) = Len(s) - 1 /\ Len(s) \in Nat \ {0}
  OBVIOUS
<1>2. \A i \in 1 .. Len(Tail(s)) : Tail(s)[i] = s[i + 1] /\ i + 1 \in 1 .. Len(s)
  BY <1>1
<1>3. Values(Tail(s)) \subseteq Values(s)
  BY <1>1, <1>2 DEF Values
<1>4. Head(s) = s[1] /\ 1 \in DOMAIN s
  BY <1>1
<1>5. Tail(s) \in Seq(Values(Tail(s)))
  BY <1>1, ListOf DEF IsList
<1> QED BY <1>1, <1>3, <1>4, <1>5 DEF Values, IsList

LEMMA OneMoreOf ==
    ASSUME NEW S, NEW s \in Seq(S), NEW x
    PROVE  /\ Values(s \o <<x>>) = Values(s) \cup {x} /\ IsList(s \o <<x>>)
           /\ Append(s, x) = s \o <<x>>
<1> DEFINE t == s \o <<x>>
<1>1. s \in Seq(S \cup {x}) /\ <<x>> \in Seq(S \cup {x})
  OBVIOUS
<1>2. /\ t \in Seq(S \cup {x}) /\ Len(t) = Len(s) + 1 /\ Len(s) \in Nat
      /\ \A i \in 1 .. Len(s) : t[i] = s[i]
      /\ t[Len(s) + 1] = x
  BY <1>1
<1>3. Append(s, x) = t
  BY <1>1
<1> HIDE DEF t
<1>4. DOMAIN t = DOMAIN s \cup {Len(s) + 1} /\ DOMAIN s = 1 .. Len(s)
  BY <1>2
<1>5. Values(t) = Values(s) \cup {x}
  BY <1>2, <1>4 DEF Values
<1>6. IsList(t)
  BY <1>2, ListOf
<1> QED BY <1>3, <1>5, <1>6 DEF t

----------------------------------------------------------------------------
(* Every step keeps the invariant. *)

LEMMA RecInit == RInit => RecInv
<1> SUFFICES ASSUME RInit PROVE RecInv
  OBVIOUS
<1>1. /\ host = [gen |-> 1, alive |-> TRUE, open |-> TRUE, inbox |-> <<>>, events |-> 0]
      /\ asks = <<>> /\ rec = NewRecovery(1) /\ scene \in Scenes
      /\ clock = [jumps |-> 0, drift |-> 0, records |-> 0]
      /\ ghost = [since |-> 0, blind |-> 0, early |-> FALSE]
  BY DEF RInit
<1>2. Values(<<>>) = {} /\ <<>> \in Seq(News) /\ <<>> \in Seq({})
  BY DEF Values
<1>3. HostType /\ NewsTrue /\ GhostShape
  BY <1>1, <1>2 DEF HostType, NewsTrue, GhostShape, IsList, NewRecovery
<1>4. scene.drift \in Nat /\ MaxResumeAttempts \in Nat
  BY <1>1, RecoveryAssumption
<1>5. Machine(rec) /\ WaitsTrue /\ Budgeted
  BY <1>1, <1>4 DEF Machine, Fields, NewRecovery, WaitsTrue, Settled, Waiting, Budgeted
<1> QED BY <1>3, <1>5 DEF RecInv

LEMMA ReportKeeps == ASSUME RecInv, HostReports PROVE RecInv'
<1>1. PICK kind \in {"PaneOutput", "PaneExited", "UserInput", "PaneClosed"} :
        /\ kind = "PaneExited" => host.alive
        /\ host' = [host EXCEPT !.events = @ + 1, !.alive = @ /\ kind # "PaneExited",
                                !.open = kind # "PaneClosed",
                                !.inbox = Append(@, HEvent(kind, host.gen))]
  BY DEF HostReports, Report
<1> DEFINE e == HEvent(kind, host.gen)
<1>2. e \in News /\ e.gen = host.gen /\ e.kind = kind
  BY DEF HEvent, News, RecInv, HostType
<1> HIDE DEF e
<1>3. /\ DOMAIN host' = DOMAIN host /\ host'.gen = host.gen /\ host'.inbox = Append(host.inbox, e)
      /\ host'.alive = (host.alive /\ kind # "PaneExited")
  BY <1>1 DEF RecInv, HostType, e
<1>4. host'.inbox \in Seq(News) /\ Values(host'.inbox) = Values(host.inbox) \cup {e}
  <2>1. host.inbox \in Seq(News)
    BY DEF RecInv, HostType
  <2>2. Append(host.inbox, e) \in Seq(News)
    BY <1>2, <1>3, <2>1
  <2>3. Values(Append(host.inbox, e)) = Values(host.inbox) \cup {e}
    BY <2>1, OneMoreOf
  <2> QED BY <1>2, <1>3, <2>2, <2>3
<1>5. UNCHANGED <<asks, rec, clock, ghost, scene>>
  BY DEF HostReports
<1>6. HostType'
  BY <1>1, <1>3, <1>4, <1>5 DEF RecInv, HostType
<1>7. NewsTrue'
  <2>1. (host'.alive => host.alive) /\ (kind = "PaneExited" => ~host'.alive)
    BY <1>3
  <2> QED BY <1>2, <1>3, <1>4, <1>5, <2>1 DEF RecInv, NewsTrue, HostType
<1> QED BY <1>5, <1>6, <1>7 DEF RecInv, WaitsTrue, Budgeted, GhostShape

LEMMA SpawnKeeps ==
    ASSUME RecInv, ~host.alive, Spawn, UNCHANGED <<rec, clock, ghost, scene>>,
           asks' = asks \/ (asks # <<>> /\ asks' = Tail(asks))
    PROVE  RecInv'
<1> DEFINE e == HEvent("PaneOpened", host.gen + 1)
<1>1. e \in News /\ e.gen = host.gen + 1 /\ e.kind = "PaneOpened"
  BY DEF HEvent, News, RecInv, HostType
<1> HIDE DEF e
<1>2. /\ DOMAIN host' = DOMAIN host /\ host'.gen = host.gen + 1 /\ host'.alive = TRUE
      /\ host'.inbox = Append(host.inbox, e)
  BY DEF Spawn, RecInv, HostType, e
<1>3. host'.inbox \in Seq(News) /\ Values(host'.inbox) = Values(host.inbox) \cup {e}
  <2>1. host.inbox \in Seq(News)
    BY DEF RecInv, HostType
  <2>2. Append(host.inbox, e) \in Seq(News)
    BY <1>1, <1>2, <2>1
  <2>3. Values(Append(host.inbox, e)) = Values(host.inbox) \cup {e}
    BY <2>1, OneMoreOf
  <2> QED BY <1>1, <1>2, <2>2, <2>3
<1>4. Values(asks') \subseteq Values(asks) /\ IsList(asks')
  BY TailOf DEF RecInv, HostType, IsList
<1>5. \A f \in Values(host.inbox) : f.gen \in Nat
  <2>1. Values(host.inbox) \subseteq News
    BY ListOf DEF RecInv, HostType
  <2> QED BY <2>1 DEF News
<1>6. HostType'
  <2>1. host'.gen \in Nat /\ host'.alive \in BOOLEAN
    <3>1. host.gen \in Nat
      BY DEF RecInv, HostType
    <3>2. host'.gen \in Nat
      BY <1>2, <3>1
    <3> QED BY <1>2, <3>2
  <2>2. \A a \in Values(asks') : a.gen \in Nat
    BY <1>4 DEF RecInv, HostType
  <2> QED BY <1>2, <1>3, <1>4, <2>1, <2>2 DEF RecInv, HostType
<1>7. NewsTrue'
  BY <1>1, <1>2, <1>3, <1>4, <1>5 DEF RecInv, NewsTrue, HostType, Machine
<1> QED BY <1>6, <1>7 DEF RecInv, WaitsTrue, Budgeted, GhostShape

\* Steps of the providers, and a message wait that ran out.
LEMMA AsideKeeps ==
    ASSUME RecInv, RolloutGrows \/ StatusChanges \/ TimesOut PROVE RecInv'
<1>1. UNCHANGED <<scene, host, asks, rec, ghost>>
  BY DEF RolloutGrows, StatusChanges, TimesOut
<1>2. DOMAIN clock' = DOMAIN clock /\ clock'.drift = clock.drift
  BY DEF RolloutGrows, StatusChanges, TimesOut, RecInv, GhostShape
<1> QED BY <1>1, <1>2 DEF RecInv, HostType, NewsTrue, WaitsTrue, Budgeted, GhostShape

LEMMA HostKeeps == ASSUME RecInv, HostRespawns \/ HostJudges PROVE RecInv'
<1>1. CASE HostRespawns
  BY <1>1, SpawnKeeps DEF HostRespawns
<1>2. CASE HostJudges /\ Spawn /\ ~host.alive
  BY <1>2, SpawnKeeps DEF HostJudges
<1>3. CASE HostJudges /\ UNCHANGED <<host, rolls, fresh, status>>
  <2>1. Values(asks') \subseteq Values(asks) /\ IsList(asks')
    BY <1>3, TailOf DEF HostJudges, RecInv, HostType, IsList
  <2> QED BY <1>3, <2>1 DEF HostJudges, RecInv, HostType, NewsTrue, WaitsTrue, Budgeted, GhostShape
<1> QED BY <1>1, <1>2, <1>3 DEF HostJudges

\* on_host_event: the plugin hears what the host said.
LEMMA HandlesKeeps == ASSUME RecInv, HandlesEvent PROVE RecInv'
<1> DEFINE ev == Head(host.inbox)
           r == [OnEvent(rec, ev) EXCEPT !.ask = <<>>]
           limit == IF ev.kind = "PaneOutput" THEN OutputLimit(Watched(eye, r.gen)) ELSE <<>>
<1>1. /\ ev \in News /\ ev \in Values(host.inbox) /\ Tail(host.inbox) \in Seq(News)
      /\ Values(Tail(host.inbox)) \subseteq Values(host.inbox)
  BY TailOf DEF HandlesEvent, RecInv, HostType
<1>2. /\ host' = [host EXCEPT !.inbox = Tail(@)] /\ UNCHANGED <<scene, asks, clock>>
  BY DEF HandlesEvent
<1>3. /\ DOMAIN host' = DOMAIN host /\ host'.gen = host.gen /\ host'.alive = host.alive
      /\ host'.inbox = Tail(host.inbox)
  BY <1>2 DEF RecInv, HostType
<1>4. HostType'
  BY <1>1, <1>2, <1>3 DEF RecInv, HostType
<1>5. CASE ev.gen < rec.gen
  <2>1. UNCHANGED <<rec, ghost>>
    BY <1>5 DEF HandlesEvent
  <2> QED BY <1>1, <1>2, <1>3, <1>4, <2>1 DEF RecInv, NewsTrue, WaitsTrue, Budgeted, GhostShape
<1>6. CASE ~(ev.gen < rec.gen)
  <2>1. PICK planned \in MinWait .. MaxWait :
          rec' = IF limit # <<>> THEN NoteLimit(r, limit[1], planned)
                 ELSE IF ev.kind = "PaneClosed" THEN GoTo(r, "Closed") ELSE r
    BY <1>6, Zenon DEF HandlesEvent
  <2>2. ghost' = [ghost EXCEPT
                     !.since = IF rec'.limit # rec.limit THEN 0 ELSE @,
                     !.blind = IF ev.kind \in {"UserInput", "PaneClosed"} \/ Refunds(ev)
                               THEN 0 ELSE @]
    BY <1>6, Zenon DEF HandlesEvent
  <2>3. /\ Machine(r) /\ r.gen = ev.gen /\ r.ask = <<>>
        /\ ~r.alive => ev.kind = "PaneExited" \/ (ev.gen = rec.gen /\ ~rec.alive)
        /\ r.attempt = rec.attempt
           \/ (r.attempt = 0 /\ (ev.kind \in {"UserInput", "PaneClosed"} \/ Refunds(ev)))
        /\ r.state = "Idle" \/ (r.state = rec.state /\ r.wait = rec.wait /\ r.limit = rec.limit)
    <3> HIDE DEF ev
    <3> QED BY <1>1, EventFacts DEF RecInv, Refunds
  <2> HIDE DEF ev, r, limit
  <2>4. /\ Machine(rec') /\ rec'.gen = r.gen /\ rec'.alive = r.alive /\ rec'.attempt = r.attempt
        /\ rec' = r \/ rec'.state = "Closed" \/ Armed(rec')
    <3>1. CASE limit # <<>>
      <4>1. Alike(r, rec') /\ (rec' = r \/ Armed(rec'))
        BY <2>1, <2>3, <3>1, NoteLimitFacts
      <4> QED BY <4>1 DEF Alike
    <3>2. CASE limit = <<>> /\ ev.kind = "PaneClosed"
      <4>1. rec' = GoTo(r, "Closed")
        BY <2>1, <3>2
      <4> QED BY <2>3, <4>1 DEF GoTo, Machine, Fields
    <3>3. CASE limit = <<>> /\ ev.kind # "PaneClosed"
      BY <2>1, <2>3, <3>3
    <3> QED BY <3>1, <3>2, <3>3
  <2>5. /\ DOMAIN ghost' = DOMAIN ghost /\ ghost'.early = ghost.early
        /\ ghost'.since = (IF rec'.limit # rec.limit THEN 0 ELSE ghost.since)
        /\ ghost'.blind = IF ev.kind \in {"UserInput", "PaneClosed"} \/ Refunds(ev)
                          THEN 0 ELSE ghost.blind
    BY <2>2 DEF RecInv, GhostShape
  <2>6. NewsTrue'
    <3>1. ev.gen \in Nat /\ rec.gen \in Nat /\ ev.gen =< host.gen
          /\ (ev.kind = "PaneExited" /\ ev.gen = host.gen => ~host.alive)
      BY <1>1 DEF RecInv, NewsTrue, Machine, News
    <3>2. rec'.gen =< host.gen /\ (rec'.gen = host.gen /\ ~rec'.alive => ~host.alive)
      BY <2>3, <2>4, <3>1 DEF RecInv, NewsTrue
    <3> QED BY <1>1, <1>2, <1>3, <3>2 DEF RecInv, NewsTrue
  <2>7. WaitsTrue'
    <3>1. ghost'.since \in Nat /\ clock.drift \in Nat /\ ghost.since \in Nat
      BY <2>5 DEF RecInv, WaitsTrue
    <3>2. CASE Armed(rec')
      <4>1. rec'.state \in Waiting => WaitTrue(rec'.wait, ghost'.since, clock.drift)
        BY <3>1, <3>2, PlannedTrue DEF Armed, Waiting
      <4> QED BY <1>2, <3>1, <3>2, <4>1 DEF RecInv, WaitsTrue, Armed, Settled, Waiting
    <3>3. CASE rec'.state \in {"Closed", "Idle"}
      BY <1>2, <3>1, <3>3 DEF RecInv, WaitsTrue, Settled, Waiting
    <3>4. CASE rec' = r /\ r.state = rec.state /\ r.wait = rec.wait /\ r.limit = rec.limit
      <4>1. ghost'.since = ghost.since
        BY <2>5, <3>4
      <4> QED BY <1>2, <3>4, <4>1 DEF RecInv, WaitsTrue
    <3> QED BY <2>3, <2>4, <3>2, <3>3, <3>4
  <2>8. Budgeted'
    BY <2>3, <2>4, <2>5 DEF RecInv, Budgeted, Machine
  <2> QED BY <1>2, <1>4, <2>4, <2>5, <2>6, <2>7, <2>8 DEF RecInv, GhostShape
<1> QED BY <1>5, <1>6

LEMMA TicksKeeps == ASSUME RecInv, LoopTicks PROVE RecInv'
<1>1. PICK d \in {0, 1}, jump \in Jumps, f \in SUBSET fresh, planned \in MinWait .. MaxWait :
        /\ Strays(jump)
        /\ \E p \in PollAdapter(Watched(eye, rec.gen), f) : Advances(p, d, jump, planned)
  BY Zenon DEF LoopTicks
<1>p. PICK p : Advances(p, d, jump, planned)
  BY <1>1, Zenon
<1> DEFINE noted == IF p.limit = <<>> THEN rec ELSE NoteLimit(rec, p.limit[1], planned)
           new == noted.limit # rec.limit
           from == [noted EXCEPT !.ask = <<>>]
           dd == IF new THEN 0 ELSE d
           jj == IF new THEN 0 ELSE jump
           since == IF new THEN 0 ELSE ghost.since
           since2 == IF new THEN 0
                     ELSE IF ghost.since < MaxWait THEN ghost.since + d ELSE ghost.since
<1>2. /\ rec' = MachineTick(from, p.eye, dd, jj) /\ asks' = asks \o rec'.ask
      /\ ghost' = [since |-> since2,
                   blind |-> IF rec'.ask # <<>> /\ rec'.limit[1].resets = 0
                             THEN ghost.blind + 1 ELSE ghost.blind,
                   early |-> ghost.early \/ (rec'.ask # <<>> /\ since2 < MinWait)]
  BY <1>p DEF Advances
<1>3. UNCHANGED <<scene, host>>
  BY DEF LoopTicks
<1>4. /\ DOMAIN clock' = DOMAIN clock /\ clock'.drift \in Nat /\ clock'.drift =< scene.drift
      /\ clock'.drift >= IF jump = -1 THEN clock.drift + 1 ELSE clock.drift
  <2>1. /\ DOMAIN clock' = DOMAIN clock
        /\ clock'.drift = IF jump = -1 THEN clock.drift + 1 ELSE clock.drift
        /\ jump = -1 => clock.drift < scene.drift
    BY <1>1 DEF Strays, RecInv, GhostShape
  <2> QED BY <2>1 DEF RecInv, WaitsTrue
<1>5. Alike(rec, noted) /\ (noted = rec \/ Armed(noted))
  <2>1. Alike(rec, rec)
    BY DEF RecInv, Alike
  <2> QED BY <2>1, NoteLimitFacts DEF RecInv
<1>6. /\ ghost.since \in Nat /\ clock.drift \in Nat /\ since \in Nat /\ since2 \in Nat
      /\ dd \in {0, 1} /\ jj \in Jumps /\ 0 \in Jumps
      /\ since2 = since + dd \/ (since2 = since /\ since >= MaxWait)
      /\ clock'.drift >= IF jj = -1 THEN clock.drift + 1 ELSE clock.drift
  <2>1. ghost.since \in Nat /\ clock.drift \in Nat /\ MaxWait \in Nat /\ 0 \in Jumps
    BY RecoveryAssumption DEF RecInv, WaitsTrue, Jumps
  <2>2. CASE new
    BY <1>4, <2>1, <2>2
  <2>3. CASE ~new
    <3> HIDE DEF new
    <3> QED BY <1>4, <2>1, <2>3
  <2> QED BY <2>2, <2>3
<1>7. /\ Machine(from) /\ from.ask = <<>> /\ from.gen = rec.gen /\ from.alive = rec.alive
      /\ from.attempt = rec.attempt /\ from.state = noted.state /\ from.wait = noted.wait
  <2> HIDE DEF noted
  <2> QED BY <1>5 DEF Alike, Machine, Fields
<1>8. Sound(from, since, clock.drift)
  <2>1. CASE noted = rec
    <3>1. since = ghost.since
      BY <2>1
    <3> HIDE DEF noted, from, since
    <3> QED BY <1>7, <2>1, <3>1 DEF RecInv, WaitsTrue, Sound
  <2>2. CASE Armed(noted)
    <3> HIDE DEF noted, from, since
    <3>1. noted.state \in Waiting => WaitTrue(noted.wait, since, clock.drift)
      BY <1>6, <2>2, PlannedTrue DEF Armed, Waiting
    <3> QED BY <1>7, <2>2, <3>1 DEF Sound, Armed, Settled, Waiting
  <2> QED BY <1>5, <2>1, <2>2
<1> HIDE DEF noted, new, from, dd, jj, since, since2
<1>9. /\ Machine(rec') /\ rec'.gen = rec.gen /\ rec'.alive = rec.alive
      /\ Sound(rec', since2, clock'.drift)
      /\ \/ rec'.ask = <<>> /\ rec'.attempt = rec.attempt
         \/ /\ rec'.attempt = rec.attempt + 1 /\ ~rec.alive /\ since2 >= MinWait
            /\ \E id : rec'.ask = <<[gen |-> rec.gen, id |-> id]>>
  <2>1. Ticked(from, rec', since2, clock'.drift)
    BY <1>2, <1>4, <1>6, <1>7, <1>8, TickFacts
  <2> QED BY <1>7, <2>1 DEF Ticked
<1>10. /\ IsList(asks') /\ (\A a \in Values(asks') : a.gen \in Nat)
       /\ \A a \in Values(asks') : a \in Values(asks) \/ (a.gen = rec.gen /\ ~rec.alive)
  <2>1. CASE rec'.ask = <<>>
    <3>1. asks' = asks
      BY <1>2, <2>1 DEF RecInv, HostType, IsList
    <3> QED BY <3>1 DEF RecInv, HostType
  <2>2. CASE ~rec.alive /\ \E id : rec'.ask = <<[gen |-> rec.gen, id |-> id]>>
    <3>1. PICK id : rec'.ask = <<[gen |-> rec.gen, id |-> id]>>
      BY <2>2
    <3> DEFINE a == [gen |-> rec.gen, id |-> id]
    <3>2. a.gen = rec.gen /\ rec.gen \in Nat
      BY DEF RecInv, Machine
    <3>3. asks' = asks \o <<a>>
      BY <1>2, <3>1
    <3> HIDE DEF a
    <3>4. Values(asks') = Values(asks) \cup {a} /\ IsList(asks')
      BY <3>3, OneMoreOf DEF RecInv, HostType, IsList
    <3> QED BY <2>2, <3>2, <3>4 DEF RecInv, HostType
  <2> QED BY <1>9, <2>1, <2>2
<1>11. HostType' /\ NewsTrue'
  BY <1>3, <1>9, <1>10 DEF RecInv, HostType, NewsTrue
<1>12. ghost'.since = since2 /\ DOMAIN ghost' = {"since", "blind", "early"}
       /\ ghost'.blind = (IF rec'.ask # <<>> /\ rec'.limit[1].resets = 0
                          THEN ghost.blind + 1 ELSE ghost.blind)
       /\ ghost'.early = (ghost.early \/ (rec'.ask # <<>> /\ since2 < MinWait))
  BY <1>2
<1>13. WaitsTrue'
  BY <1>3, <1>4, <1>6, <1>9, <1>12 DEF RecInv, WaitsTrue, Sound
<1>14. Budgeted'
  <2>1. MinWait \in Nat
    BY RecoveryAssumption
  <2>2. rec'.ask # <<>> => since2 >= MinWait /\ rec'.attempt = rec.attempt + 1
    BY <1>9
  <2>3. ~ghost'.early
    <3>1. ~(rec'.ask # <<>> /\ since2 < MinWait)
      BY <1>6, <2>1, <2>2
    <3>2. ~ghost.early
      BY DEF RecInv, Budgeted
    <3> QED BY <1>12, <3>1, <3>2, Zenon
  <2> QED BY <1>9, <1>12, <2>2, <2>3 DEF RecInv, Budgeted, Machine
<1> QED BY <1>4, <1>9, <1>11, <1>12, <1>13, <1>14 DEF RecInv, GhostShape

\* The recovery's bookkeeping agrees with the host's and with both clocks
\* after every step (plugins/nightcrow-recovery state*.rs, wait.rs).
THEOREM RecoveryInductive ==
    /\ RInit => RecInv
    /\ RecInv /\ [RNext]_rvars => RecInv'
<1>1. ASSUME RecInv, UNCHANGED rvars PROVE RecInv'
  BY <1>1 DEF rvars, RecInv, HostType, NewsTrue, WaitsTrue, Budgeted, GhostShape
<1>2. ASSUME RecInv, RNext PROVE RecInv'
  BY <1>2, ReportKeeps, HostKeeps, AsideKeeps, HandlesKeeps, TicksKeeps DEF RNext
<1> QED BY <1>1, <1>2, RecInit

\* The plugin never asks to relaunch over a live process, never early, never
\* past its budget and never waits longer than the drift it cannot see, for
\* any budget, waits, tolerance and provider (state*.rs, wait.rs).
THEOREM RecoveryIsRight == RSpec => []RecoveryRight
<1>1. RecInv => RecoveryRight
  <2> SUFFICES ASSUME RecInv PROVE RecoveryRight
    OBVIOUS
  <2>1. \A i \in DOMAIN asks : asks[i].gen = host.gen => ~host.alive
    BY DEF RecInv, NewsTrue, Values
  <2>2. ~ghost.early /\ ghost.blind <= MaxResumeAttempts
    BY RecoveryAssumption DEF RecInv, Budgeted, Machine
  <2>3. rec.state \in Waiting => rec.wait.left > -scene.drift - 1
    BY DEF RecInv, WaitsTrue, WaitTrue
  <2> QED BY <2>1, <2>2, <2>3 DEF RecoveryRight, Waiting
<1> QED BY <1>1, RecoveryInductive, PTL DEF RSpec

==============================================================================
