--------------------------- MODULE SizeOwnerProofs ---------------------------
(***************************************************************************)
(* Who sizes the panes, and whose resizes reach them, for any number of    *)
(* viewers, connections, panes and sizes, any grace, any pattern of full   *)
(* queues and any order of the three locks' critical sections.             *)
(***************************************************************************)
EXTENDS ResizeQueue, FiniteSetTheorems, TLAPS

\* A connection id that has not been handed out is registered to nobody.
Fresh == \A c \in Connections : c >= next_connection => announce[c] = NoViewer

\* The inductive invariant: leave's decrement needs the count to be exact, a
\* successor is a present viewer only because the lists hold exactly those.
IInv == TypeOK /\ Fresh /\ PresenceConsistent /\ OwnerAccounted

----------------------------------------------------------------------------
(* Lists of viewers *)

\* Retain keeps a list a list, drops exactly one viewer and repeats nothing.
LEMMA RetainFacts ==
    ASSUME NEW list \in Seq(Viewers), NEW v, NoRepeats(list)
    PROVE  /\ Retain(list, v) \in Seq(Viewers)
           /\ Entries(Retain(list, v)) = Entries(list) \ {v}
           /\ NoRepeats(Retain(list, v))
<1>1. CASE ~ \E i \in 1 .. Len(list) : list[i] = v
  BY <1>1 DEF Retain, Entries
<1>2. CASE \E i \in 1 .. Len(list) : list[i] = v
  <2> DEFINE at == CHOOSE i \in 1 .. Len(list) : list[i] = v
             new == [k \in 1 .. (Len(list) - 1) |-> IF k < at THEN list[k] ELSE list[k + 1]]
  <2>1. at \in 1 .. Len(list) /\ list[at] = v
    BY <1>2
  <2>2. Retain(list, v) = new
    BY <1>2 DEF Retain
  <2>3. Len(list) \in Nat /\ Len(list) >= 1
    BY <2>1
  <2> HIDE DEF at
  <2>4. \A k \in 1 .. (Len(list) - 1) : new[k] \in Viewers
    BY <2>1, <2>3
  <2>5. new \in Seq(Viewers) /\ Len(new) = Len(list) - 1
    BY <2>3, <2>4
  <2>6. NoRepeats(new)
    BY <2>1, <2>3, <2>5 DEF NoRepeats
  <2>7. Entries(new) \subseteq Entries(list) \ {v}
    BY <2>1, <2>3, <2>5 DEF NoRepeats, Entries
  <2>8. ASSUME NEW x \in Entries(list) \ {v}
        PROVE  x \in Entries(new)
    <3>1. PICK i \in 1 .. Len(list) : list[i] = x
      BY DEF Entries
    <3>2. CASE i < at
      <4>1. i \in 1 .. (Len(list) - 1) /\ new[i] = x
        BY <3>1, <3>2, <2>1, <2>3
      <4> QED BY <4>1, <2>5 DEF Entries
    <3>3. CASE ~(i < at)
      <4>1. (i - 1) \in 1 .. (Len(list) - 1) /\ new[i - 1] = x
        BY <3>1, <3>3, <2>1, <2>3
      <4> QED BY <4>1, <2>5 DEF Entries
    <3> QED BY <3>2, <3>3
  <2> QED BY <2>2, <2>5, <2>6, <2>7, <2>8
<1> QED BY <1>1, <1>2

\* Appending a viewer that is not in a list adds exactly that viewer.
LEMMA AppendFacts ==
    ASSUME NEW list \in Seq(Viewers), NEW v \in Viewers, NoRepeats(list),
           v \notin Entries(list)
    PROVE  /\ Append(list, v) \in Seq(Viewers)
           /\ Entries(Append(list, v)) = Entries(list) \cup {v}
           /\ NoRepeats(Append(list, v))
<1>1. Len(Append(list, v)) = Len(list) + 1 /\ Len(list) \in Nat
  OBVIOUS
<1>2. \A i \in 1 .. Len(list) : Append(list, v)[i] = list[i]
  OBVIOUS
<1>3. Append(list, v)[Len(list) + 1] = v
  OBVIOUS
<1>4. Entries(Append(list, v)) = Entries(list) \cup {v}
  BY <1>1, <1>2, <1>3 DEF Entries
<1>5. NoRepeats(Append(list, v))
  BY <1>1, <1>2, <1>3 DEF Entries, NoRepeats
<1> QED BY <1>4, <1>5

\* Marking a viewer active adds it if needed and makes it the newest.
LEMMA MarkActiveFacts ==
    ASSUME NEW list \in Seq(Viewers), NEW v \in Viewers, NoRepeats(list)
    PROVE  /\ MarkActive(list, v) \in Seq(Viewers)
           /\ Entries(MarkActive(list, v)) = Entries(list) \cup {v}
           /\ NoRepeats(MarkActive(list, v))
BY RetainFacts, AppendFacts DEF MarkActive

\* The newest entry of a non-empty list is one of its entries.
LEMMA NewestFacts ==
    ASSUME NEW list \in Seq(Viewers), list # <<>>
    PROVE  Newest(list) \in Entries(list) /\ Newest(list) \in Viewers
<1>1. Len(list) \in 1 .. Len(list)
  OBVIOUS
<1> QED BY <1>1 DEF Newest, Entries

----------------------------------------------------------------------------
(* Who the sizing passes to *)

\* After an expiry the sizing is with a viewer that is present, or with nobody
\* and then nobody is present; without one nothing changes.
LEMMA SuccessorFacts ==
    ASSUME IInv
    PROVE  /\ Successor \in Viewers \cup {NoViewer}
           /\ Successor = NoViewer => \A v \in Viewers : present[v] = 0
           /\ Expired => Successor = NoViewer \/ present[Successor] > 0
           /\ AbsentAfterExpiry \in {NotAbsent} \cup (0 .. Grace)
           /\ AbsentAfterExpiry # NotAbsent
                <=> (Successor # NoViewer /\ present[Successor] = 0)
<1>1. CASE ~Expired
  BY <1>1, ViewerAssumption DEF IInv, TypeOK, OwnerAccounted, Successor, AbsentAfterExpiry
<1>2. CASE Expired
  <2>1. AbsentAfterExpiry = NotAbsent
    BY <1>2 DEF AbsentAfterExpiry
  <2>2. CASE activity # <<>>
    <3>1. Successor = Newest(activity)
      BY <1>2, <2>2 DEF Successor
    <3>2. Successor \in Entries(activity) /\ Successor \in Viewers
      BY <3>1, <2>2, NewestFacts DEF IInv, TypeOK
    <3>3. present[Successor] > 0
      BY <3>2 DEF IInv, PresenceConsistent
    <3> QED BY <3>2, <3>3, <2>1, ViewerAssumption
  <2>3. CASE activity = <<>> /\ arrival # <<>>
    <3>1. Successor = Newest(arrival)
      BY <1>2, <2>3 DEF Successor
    <3>2. Successor \in Entries(arrival) /\ Successor \in Viewers
      BY <3>1, <2>3, NewestFacts DEF IInv, TypeOK
    <3>3. present[Successor] > 0
      BY <3>2 DEF IInv, PresenceConsistent
    <3> QED BY <3>2, <3>3, <2>1, ViewerAssumption
  <2>4. CASE activity = <<>> /\ arrival = <<>>
    <3>1. Successor = NoViewer
      BY <1>2, <2>4 DEF Successor
    <3>2. Entries(arrival) = {}
      BY <2>4 DEF Entries
    <3>3. \A v \in Viewers : present[v] = 0
      BY <3>2 DEF IInv, PresenceConsistent, TypeOK
    <3> QED BY <3>1, <3>3, <2>1
  <2> QED BY <2>2, <2>3, <2>4
<1> QED BY <1>1, <1>2

----------------------------------------------------------------------------
(* Counting connections *)

\* Connections are finite, so every set of them has a size.
LEMMA ConnectionsFinite ==
    /\ IsFiniteSet(Connections)
    /\ \A S : S \subseteq Connections => IsFiniteSet(S) /\ Cardinality(S) \in Nat
<1>1. IsFiniteSet(Connections)
  BY FS_Interval, BoundAssumption DEF Connections
<1> QED BY <1>1, FS_Subset, FS_CardinalityType

\* A viewer's registered connections, read from any announce map.
Held(map, v) == {c \in Connections : map[c] = v}

\* Registering a free connection adds one to its viewer's count and to no
\* other's.
LEMMA CountAfterRegister ==
    ASSUME announce \in [Connections -> Viewers \cup {NoViewer}],
           NEW c \in Connections, announce[c] = NoViewer, NEW v \in Viewers
    PROVE  \A u \in Viewers :
              Cardinality(Held([announce EXCEPT ![c] = v], u))
                = Cardinality(Held(announce, u)) + (IF u = v THEN 1 ELSE 0)
<1> SUFFICES ASSUME NEW u \in Viewers
             PROVE  Cardinality(Held([announce EXCEPT ![c] = v], u))
                      = Cardinality(Held(announce, u)) + (IF u = v THEN 1 ELSE 0)
  OBVIOUS
<1>1. IsFiniteSet(Held(announce, u)) /\ Cardinality(Held(announce, u)) \in Nat
  BY ConnectionsFinite DEF Held
<1>2. CASE u = v
  <2>1. Held([announce EXCEPT ![c] = v], u) = Held(announce, u) \cup {c}
    BY <1>2 DEF Held
  <2>2. c \notin Held(announce, u)
    BY ViewerAssumption DEF Held
  <2> QED BY <2>1, <2>2, <1>1, <1>2, FS_AddElement
<1>3. CASE u # v
  <2>1. Held([announce EXCEPT ![c] = v], u) = Held(announce, u)
    BY <1>3, ViewerAssumption DEF Held
  <2> QED BY <2>1, <1>1, <1>3
<1> QED BY <1>2, <1>3

\* Unregistering a connection takes one from its viewer's count.
LEMMA CountAfterUnregister ==
    ASSUME announce \in [Connections -> Viewers \cup {NoViewer}],
           NEW c \in Connections, announce[c] # NoViewer
    PROVE  \A u \in Viewers :
              /\ Cardinality(Held([announce EXCEPT ![c] = NoViewer], u))
                   = Cardinality(Held(announce, u)) - (IF u = announce[c] THEN 1 ELSE 0)
              /\ u = announce[c] => Cardinality(Held(announce, u)) >= 1
<1> SUFFICES ASSUME NEW u \in Viewers
             PROVE
              /\ Cardinality(Held([announce EXCEPT ![c] = NoViewer], u))
                   = Cardinality(Held(announce, u)) - (IF u = announce[c] THEN 1 ELSE 0)
              /\ u = announce[c] => Cardinality(Held(announce, u)) >= 1
  OBVIOUS
<1>1. IsFiniteSet(Held(announce, u)) /\ Cardinality(Held(announce, u)) \in Nat
  BY ConnectionsFinite DEF Held
<1>2. CASE u = announce[c]
  <2>1. Held([announce EXCEPT ![c] = NoViewer], u) = Held(announce, u) \ {c}
    BY <1>2, ViewerAssumption DEF Held
  <2>2. c \in Held(announce, u)
    BY <1>2 DEF Held
  <2>3. Cardinality(Held(announce, u) \ {c}) = Cardinality(Held(announce, u)) - 1
    BY <2>2, <1>1, FS_RemoveElement
  <2>4. Cardinality(Held(announce, u) \ {c}) \in Nat
    BY <1>1, ConnectionsFinite DEF Held
  <2>5. Cardinality(Held(announce, u)) >= 1
    BY <2>3, <2>4, <1>1
  <2>6. Cardinality(Held([announce EXCEPT ![c] = NoViewer], u))
          = Cardinality(Held(announce, u)) - 1
    BY <2>1, <2>3, Zenon
  <2> QED BY <2>5, <2>6, <1>2
<1>3. CASE u # announce[c]
  <2>1. Held([announce EXCEPT ![c] = NoViewer], u) = Held(announce, u)
    BY <1>3, ViewerAssumption DEF Held
  <2> QED BY <2>1, <1>1, <1>3
<1> QED BY <1>2, <1>3

----------------------------------------------------------------------------
(* Each step keeps the invariant *)

\* The counts of PresenceConsistent in terms of Held.
LEMMA HeldIsConnectionsOf == \A v : ConnectionsOf(v) = Held(announce, v)
BY DEF ConnectionsOf, Held

\* Tell writes verdicts and nothing else.
LEMMA TellType ==
    ASSUME NEW t \in [Connections -> Verdicts], NEW to, NEW owned \in BOOLEAN, NEW full
    PROVE  Tell(t, to, owned, full) \in [Connections -> Verdicts]
BY DEF Tell, Verdicts

\* What an expiry sends and the generation it leaves have their types.
LEMMA ExpiryType ==
    ASSUME IInv, NEW full
    PROVE  /\ ToldAfterExpiry(full) \in [Connections -> Verdicts]
           /\ GenerationAfterExpiry \in Nat
<1>1. Tell(told, ConnectionsOf(Successor), TRUE, full) \in [Connections -> Verdicts]
  BY TellType DEF IInv, TypeOK
<1>2. ToldAfterExpiry(full) \in [Connections -> Verdicts]
  BY <1>1 DEF IInv, TypeOK, ToldAfterExpiry
<1>3. GenerationAfterExpiry \in Nat
  BY DEF IInv, TypeOK, GenerationAfterExpiry
<1> QED BY <1>2, <1>3

\* A new connection is counted, listed and, if nobody owned the sizing, owner.
LEMMA JoinStep ==
    ASSUME IInv, NEW v \in Viewers, NEW full, Join(v, full)
    PROVE  IInv'
<1> DEFINE c == next_connection
<1> USE DEF Join
<1>1. c \in Connections /\ announce[c] = NoViewer
  BY BoundAssumption DEF IInv, TypeOK, Fresh, Connections
<1>2. \A u \in Viewers : present'[u] = present[u] + (IF u = v THEN 1 ELSE 0)
  BY DEF IInv, TypeOK
<1>3. \A u \in Viewers : present'[u] = Cardinality(ConnectionsOf(u)')
  <2>1. \A u \in Viewers : ConnectionsOf(u)' = Held([announce EXCEPT ![c] = v], u)
    BY DEF ConnectionsOf, Held
  <2>2. \A u \in Viewers : present[u] = Cardinality(Held(announce, u))
    BY HeldIsConnectionsOf DEF IInv, PresenceConsistent
  <2>3. \A u \in Viewers : Cardinality(Held([announce EXCEPT ![c] = v], u))
                = Cardinality(Held(announce, u)) + (IF u = v THEN 1 ELSE 0)
    BY <1>1, CountAfterRegister DEF IInv, TypeOK
  <2> HIDE DEF Join, c
  <2> QED BY <1>2, <2>1, <2>2, <2>3
<1>4. /\ arrival' \in Seq(Viewers) /\ NoRepeats(arrival')
      /\ Entries(arrival') = Entries(arrival) \cup {v}
  BY AppendFacts DEF IInv, TypeOK, PresenceConsistent
<1>5. Entries(arrival') = {u \in Viewers : present'[u] > 0}
  BY <1>2, <1>4 DEF IInv, TypeOK, PresenceConsistent
<1>6. /\ activity' \in Seq(Viewers) /\ NoRepeats(activity')
      /\ Entries(activity') \subseteq Entries(activity) \cup {v}
  BY MarkActiveFacts DEF IInv, TypeOK, PresenceConsistent
<1>7. PresenceConsistent'
  BY <1>3, <1>4, <1>5, <1>6 DEF IInv, PresenceConsistent
<1>8. OwnerAccounted'
  BY <1>2, SuccessorFacts, ViewerAssumption
     DEF IInv, TypeOK, OwnerAccounted, Bootstraps, AbsentAfterJoin
<1>9. Fresh'
  BY <1>1 DEF IInv, TypeOK, Fresh, Connections
<1>10. TypeOK'
  <2>1. told' \in [Connections -> Verdicts]
    BY ExpiryType, TellType
  <2>2. generation' \in Nat /\ moves' \in Nat
    BY ExpiryType DEF IInv, TypeOK, MovesTo
  <2>3. owner' \in Viewers \cup {NoViewer} /\ absent' \in {NotAbsent} \cup (0 .. Grace)
    BY SuccessorFacts DEF AbsentAfterJoin
  <2>4. present' \in [Viewers -> Nat]
    BY DEF IInv, TypeOK
  <2>5. /\ announce' \in [Connections -> Viewers \cup {NoViewer}]
        /\ next_connection' \in 0 .. MaxConnections
    BY <1>1, BoundAssumption DEF IInv, TypeOK, Connections
  <2> QED BY <1>4, <1>6, <2>1, <2>2, <2>3, <2>4, <2>5 DEF TypeOK
<1> QED BY <1>7, <1>8, <1>9, <1>10 DEF IInv

\* A departure is counted, and starts the grace exactly for the last
\* connection of the owner.
LEMMA LeaveStep ==
    ASSUME IInv, NEW c \in Connections, Leave(c)
    PROVE  IInv'
<1> DEFINE v == announce[c]
<1> USE DEF Leave
<1>1. v \in Viewers
  BY DEF IInv, TypeOK
<1>2. \A u \in Viewers : present'[u] = present[u] - (IF u = v THEN 1 ELSE 0)
  BY <1>1 DEF IInv, TypeOK
<1>3. \A u \in Viewers : present[u] = Cardinality(Held(announce, u))
  BY HeldIsConnectionsOf DEF IInv, PresenceConsistent
<1>4. present[v] >= 1
  BY <1>1, <1>3, CountAfterUnregister DEF IInv, TypeOK
<1>5. \A u \in Viewers : present'[u] = Cardinality(ConnectionsOf(u)')
  <2>1. \A u \in Viewers : ConnectionsOf(u)' = Held([announce EXCEPT ![c] = NoViewer], u)
    BY DEF ConnectionsOf, Held
  <2>2. \A u \in Viewers : Cardinality(Held([announce EXCEPT ![c] = NoViewer], u))
                = Cardinality(Held(announce, u)) - (IF u = v THEN 1 ELSE 0)
    BY CountAfterUnregister DEF IInv, TypeOK
  <2> HIDE DEF Leave, v
  <2> QED BY <1>2, <1>3, <2>1, <2>2
<1>6. /\ arrival' \in Seq(Viewers) /\ NoRepeats(arrival')
      /\ Entries(arrival') = IF present[v] = 1 THEN Entries(arrival) \ {v} ELSE Entries(arrival)
  BY RetainFacts DEF IInv, TypeOK, PresenceConsistent
<1>7. Entries(arrival') = {u \in Viewers : present'[u] > 0}
  BY <1>1, <1>2, <1>4, <1>6 DEF IInv, TypeOK, PresenceConsistent
<1>8. /\ activity' \in Seq(Viewers) /\ NoRepeats(activity')
      /\ Entries(activity') = IF present[v] = 1 THEN Entries(activity) \ {v} ELSE Entries(activity)
  BY RetainFacts DEF IInv, TypeOK, PresenceConsistent, ActivityAfterLeave
<1>9. PresenceConsistent'
  BY <1>5, <1>6, <1>7, <1>8 DEF IInv, PresenceConsistent
<1>10. OwnerAccounted'
  BY <1>1, <1>2, <1>4, ViewerAssumption
     DEF IInv, TypeOK, OwnerAccounted, AbsentAfterLeave, NotAbsent
<1>11. TypeOK'
  <2>1. present' \in [Viewers -> Nat]
    BY <1>1, <1>4 DEF IInv, TypeOK
  <2>2. told' \in [Connections -> Verdicts]
    BY DEF IInv, TypeOK, Verdicts
  <2>3. absent' \in {NotAbsent} \cup (0 .. Grace)
    BY BoundAssumption DEF IInv, TypeOK, AbsentAfterLeave
  <2> QED BY <1>6, <1>8, <2>1, <2>2, <2>3 DEF IInv, TypeOK
<1>12. Fresh'
  BY DEF IInv, TypeOK, Fresh
<1> QED BY <1>9, <1>10, <1>11, <1>12 DEF IInv

\* A claim moves the sizing to a viewer that is present.
LEMMA ClaimStep ==
    ASSUME IInv, NEW c \in Connections, NEW full, Claim(c, full)
    PROVE  IInv'
<1> DEFINE v == announce[c]
<1> USE DEF Claim
<1>1. v \in Viewers \cup {NoViewer}
  BY DEF IInv, TypeOK
<1>2. v # NoViewer => present[v] >= 1 /\ v \in Entries(arrival)
  <2> SUFFICES ASSUME v # NoViewer PROVE present[v] >= 1 /\ v \in Entries(arrival)
    OBVIOUS
  <2>1. present[v] = Cardinality(Held(announce, v)) /\ v \in Viewers
    BY <1>1, HeldIsConnectionsOf DEF IInv, PresenceConsistent
  <2>2. present[v] >= 1
    BY <2>1, CountAfterUnregister DEF IInv, TypeOK
  <2> QED BY <2>1, <2>2 DEF IInv, PresenceConsistent, TypeOK
<1>3. /\ activity' \in Seq(Viewers) /\ NoRepeats(activity')
      /\ Entries(activity') \subseteq Entries(arrival)
  <2>1. CASE v = NoViewer
    BY <2>1 DEF IInv, TypeOK, PresenceConsistent
  <2>2. CASE v # NoViewer
    <3>1. v \in Viewers /\ activity' = MarkActive(activity, v)
      BY <1>1, <2>2
    <3> HIDE DEF Claim, v
    <3>2. activity \in Seq(Viewers) /\ NoRepeats(activity)
      BY DEF IInv, TypeOK, PresenceConsistent
    <3>3. /\ MarkActive(activity, v) \in Seq(Viewers)
          /\ Entries(MarkActive(activity, v)) = Entries(activity) \cup {v}
          /\ NoRepeats(MarkActive(activity, v))
      BY <3>1, <3>2, MarkActiveFacts, Zenon
    <3> QED BY <3>1, <3>3, <1>2, <2>2 DEF IInv, PresenceConsistent
  <2> QED BY <2>1, <2>2
<1>4. PresenceConsistent'
  BY <1>3 DEF IInv, PresenceConsistent, ConnectionsOf
<1>5. OwnerAccounted'
  BY <1>1, <1>2, SuccessorFacts, ViewerAssumption DEF IInv, TypeOK, OwnerAccounted
<1>6. TypeOK'
  <2>1. told' \in [Connections -> Verdicts]
    BY ExpiryType, TellType DEF ToldAfterTake
  <2>2. generation' \in Nat /\ moves' \in Nat
    <3>1. generation' = GenerationAfterExpiry \/ generation' = GenerationAfterExpiry + 1
      BY ExpiryType
    <3>2. MovesTo(owner')
      OBVIOUS
    <3> HIDE DEF Claim
    <3>3. moves' \in Nat
      BY <3>2 DEF MovesTo, IInv, TypeOK
    <3> QED BY <3>1, <3>3, ExpiryType
  <2>3. owner' \in Viewers \cup {NoViewer} /\ absent' \in {NotAbsent} \cup (0 .. Grace)
    BY <1>1, SuccessorFacts
  <2> QED BY <1>3, <2>1, <2>2, <2>3 DEF IInv, TypeOK
<1>7. Fresh'
  BY DEF IInv, Fresh
<1> QED BY <1>4, <1>5, <1>6, <1>7 DEF IInv

\* An expiry hands the sizing to a viewer that is present, or to nobody.
LEMMA SettleStep ==
    ASSUME IInv, NEW full, Settle(full)
    PROVE  IInv'
<1> USE DEF Settle
<1>1. OwnerAccounted'
  BY SuccessorFacts DEF OwnerAccounted
<1>2. TypeOK'
  BY SuccessorFacts, ExpiryType DEF IInv, TypeOK, MovesTo
<1>3. PresenceConsistent' /\ Fresh'
  BY DEF IInv, PresenceConsistent, ConnectionsOf, Fresh
<1> QED BY <1>1, <1>2, <1>3 DEF IInv

\* Time passes without starting or ending a grace.
LEMMA TickStep ==
    ASSUME IInv, Tick
    PROVE  IInv'
<1> USE DEF Tick
<1>1. TypeOK' /\ OwnerAccounted'
  BY BoundAssumption DEF IInv, TypeOK, OwnerAccounted, NotAbsent
<1>2. PresenceConsistent' /\ Fresh'
  BY DEF IInv, PresenceConsistent, ConnectionsOf, Fresh
<1> QED BY <1>1, <1>2 DEF IInv

----------------------------------------------------------------------------
(* What connections were told *)

\* What a registered connection may have been told last, under a given map of
\* connections to viewers and a given owner.
Fits(map, to, c, verdict) ==
    map[c] # NoViewer =>
        verdict \in {"missed", IF map[c] = to THEN "owned" ELSE "released"}

\* VerdictCurrent, connection by connection.
LEMMA VerdictIsFit ==
    VerdictCurrent <=> \A c \in Connections : Fits(announce, owner, c, told[c])
BY DEF VerdictCurrent, Fits, Owns

\* A registered connection's viewer is present.
LEMMA HolderIsPresent ==
    ASSUME IInv, NEW c \in Connections, announce[c] # NoViewer
    PROVE  announce[c] \in Viewers /\ present[announce[c]] > 0
<1>1. announce[c] \in Viewers
  BY DEF IInv, TypeOK
<1>2. Cardinality(Held(announce, announce[c])) >= 1
  BY <1>1, CountAfterUnregister DEF IInv, TypeOK
<1>3. present[announce[c]] = Cardinality(Held(announce, announce[c]))
  BY <1>1, HeldIsConnectionsOf DEF IInv, PresenceConsistent
<1>4. present[announce[c]] \in Nat
  BY <1>1 DEF IInv, TypeOK
<1> QED BY <1>1, <1>2, <1>3, <1>4

\* An expiry tells the connections of the viewer the sizing passes to; those
\* of the viewer it left are gone, so what everyone was told is true again.
LEMMA ExpiryFits ==
    ASSUME IInv, VerdictCurrent, NEW full, NEW c \in Connections
    PROVE  Fits(announce, Successor, c, ToldAfterExpiry(full)[c])
<1>1. Fits(announce, owner, c, told[c])
  BY VerdictIsFit
<1>2. CASE ~Expired
  BY <1>1, <1>2 DEF Successor, ToldAfterExpiry
<1>3. CASE Expired /\ announce[c] # NoViewer
  <2>1. announce[c] # owner
    BY <1>3, HolderIsPresent DEF Expired, IInv, OwnerAccounted
  <2>2. Successor # NoViewer
    BY <1>3, HolderIsPresent, SuccessorFacts
  <2>3. ToldAfterExpiry(full) = Tell(told, ConnectionsOf(Successor), TRUE, full)
    BY <1>3, <2>2 DEF ToldAfterExpiry
  <2>4. c \in ConnectionsOf(Successor) <=> announce[c] = Successor
    BY DEF ConnectionsOf
  <2>5. CASE announce[c] = Successor
    BY <2>3, <2>4, <2>5 DEF Tell, Fits
  <2>6. CASE announce[c] # Successor
    <3>1. ToldAfterExpiry(full)[c] = told[c]
      BY <2>3, <2>4, <2>6 DEF Tell
    <3> QED BY <1>1, <2>1, <2>6, <3>1 DEF Fits
  <2> QED BY <2>5, <2>6
<1>4. CASE announce[c] = NoViewer
  BY <1>4 DEF Fits
<1> QED BY <1>2, <1>3, <1>4

\* A new connection is told how things stand; a bootstrap has no displaced
\* owner to tell, because nobody was connected.
LEMMA JoinVerdicts ==
    ASSUME IInv, VerdictCurrent, NEW v \in Viewers, NEW full, Join(v, full)
    PROVE  VerdictCurrent'
<1> DEFINE n == next_connection
           sent == ToldAfterExpiry(full)
           to == IF Bootstraps THEN ConnectionsOf(v) \cup {n} ELSE {n}
<1>1. n \in Connections
  BY BoundAssumption DEF Join, IInv, TypeOK, Connections
<1>2. /\ announce' = [announce EXCEPT ![n] = v]
      /\ owner' = IF Bootstraps THEN v ELSE Successor
      /\ told' = Tell(sent, to, owner' = v, full)
  BY DEF Join
<1>3. announce \in [Connections -> Viewers \cup {NoViewer}]
  BY DEF IInv, TypeOK
<1> SUFFICES ASSUME NEW c \in Connections
             PROVE  Fits(announce', owner', c, told'[c])
  BY DEF VerdictCurrent, Fits, Owns
<1>4. CASE c = n
  <2>1. told'[c] \in {"missed", IF owner' = v THEN "owned" ELSE "released"}
    BY <1>2, <1>4 DEF Tell
  <2>2. announce'[c] = v
    BY <1>1, <1>2, <1>3, <1>4
  <2> QED BY <2>1, <2>2 DEF Fits
<1>5. CASE c # n /\ announce[c] # NoViewer
  <2>1. announce'[c] = announce[c]
    BY <1>2, <1>3, <1>5
  <2>2. ~Bootstraps
    BY <1>5, HolderIsPresent, SuccessorFacts DEF Bootstraps
  <2>3. owner' = Successor /\ told'[c] = sent[c]
    BY <1>2, <1>5, <2>2 DEF Tell
  <2>4. Fits(announce, Successor, c, sent[c])
    BY ExpiryFits
  <2> QED BY <2>1, <2>3, <2>4 DEF Fits
<1>6. CASE c # n /\ announce[c] = NoViewer
  BY <1>2, <1>3, <1>6 DEF Fits
<1> QED BY <1>4, <1>5, <1>6

\* A claim tells the claiming viewer's connections and the displaced one's;
\* one that changes nothing tells the connection that asked.
LEMMA ClaimVerdicts ==
    ASSUME IInv, VerdictCurrent, NEW a \in Connections, NEW full, Claim(a, full)
    PROVE  VerdictCurrent'
<1> DEFINE v == announce[a]
           sent == ToldAfterExpiry(full)
           takes == v # NoViewer /\ Successor # v
<1>1. /\ announce' = announce
      /\ owner' = IF takes THEN v ELSE Successor
      /\ told' = IF takes THEN ToldAfterTake(sent, v, full)
                 ELSE IF v # NoViewer THEN Tell(sent, {a}, TRUE, full) ELSE sent
  BY DEF Claim
<1> SUFFICES ASSUME NEW c \in Connections, announce[c] # NoViewer
             PROVE  Fits(announce, owner', c, told'[c])
  BY <1>1 DEF VerdictCurrent, Fits, Owns
<1>2. Fits(announce, Successor, c, sent[c])
  BY ExpiryFits
<1>3. CASE takes
  <2> DEFINE won == Tell(sent, ConnectionsOf(v), TRUE, full)
             lost == IF Successor = NoViewer THEN {} ELSE ConnectionsOf(Successor)
  <2>1. owner' = v /\ told' = Tell(won, lost, FALSE, full)
    BY <1>1, <1>3 DEF ToldAfterTake
  <2>2. c \in lost <=> announce[c] = Successor
    BY DEF ConnectionsOf
  <2>3. c \in ConnectionsOf(v) <=> announce[c] = v
    BY DEF ConnectionsOf
  <2>4. CASE announce[c] = Successor
    <3>1. told'[c] \in {"missed", "released"}
      BY <2>1, <2>2, <2>4 DEF Tell
    <3> QED BY <1>3, <2>1, <2>4, <3>1 DEF Fits
  <2>5. CASE announce[c] # Successor /\ announce[c] = v
    <3>1. told'[c] = won[c] /\ won[c] \in {"missed", "owned"}
      BY <2>1, <2>2, <2>3, <2>5 DEF Tell
    <3> QED BY <2>1, <2>5, <3>1 DEF Fits
  <2>6. CASE announce[c] # Successor /\ announce[c] # v
    <3>1. told'[c] = won[c] /\ won[c] = sent[c]
      BY <2>1, <2>2, <2>3, <2>6 DEF Tell
    <3> QED BY <1>2, <2>1, <2>6, <3>1 DEF Fits
  <2> QED BY <2>4, <2>5, <2>6
<1>4. CASE ~takes /\ v # NoViewer
  <2>1. owner' = Successor /\ Successor = v /\ told' = Tell(sent, {a}, TRUE, full)
    BY <1>1, <1>4
  <2>2. CASE c = a
    BY <2>1, <2>2 DEF Tell, Fits
  <2>3. CASE c # a
    <3>1. told'[c] = sent[c]
      BY <2>1, <2>3 DEF Tell
    <3> QED BY <1>2, <2>1, <3>1
  <2> QED BY <2>2, <2>3
<1>5. CASE v = NoViewer
  BY <1>1, <1>2, <1>5
<1> QED BY <1>3, <1>4, <1>5

----------------------------------------------------------------------------
(* The theorems *)

\* IInv is an inductive invariant of the ownership.
THEOREM Inductive == Spec => []IInv
<1>1. Init => IInv
  <2> SUFFICES ASSUME Init PROVE IInv
    OBVIOUS
  <2> USE DEF Init
  <2>1. \A v \in Viewers : ConnectionsOf(v) = {}
    BY ViewerAssumption DEF ConnectionsOf
  <2>2. Entries(<<>>) = {} /\ NoRepeats(<<>>)
    BY DEF Entries, NoRepeats
  <2>3. PresenceConsistent
    <3>1. \A v \in Viewers : present[v] = Cardinality(ConnectionsOf(v))
      BY <2>1, FS_EmptySet
    <3>2. Entries(arrival) = {v \in Viewers : present[v] > 0}
      BY <2>2
    <3> QED BY <2>2, <3>1, <3>2 DEF PresenceConsistent
  <2>4. TypeOK /\ Fresh /\ OwnerAccounted
    BY BoundAssumption DEF TypeOK, Fresh, OwnerAccounted, NotAbsent, Verdicts
  <2> QED BY <2>3, <2>4 DEF IInv
<1>2. IInv /\ [Next]_vars => IInv'
  <2> SUFFICES ASSUME IInv, [Next]_vars PROVE IInv'
    OBVIOUS
  <2>1. CASE Next
    BY <2>1, JoinStep, LeaveStep, ClaimStep, SettleStep, TickStep DEF Next
  <2>2. CASE UNCHANGED vars
    BY <2>2 DEF vars, IInv, TypeOK, Fresh, PresenceConsistent, OwnerAccounted, ConnectionsOf
  <2> QED BY <2>1, <2>2
<1> QED BY <1>1, <1>2, PTL DEF Spec

\* The variables keep their types.
THEOREM TypeCorrect == Spec => []TypeOK
<1>1. IInv => TypeOK
  BY DEF IInv
<1> QED BY <1>1, Inductive, PTL

\* join, leave and claim keep the count, the arrival list and the activity
\* list in agreement with the registered connections.
THEOREM PresenceAgrees == Spec => []PresenceConsistent
<1>1. IInv => PresenceConsistent
  BY DEF IInv
<1> QED BY <1>1, Inductive, PTL

\* The sizing is unowned only while nobody is connected, and its grace runs
\* exactly while its owner has no connection.
THEOREM OwnerIsAccountedFor == Spec => []OwnerAccounted
<1>1. IInv => OwnerAccounted
  BY DEF IInv
<1> QED BY <1>1, Inductive, PTL

\* Whatever a registered connection was last told about the sizing is still
\* true, or was dropped by its full queue: every change of the owner tells
\* each connection whose answer it changes.
THEOREM VerdictsHold == Spec => []VerdictCurrent
<1>1. Init => VerdictCurrent
  BY DEF Init, VerdictCurrent
<1>2. IInv /\ VerdictCurrent /\ [Next]_vars => VerdictCurrent'
  <2> SUFFICES ASSUME IInv, VerdictCurrent, [Next]_vars PROVE VerdictCurrent'
    OBVIOUS
  <2>1. ASSUME NEW c \in Connections, Leave(c) PROVE VerdictCurrent'
    BY <2>1 DEF Leave, VerdictCurrent, Owns, IInv, TypeOK
  <2>2. ASSUME NEW full, Settle(full) PROVE VerdictCurrent'
    BY <2>2, ExpiryFits DEF Settle, VerdictCurrent, Owns, Fits
  <2>3. CASE Tick \/ UNCHANGED vars
    BY <2>3 DEF Tick, vars, VerdictCurrent, Owns
  <2> QED BY <2>1, <2>2, <2>3, JoinVerdicts, ClaimVerdicts DEF Next
<1> QED BY <1>1, <1>2, Inductive, PTL DEF Spec

\* Arriving moves nothing while an owner is held.
THEOREM PassiveArrival == Spec => ArrivalIsPassive
<1>1. IInv /\ [Next]_vars =>
        [next_connection' # next_connection /\ owner # NoViewer /\ ~Expired
           => owner' = owner /\ generation' = generation]_vars
  <2> SUFFICES ASSUME IInv, Next,
                      next_connection' # next_connection, owner # NoViewer, ~Expired
               PROVE  owner' = owner /\ generation' = generation
    OBVIOUS
  <2>1. PICK v \in Viewers, full \in FullQueues : Join(v, full)
    BY DEF Next, Claim, Leave, Settle, Tick
  <2>2. Successor = owner /\ ~Bootstraps /\ GenerationAfterExpiry = generation
    BY DEF Successor, Bootstraps, GenerationAfterExpiry
  <2> QED BY <2>1, <2>2, ExpiryType DEF Join, IInv, TypeOK
<1> QED BY <1>1, Inductive, PTL DEF Spec, ArrivalIsPassive

----------------------------------------------------------------------------
(* The resize queue: a departing connection leaves no resize behind, and a
   resize is applied only under the tenure that admitted it *)

\* The types the argument needs.
QType ==
    /\ generation \in Nat /\ moves \in Nat
    /\ announce \in [Connections -> Viewers \cup {NoViewer}]
    /\ next_connection \in 0 .. MaxConnections
    /\ phase \in [Connections -> Phases]
    /\ asked \subseteq Request
    /\ pending \subseteq PendingResize
    /\ taken \subseteq PendingResize
    /\ size \in [Panes -> Sizes]

\* The generation moves exactly when the owner does: an equal generation means
\* that nothing moved in between.
Counted == generation = moves
Stamped == \A r \in pending \cup taken : r.generation = r.moves

\* A connection past the second step of its departure is not registered.
LeftUnregistered ==
    \A c \in Connections : phase[c] \in {"left", "gone"} => announce[c] = NoViewer

RInv == QType /\ Counted /\ Stamped /\ LeftUnregistered /\ NoResizeAfterPurge

----------------------------------------------------------------------------
(* The ownership's steps *)

\* A connection that joins takes the sizing of a session without an owner, and
\* the generation counts it.
LEMMA JoinCounts ==
    ASSUME QType, Counted, NEW v \in Viewers, NEW full, Join(v, full)
    PROVE  generation' \in Nat /\ moves' \in Nat /\ generation' = moves'
<1>1. v # NoViewer
  BY ViewerAssumption
<1>2. /\ owner' = IF Bootstraps THEN v ELSE Successor
      /\ generation' = GenerationAfterExpiry + (IF Bootstraps THEN 1 ELSE 0)
      /\ moves' = moves + (IF Successor # owner THEN 1 ELSE 0)
                        + (IF owner' # Successor THEN 1 ELSE 0)
  BY DEF Join, MovesTo
<1>3. generation \in Nat /\ moves = generation
  BY DEF QType, Counted
<1>4. CASE Bootstraps
  <2>1. owner' # Successor
    BY <1>1, <1>2, <1>4 DEF Bootstraps
  <2> QED BY <1>2, <1>3, <1>4, <2>1 DEF GenerationAfterExpiry
<1>5. CASE ~Bootstraps
  BY <1>2, <1>3, <1>5 DEF GenerationAfterExpiry
<1> QED BY <1>4, <1>5

\* So does one that claims it.
LEMMA ClaimCounts ==
    ASSUME QType, Counted, NEW c \in Connections, NEW full, Claim(c, full)
    PROVE  generation' \in Nat /\ moves' \in Nat /\ generation' = moves'
<1> DEFINE takes == announce[c] # NoViewer /\ Successor # announce[c]
<1>1. /\ owner' = IF takes THEN announce[c] ELSE Successor
      /\ generation' = GenerationAfterExpiry + (IF takes THEN 1 ELSE 0)
      /\ moves' = moves + (IF Successor # owner THEN 1 ELSE 0)
                        + (IF owner' # Successor THEN 1 ELSE 0)
  BY DEF Claim, MovesTo
<1>2. generation \in Nat /\ moves = generation
  BY DEF QType, Counted
<1>3. CASE takes
  BY <1>1, <1>2, <1>3 DEF GenerationAfterExpiry
<1>4. CASE ~takes
  BY <1>1, <1>2, <1>4 DEF GenerationAfterExpiry
<1> QED BY <1>3, <1>4

\* And the expiry of an owner that left.
LEMMA SettleCounts ==
    ASSUME QType, Counted, NEW full, Settle(full)
    PROVE  generation' \in Nat /\ moves' \in Nat /\ generation' = moves'
<1>1. /\ generation' = GenerationAfterExpiry
      /\ moves' = moves + (IF Successor # owner THEN 1 ELSE 0)
                        + (IF Successor # Successor THEN 1 ELSE 0)
  BY DEF Settle, MovesTo
<1>2. generation \in Nat /\ moves = generation
  BY DEF QType, Counted
<1> QED BY <1>1, <1>2 DEF GenerationAfterExpiry

----------------------------------------------------------------------------
(* One lemma per step of a connection's life and of the queue *)

\* A new connection has queued nothing and has left nothing.
LEMMA ConnectKeeps ==
    ASSUME RInv, NEW v \in Viewers, NEW evicted \in BOOLEAN, NEW full,
           Connect(v, evicted, full)
    PROVE  RInv'
<1>1. Join(v, full) /\ next_connection \in Connections
  BY BoundAssumption DEF RInv, QType, Connect, Join, Connections
<1>2. /\ announce' = [announce EXCEPT ![next_connection] = v]
      /\ phase' = [phase EXCEPT ![next_connection] = "open"]
      /\ next_connection' \in 0 .. MaxConnections
      /\ UNCHANGED <<asked, pending, taken, size>>
  BY <1>1, BoundAssumption DEF RInv, QType, Connect, Join
<1>3. generation' \in Nat /\ moves' \in Nat /\ generation' = moves'
  BY <1>1, JoinCounts DEF RInv
<1>4. phase' \in [Connections -> Phases] /\ announce' \in [Connections -> Viewers \cup {NoViewer}]
  BY <1>1, <1>2 DEF RInv, QType, Phases
<1>5. QType' /\ Counted' /\ Stamped'
  BY <1>2, <1>3, <1>4 DEF RInv, QType, Counted, Stamped
<1>6. LeftUnregistered'
  BY <1>1, <1>2 DEF RInv, QType, LeftUnregistered
<1>7. NoResizeAfterPurge'
  BY <1>1, <1>2 DEF RInv, QType, NoResizeAfterPurge, PendingResize
<1> QED BY <1>5, <1>6, <1>7 DEF RInv

\* A move of the ownership advances the generation, and resizes keep theirs.
LEMMA OwnershipKeeps == ASSUME RInv, OwnershipStep PROVE RInv'
<1>1. UNCHANGED hub
  BY DEF OwnershipStep
<1>2. /\ generation' \in Nat /\ moves' \in Nat /\ generation' = moves'
      /\ UNCHANGED <<announce, next_connection>>
  <2>1. CASE \E c \in Connections, full \in FullQueues : Claim(c, full)
    <3>1. PICK c \in Connections, full \in FullQueues : Claim(c, full)
      BY <2>1
    <3>2. UNCHANGED <<announce, next_connection>>
      BY <3>1 DEF Claim
    <3> QED BY <3>1, <3>2, ClaimCounts DEF RInv
  <2>2. CASE \E full \in FullQueues : Settle(full)
    <3>1. PICK full \in FullQueues : Settle(full)
      BY <2>2
    <3>2. UNCHANGED <<announce, next_connection>>
      BY <3>1 DEF Settle
    <3> QED BY <3>1, <3>2, SettleCounts DEF RInv
  <2>3. CASE Tick
    BY <2>3 DEF Tick, RInv, QType, Counted
  <2> QED BY <2>1, <2>2, <2>3 DEF OwnershipStep
<1> QED BY <1>1, <1>2 DEF RInv, QType, Counted, Stamped, LeftUnregistered,
                          NoResizeAfterPurge, hub

\* A departure leaves the ownership before it purges its resizes.
LEMMA DepartureKeeps ==
    ASSUME RInv, NEW c \in Connections,
           Unlist(c) \/ LeaveOwnership(c) \/ DiscardPendingResizes(c)
    PROVE  RInv'
<1> USE DEF RInv, QType, Counted, Stamped, LeftUnregistered, NoResizeAfterPurge
<1>1. CASE Unlist(c)
  <2>1. UNCHANGED <<vars, asked, pending, taken, size>>
    BY <1>1 DEF Unlist
  <2>2. phase' = [phase EXCEPT ![c] = "unlisted"]
    BY <1>1 DEF Unlist
  <2> QED BY <2>1, <2>2 DEF vars, Phases, PendingResize
<1>2. CASE LeaveOwnership(c)
  <2>1. /\ announce' = [announce EXCEPT ![c] = NoViewer]
        /\ UNCHANGED <<generation, moves, next_connection, asked, pending, taken, size>>
    BY <1>2 DEF LeaveOwnership, Leave
  <2>2. phase' = [phase EXCEPT ![c] = "left"]
    BY <1>2 DEF LeaveOwnership
  <2> QED BY <2>1, <2>2 DEF Phases, PendingResize
<1>3. CASE DiscardPendingResizes(c)
  <2>1. /\ phase[c] = "left" /\ pending' = {r \in pending : r.connection # c}
        /\ UNCHANGED <<vars, asked, taken, size>>
    BY <1>3 DEF DiscardPendingResizes
  <2>2. phase' = [phase EXCEPT ![c] = "gone"]
    BY <1>3 DEF DiscardPendingResizes
  <2> QED BY <2>1, <2>2 DEF vars, Phases, PendingResize
<1> QED BY <1>1, <1>2, <1>3

\* queue_resize asks the ownership under the queue's lock: a connection that has
\* left is refused, and only one that has left is purged.
LEMMA QueueKeeps == ASSUME RInv, NEW r \in asked, QueueResize(r) PROVE RInv'
<1> DEFINE entry == [connection |-> r.connection, pane |-> r.pane, size |-> r.size,
                     generation |-> generation, moves |-> moves]
<1>1. r \in Request /\ UNCHANGED <<vars, phase, taken, size>> /\ asked' \subseteq Request
  BY DEF RInv, QType, QueueResize
<1>2. entry \in PendingResize /\ entry.connection = r.connection
      /\ entry.generation = entry.moves
  BY <1>1 DEF RInv, QType, Counted, Request, PendingResize
<1>3. \A q \in pending' : q \in pending \/ (q = entry /\ Owns(r.connection))
  BY DEF QueueResize, Admits
<1>4. QType' /\ Counted' /\ Stamped' /\ LeftUnregistered'
  BY <1>1, <1>2, <1>3 DEF RInv, QType, Counted, Stamped, LeftUnregistered, vars
<1>5. Owns(r.connection) => phase[r.connection] # "gone"
  BY <1>1 DEF RInv, LeftUnregistered, Owns, Request
<1>6. NoResizeAfterPurge'
  BY <1>1, <1>2, <1>3, <1>5 DEF RInv, NoResizeAfterPurge
<1> QED BY <1>4, <1>6 DEF RInv

\* Asking, taking and the panes' comings and goings queue nothing.
LEMMA OthersKeep ==
    ASSUME RInv,
           \/ \E c \in Connections : Evict(c)
           \/ \E r \in Request : AskResize(r)
           \/ TakePendingResizes
           \/ \E p \in Panes : PaneExits(p)
           \/ UNCHANGED rqvars
    PROVE  RInv'
<1>1. /\ UNCHANGED <<vars, phase, size>> /\ asked' \subseteq Request
      /\ pending' \subseteq pending /\ taken' \subseteq pending \cup taken
  BY DEF RInv, QType, Evict, AskResize, TakePendingResizes, PaneExits, rqvars, hub
<1> QED BY <1>1 DEF RInv, QType, Counted, Stamped, LeftUnregistered, NoResizeAfterPurge, vars

\* Applying or discarding a taken resize queues nothing.
LEMMA ResizePaneKeeps ==
    ASSUME RInv, NEW r \in taken, NEW failed \in BOOLEAN, ResizePane(r, failed)
    PROVE  RInv'
<1>1. UNCHANGED <<vars, phase, asked, pending>> /\ taken' \subseteq taken
  BY DEF ResizePane
<1>2. size' \in [Panes -> Sizes]
  BY DEF RInv, QType, ResizePane, PendingResize
<1> QED BY <1>1, <1>2 DEF RInv, QType, Counted, Stamped, LeftUnregistered,
                          NoResizeAfterPurge, vars

\* Every step keeps the invariant.
LEMMA NextKeeps == RInv /\ [RQNext]_rqvars => RInv'
<1> SUFFICES ASSUME RInv, [RQNext]_rqvars PROVE RInv'
  OBVIOUS
<1> QED BY ConnectKeeps, OwnershipKeeps, DepartureKeeps, QueueKeeps, OthersKeep,
           ResizePaneKeeps DEF RQNext

\* The invariant holds throughout.
LEMMA RInvInvariant == RQSpec => []RInv
<1>1. RQInit => RInv
  BY SizeAssumption, BoundAssumption
     DEF RQInit, Init, RInv, QType, Counted, Stamped, LeftUnregistered,
         NoResizeAfterPurge, Phases
<1> QED BY <1>1, NextKeeps, PTL DEF RQSpec

----------------------------------------------------------------------------
\* disconnect purges a connection's resizes last, and queue_resize admits none
\* for a connection that has left: the purge is final.
THEOREM PurgeIsFinal == RQSpec => []NoResizeAfterPurge
<1>1. RInv => NoResizeAfterPurge
  BY DEF RInv
<1> QED BY <1>1, RInvInvariant, PTL

\* A PTY is resized only for a listed client of the viewer that owns the
\* sizing, and only if no ownership change lies between queueing and applying.
THEOREM OneTenure == RQSpec => ResizeUnderOneTenure
<1> DEFINE Allowed ==
      \A p \in Panes : size'[p] # size[p] =>
          \E r \in taken : /\ r.pane = p /\ r.size = size'[p]
                           /\ r.moves = moves
                           /\ Owns(r.connection)
                           /\ r.connection \in clients
<1>1. RInv /\ [RQNext]_rqvars => [Allowed]_rqvars
  <2> SUFFICES ASSUME RInv, RQNext, NEW p \in Panes, size'[p] # size[p]
               PROVE  \E r \in taken : /\ r.pane = p /\ r.size = size'[p]
                                       /\ r.moves = moves
                                       /\ Owns(r.connection)
                                       /\ r.connection \in clients
    OBVIOUS
  <2>1. PICK r \in taken, failed \in BOOLEAN : ResizePane(r, failed)
    BY DEF RQNext, Connect, OwnershipStep, hub, Evict, Unlist, LeaveOwnership,
           DiscardPendingResizes, AskResize, QueueResize, TakePendingResizes, PaneExits
  <2>2. /\ OwnerGeneration(r.connection, r.generation) /\ r.connection \in clients
        /\ size' = [size EXCEPT ![r.pane] = r.size]
    BY <2>1 DEF ResizePane
  <2>3. r.pane = p /\ r.size = size'[p]
    BY <2>2 DEF RInv, QType
  <2>4. r.moves = moves /\ Owns(r.connection)
    BY <2>2 DEF RInv, Counted, Stamped, OwnerGeneration
  <2> QED BY <2>2, <2>3, <2>4
<1> QED BY <1>1, RInvInvariant, PTL DEF RQSpec, ResizeUnderOneTenure

==============================================================================
