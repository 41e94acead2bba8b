-------------------------- MODULE HubPluginsProofs --------------------------
(***************************************************************************)
(* What a hub keeps about plugins and panes, for any plugins and tables,   *)
(* any caps, budgets and windows, and any number of panes: through every   *)
(* exit, hold, relaunch, failed spawn, cancel and reload of the table.     *)
(***************************************************************************)
EXTENDS HubPlugins, FiniteSetTheorems, WellFoundedInduction, TLAPS

----------------------------------------------------------------------------
(* The inductive invariant *)

Hold == [index : 1 .. Cap, left : 0 .. TTL]
Stamps == Seq(1 .. Window)

PluginType ==
    /\ next_id \in 1 .. MaxPaneIds + 1
    /\ slots \in [PaneIds -> Slot \cup {NoSlot}]
    /\ panes \in Seq(PaneIds) /\ Len(panes) <= Cap
    /\ owners \in [PaneIds -> Names \cup {NoName}]
    /\ intended \in [PaneIds -> Names \cup {NoName}]
    /\ hosts \in SUBSET Names
    /\ launched \in [Names -> Specs \cup {NoSpec}]
    /\ watch_on_signal \in SUBSET Names
    /\ pending \in [PaneIds -> Hold \cup {NoHold}]
    /\ recovery \in SUBSET PaneIds
    /\ idle \in [PaneIds -> 0 .. MinIdle]
    /\ idle_announced \in SUBSET PaneIds
    /\ told \in SUBSET PaneIds

\* A pane is in the order once; what a pane has, a pane that was spawned has;
\* a generation is a spawn, and a token the first of the panes that had it.
NoRepeats(s) == \A i, j \in 1 .. Len(s) : s[i] = s[j] => i = j
SpawnedOnce ==
    /\ NoRepeats(panes)
    /\ \A p \in PaneIds : p \in Live \cup Held \/ HasSlot(p) => p < next_id
    /\ \A p \in PaneIds : HasSlot(p) => slots[p].generation < p /\ slots[p].token <= p

\* A process has its slot; a slot without one is held; a hold has no process.
SlotsKept ==
    /\ \A p \in Live : HasSlot(p) /\ p \notin Held
    /\ \A p \in PaneIds : HasSlot(p) => p \in Live \cup Held
    /\ \A p, q \in PaneIds : HasSlot(p) /\ HasSlot(q) /\ slots[p].token = slots[q].token => p = q

\* No plugin that does not run has a pane, whichever way it stopped.
OwnersRun == \A p \in PaneIds : owners[p] # NoName => owners[p] \in hosts
HoldsOwned == \A p \in Held : owners[p] # NoName
ReportsOwned == \A p \in recovery : owners[p] # NoName /\ p \in Live \cup Held

\* A pane in its first process has no plugin but the one it was meant for: it
\* is handed to the child that replaces the one it was told to.
FirstSpawnKept ==
    \A p \in Live : slots[p].generation = 0 /\ owners[p] # NoName
                       => owners[p] = intended[p] /\ p \in told

\* Stamps are in the order they were made in; the j-th latest relaunch was
\* paid for by an approval at least as late as the j-th latest approval.
InOrder(s) == \A i, j \in 1 .. Len(s) : i <= j => s[i] <= s[j]
Covers(r, s) ==
    /\ Len(s) <= Len(r)
    /\ \A j \in 0 .. Len(s) - 1 : s[Len(s) - j] <= r[Len(r) - j]
BudgetsKept ==
    /\ sends \in [PaneIds -> Stamps] /\ relaunches \in [PaneIds -> Stamps]
    /\ spawned \in [PaneIds -> Stamps]
    /\ \A t \in PaneIds :
         /\ InOrder(sends[t]) /\ InOrder(relaunches[t]) /\ InOrder(spawned[t])
         /\ Len(sends[t]) <= MaxSends /\ Len(relaunches[t]) <= MaxRelaunches
         /\ Covers(relaunches[t], spawned[t])
         /\ Len(spawned[t]) < next_id

PluginsInv ==
    /\ PluginType /\ SpawnedOnce /\ SlotsKept /\ OwnersRun /\ HoldsOwned /\ ReportsOwned
    /\ FirstSpawnKept /\ BudgetsKept

----------------------------------------------------------------------------
(* The order of the panes *)

LEMMA ListEntries ==
    ASSUME NEW s \in Seq(PaneIds)
    PROVE  ToSet(s) = {s[i] : i \in 1 .. Len(s)} /\ ToSet(s) \subseteq PaneIds
BY DEF ToSet

LEMMA AppendEntries ==
    ASSUME NEW s \in Seq(PaneIds), NEW p \in PaneIds, NoRepeats(s), p \notin ToSet(s)
    PROVE  /\ Append(s, p) \in Seq(PaneIds) /\ Len(Append(s, p)) = Len(s) + 1
           /\ ToSet(Append(s, p)) = ToSet(s) \cup {p} /\ NoRepeats(Append(s, p))
<1>1. /\ Append(s, p) \in Seq(PaneIds) /\ Len(Append(s, p)) = Len(s) + 1 /\ Len(s) \in Nat
      /\ Append(s, p)[Len(s) + 1] = p
  OBVIOUS
<1>2. \A i \in 1 .. Len(s) : Append(s, p)[i] = s[i]
  OBVIOUS
<1>3. ToSet(Append(s, p)) = {Append(s, p)[i] : i \in 1 .. Len(s) + 1} /\ ToSet(s) = {s[i] : i \in 1 .. Len(s)}
  BY <1>1, ListEntries
<1>4. ToSet(Append(s, p)) = ToSet(s) \cup {p}
  BY <1>1, <1>2, <1>3
<1>5. NoRepeats(Append(s, p))
  BY <1>1, <1>2, <1>3 DEF NoRepeats
<1> QED BY <1>1, <1>4, <1>5

LEMMA JoinEntries ==
    ASSUME NEW a \in Seq(PaneIds), NEW b \in Seq(PaneIds)
    PROVE  /\ a \o b \in Seq(PaneIds) /\ Len(a \o b) = Len(a) + Len(b)
           /\ \A i \in 1 .. Len(a) : (a \o b)[i] = a[i]
           /\ \A i \in 1 .. Len(b) : (a \o b)[Len(a) + i] = b[i]
OBVIOUS

\* The pane at a place leaves.
LEMMA RemoveEntries ==
    ASSUME NEW s \in Seq(PaneIds), NEW k \in 1 .. Len(s), NoRepeats(s)
    PROVE  /\ RemoveAt(s, k) \in Seq(PaneIds) /\ Len(RemoveAt(s, k)) = Len(s) - 1
           /\ ToSet(RemoveAt(s, k)) = ToSet(s) \ {s[k]} /\ NoRepeats(RemoveAt(s, k))
<1> DEFINE n == Len(s)
           a == SubSeq(s, 1, k - 1)
           b == SubSeq(s, k + 1, n)
           r == a \o b
<1>1. n \in Nat /\ k \in Nat /\ 1 <= k /\ k <= n
  OBVIOUS
<1>2. /\ a \in Seq(PaneIds) /\ Len(a) = k - 1
      /\ \A i \in 1 .. k - 1 : a[i] = s[i]
  OBVIOUS
<1>3. /\ b \in Seq(PaneIds) /\ Len(b) = n - k
      /\ \A i \in 1 .. n - k : b[i] = s[i + k]
  OBVIOUS
<1>4. r = RemoveAt(s, k)
  BY DEF RemoveAt
<1> HIDE DEF a, b
<1>5. /\ r \in Seq(PaneIds) /\ Len(r) = n - 1
      /\ \A i \in 1 .. k - 1 : r[i] = a[i]
      /\ \A i \in 1 .. n - k : r[(k - 1) + i] = b[i]
  <2>1. Len(r) = Len(a) + Len(b)
    BY <1>2, <1>3, JoinEntries
  <2>2. Len(r) = n - 1
    BY <1>1, <1>2, <1>3, <2>1
  <2> QED BY <1>2, <1>3, <2>2, JoinEntries
<1> HIDE DEF r
<1>6. \A i \in 1 .. n - 1 : r[i] = IF i < k THEN s[i] ELSE s[i + 1]
  <2> SUFFICES ASSUME NEW i \in 1 .. n - 1 PROVE r[i] = IF i < k THEN s[i] ELSE s[i + 1]
    OBVIOUS
  <2>1. CASE i < k
    BY <1>1, <1>2, <1>5, <2>1
  <2>2. CASE ~(i < k)
    <3>1. i - (k - 1) \in 1 .. n - k /\ (k - 1) + (i - (k - 1)) = i /\ (i - (k - 1)) + k = i + 1
      BY <1>1, <2>2
    <3>2. r[(k - 1) + (i - (k - 1))] = b[i - (k - 1)] /\ b[i - (k - 1)] = s[(i - (k - 1)) + k]
      BY <1>3, <1>5, <3>1
    <3> QED BY <2>2, <3>1, <3>2
  <2> QED BY <2>1, <2>2
<1>7. ToSet(r) = {r[i] : i \in 1 .. n - 1} /\ ToSet(s) = {s[i] : i \in 1 .. n}
  BY <1>5, ListEntries
<1>8. ToSet(r) = ToSet(s) \ {s[k]}
  <2>1. ASSUME NEW x \in ToSet(r) PROVE x \in ToSet(s) \ {s[k]}
    BY <1>1, <1>6, <1>7 DEF NoRepeats
  <2>2. ASSUME NEW x \in ToSet(s), x # s[k] PROVE x \in ToSet(r)
    <3>1. PICK i \in 1 .. n : x = s[i] /\ i # k
      BY <1>7, <2>2
    <3>2. CASE i < k
      BY <1>1, <1>6, <1>7, <3>1, <3>2
    <3>3. CASE i > k
      <4>1. i - 1 \in 1 .. n - 1 /\ ~(i - 1 < k)
        BY <1>1, <3>3
      <4>2. r[i - 1] = s[i]
        BY <1>1, <1>6, <4>1
      <4> QED BY <1>7, <3>1, <4>1, <4>2
    <3> QED BY <1>1, <3>1, <3>2, <3>3
  <2> QED BY <2>1, <2>2
<1>9. NoRepeats(r)
  BY <1>1, <1>5, <1>6 DEF NoRepeats
<1> QED BY <1>4, <1>5, <1>8, <1>9

\* A pane comes back at a place.
LEMMA InsertEntries ==
    ASSUME NEW s \in Seq(PaneIds), NEW k \in 1 .. Len(s) + 1, NEW p \in PaneIds, NoRepeats(s),
           p \notin ToSet(s)
    PROVE  /\ InsertAt(s, k, p) \in Seq(PaneIds) /\ Len(InsertAt(s, k, p)) = Len(s) + 1
           /\ ToSet(InsertAt(s, k, p)) = ToSet(s) \cup {p} /\ NoRepeats(InsertAt(s, k, p))
<1> DEFINE n == Len(s)
           a == SubSeq(s, 1, k - 1)
           b == SubSeq(s, k, n)
           c == a \o <<p>>
           r == c \o b
<1>1. n \in Nat /\ k \in Nat /\ 1 <= k /\ k <= n + 1
  OBVIOUS
<1>2. /\ a \in Seq(PaneIds) /\ Len(a) = k - 1
      /\ \A i \in 1 .. k - 1 : a[i] = s[i]
  OBVIOUS
<1>3. /\ b \in Seq(PaneIds) /\ Len(b) = n - k + 1
      /\ \A i \in 1 .. n - k + 1 : b[i] = s[i + k - 1]
  OBVIOUS
<1> HIDE DEF a, b
<1>4. /\ c \in Seq(PaneIds) /\ Len(c) = k /\ c[k] = p
      /\ \A i \in 1 .. k - 1 : c[i] = s[i]
  BY <1>1, <1>2
<1> HIDE DEF c
<1>5. r \in Seq(PaneIds) /\ Len(r) = n + 1
  BY <1>1, <1>3, <1>4
<1>6. /\ r[k] = p
      /\ \A i \in 1 .. k - 1 : r[i] = s[i]
      /\ \A i \in k .. n : r[i + 1] = s[i]
  <2>1. \A i \in 1 .. k : r[i] = c[i]
    BY <1>1, <1>3, <1>4
  <2>2. ASSUME NEW i \in k .. n PROVE r[i + 1] = s[i]
    <3>1. i + 1 - k \in 1 .. n - k + 1 /\ k + (i + 1 - k) = i + 1 /\ (i + 1 - k) + k - 1 = i
      BY <1>1
    <3>2. r[k + (i + 1 - k)] = b[i + 1 - k]
      BY <1>3, <1>4, <3>1, JoinEntries
    <3>3. b[i + 1 - k] = s[(i + 1 - k) + k - 1]
      BY <1>3, <3>1
    <3> QED BY <3>1, <3>2, <3>3
  <2> HIDE DEF r
  <2>3. r[k] = p
    BY <1>1, <1>4, <2>1
  <2>4. \A i \in 1 .. k - 1 : r[i] = s[i]
    BY <1>1, <1>4, <2>1
  <2> QED BY <2>2, <2>3, <2>4
<1>7. r = InsertAt(s, k, p)
  BY DEF InsertAt, a, b, c
<1> HIDE DEF r
<1>8. ToSet(r) = {r[i] : i \in 1 .. n + 1} /\ ToSet(s) = {s[i] : i \in 1 .. n}
  BY <1>5, ListEntries
<1>9. \A i \in 1 .. n + 1 : i = k \/ (i \in 1 .. k - 1 /\ r[i] = s[i]) \/ (i - 1 \in k .. n /\ r[i] = s[i - 1])
  <2> SUFFICES ASSUME NEW i \in 1 .. n + 1, i # k
               PROVE  (i \in 1 .. k - 1 /\ r[i] = s[i]) \/ (i - 1 \in k .. n /\ r[i] = s[i - 1])
    OBVIOUS
  <2>1. CASE i < k
    BY <1>1, <1>6, <2>1
  <2>2. CASE i > k
    <3>1. i - 1 \in k .. n /\ (i - 1) + 1 = i
      BY <1>1, <2>2
    <3> QED BY <1>6, <3>1
  <2> QED BY <1>1, <2>1, <2>2
<1>10. ToSet(r) = ToSet(s) \cup {p}
  <2>1. ASSUME NEW x \in ToSet(r) PROVE x \in ToSet(s) \cup {p}
    <3>1. PICK i \in 1 .. n + 1 : x = r[i]
      BY <1>8
    <3> QED BY <1>1, <1>6, <1>8, <1>9, <3>1
  <2>2. p \in ToSet(r)
    BY <1>1, <1>6, <1>8
  <2>3. ASSUME NEW x \in ToSet(s) PROVE x \in ToSet(r)
    <3>1. PICK i \in 1 .. n : x = s[i]
      BY <1>8
    <3>2. CASE i < k
      BY <1>1, <1>6, <1>8, <3>1, <3>2
    <3>3. CASE i >= k
      <4>1. i \in k .. n /\ i + 1 \in 1 .. n + 1
        BY <1>1, <3>3
      <4> QED BY <1>6, <1>8, <3>1, <4>1
    <3> QED BY <1>1, <3>2, <3>3
  <2> QED BY <2>1, <2>2, <2>3
<1>11. NoRepeats(r)
  <2> SUFFICES ASSUME NEW i \in 1 .. n + 1, NEW j \in 1 .. n + 1, r[i] = r[j] PROVE i = j
    BY <1>5 DEF NoRepeats
  <2>1. CASE i = k /\ j = k
    BY <2>1
  <2>2. \A x \in 1 .. n : s[x] # p
    BY <1>8
  <2>3. i = k <=> j = k
    BY <1>1, <1>6, <1>9, <2>2
  <2>4. CASE i # k /\ j # k
    BY <1>1, <1>9, <2>4 DEF NoRepeats
  <2> QED BY <2>1, <2>3, <2>4
<1> QED BY <1>5, <1>7, <1>10, <1>11

LEMMA LiveFacts ==
    ASSUME PluginType
    PROVE  Live = {panes[i] : i \in 1 .. Len(panes)} /\ Live \subseteq PaneIds
BY ListEntries DEF PluginType, Live

LEMMA WithoutFacts ==
    ASSUME PluginType, NoRepeats(panes), NEW p \in Live
    PROVE  /\ PlaceOf(p) \in 1 .. Len(panes)
           /\ Without(p) \in Seq(PaneIds) /\ Len(Without(p)) <= Cap
           /\ ToSet(Without(p)) = Live \ {p} /\ NoRepeats(Without(p))
<1>1. \E i \in 1 .. Len(panes) : panes[i] = p
  BY LiveFacts
<1>2. PlaceOf(p) \in 1 .. Len(panes) /\ panes[PlaceOf(p)] = p
  BY <1>1 DEF PlaceOf
<1>3. panes \in Seq(PaneIds) /\ Len(panes) <= Cap /\ Cap \in Nat /\ Len(panes) \in Nat
  BY LimitAssumption DEF PluginType
<1>4. /\ Without(p) \in Seq(PaneIds) /\ Len(Without(p)) = Len(panes) - 1
      /\ ToSet(Without(p)) = ToSet(panes) \ {p} /\ NoRepeats(Without(p))
  BY <1>2, <1>3, RemoveEntries DEF Without
<1> QED BY <1>2, <1>3, <1>4 DEF Live

----------------------------------------------------------------------------
(* The budgets *)

LEMMA LeastOf ==
    ASSUME NEW T, T \subseteq Nat, T # {}
    PROVE  \E x \in T : \A y \in T : x =< y
<1> DEFINE R == OpToRel(<, Nat)
<1>1. IsWellFoundedOn(R, Nat)
  BY NatLessThanWellFounded
<1>2. \A x, y \in Nat : y < x => <<y, x>> \in R
  BY DEF OpToRel
<1> HIDE DEF R
<1>3. PICK x \in T : \A y \in T : ~ (<<y, x>> \in R)
  BY <1>1, WFMin
<1>4. ASSUME NEW y \in T PROVE x =< y
  <2>1. x \in Nat /\ y \in Nat
    OBVIOUS
  <2>2. ~(y < x)
    BY <1>2, <1>3, <2>1
  <2> QED BY <2>1, <2>2
<1> QED BY <1>4

\* The stamps past the window are the first of them.
LEMMA PastWindowFacts ==
    ASSUME NEW s \in Stamps, InOrder(s)
    PROVE  /\ PastWindow(s) \in 0 .. Len(s)
           /\ \A i \in 1 .. Len(s) : i <= PastWindow(s) <=> s[i] = 1
<1> DEFINE T == {i \in 1 .. Len(s) : s[i] # 1} \cup {Len(s) + 1}
<1>1. Len(s) \in Nat /\ \A i \in 1 .. Len(s) : s[i] \in Nat /\ s[i] >= 1
  BY LimitAssumption DEF Stamps
<1>2. PICK k \in T : \A y \in T : k =< y
  <2>1. T \subseteq Nat /\ T # {}
    BY <1>1
  <2> HIDE DEF T
  <2> QED BY <2>1, LeastOf
<1>3. k \in 1 .. Len(s) + 1
  BY <1>1
<1>4. \A i \in 1 .. Len(s) : i <= k - 1 <=> s[i] = 1
  <2> SUFFICES ASSUME NEW i \in 1 .. Len(s) PROVE i <= k - 1 <=> s[i] = 1
    OBVIOUS
  <2>1. CASE i <= k - 1
    BY <1>1, <1>2, <1>3, <2>1
  <2>2. CASE i >= k
    <3>1. k \in 1 .. Len(s) /\ s[k] # 1
      BY <1>1, <1>3, <2>2
    <3>2. s[k] <= s[i]
      BY <2>2, <3>1 DEF InOrder
    <3> QED BY <1>1, <1>3, <2>2, <3>1, <3>2
  <2> QED BY <1>1, <1>3, <2>1, <2>2
<1>5. \E n \in 0 .. Len(s) : \A i \in 1 .. Len(s) : i <= n <=> s[i] = 1
  <2>1. k - 1 \in 0 .. Len(s)
    BY <1>1, <1>3
  <2> QED BY <1>4, <2>1
<1> QED BY <1>5 DEF PastWindow

\* What is kept after a moment, each a moment closer to its end.
LEMMA AgedFacts ==
    ASSUME NEW s \in Stamps, InOrder(s)
    PROVE  /\ Aged(s) \in Stamps /\ InOrder(Aged(s))
           /\ Len(Aged(s)) = Len(s) - PastWindow(s) /\ Len(Aged(s)) <= Len(s)
           /\ \A i \in 1 .. Len(Aged(s)) : Aged(s)[i] = s[i + PastWindow(s)] - 1
<1> DEFINE n == PastWindow(s)
           m == Len(s) - n
           a == [i \in 1 .. m |-> s[i + n] - 1]
<1>1. Len(s) \in Nat /\ (\A i \in 1 .. Len(s) : s[i] \in 1 .. Window) /\ Window \in Nat
  BY LimitAssumption DEF Stamps
<1>2. n \in 0 .. Len(s) /\ \A i \in 1 .. Len(s) : i <= n <=> s[i] = 1
  BY PastWindowFacts
<1>3. Aged(s) = a
  BY DEF Aged
<1> HIDE DEF n
<1>4. m \in Nat /\ m <= Len(s)
  BY <1>1, <1>2
<1>5. \A i \in 1 .. m : i + n \in 1 .. Len(s) /\ ~(i + n <= n)
  BY <1>1, <1>2
<1>6. \A i \in 1 .. m : s[i + n] - 1 \in 1 .. Window
  BY <1>1, <1>2, <1>5
<1> HIDE DEF m
<1>7. a \in [1 .. m -> 1 .. Window]
  BY <1>6
<1>8. a \in Seq(1 .. Window) /\ Len(a) = m
  BY <1>4, <1>7
<1>9. \A i \in 1 .. m : a[i] = s[i + n] - 1
  OBVIOUS
<1> HIDE DEF a
<1>10. InOrder(a)
  <2> SUFFICES ASSUME NEW i \in 1 .. m, NEW j \in 1 .. m, i <= j PROVE a[i] <= a[j]
    BY <1>8 DEF InOrder
  <2>1. s[i + n] <= s[j + n]
    <3>1. i + n <= j + n
      BY <1>1, <1>2, <1>4
    <3> QED BY <1>5, <3>1 DEF InOrder
  <2>2. s[i + n] \in Nat /\ s[j + n] \in Nat
    BY <1>1, <1>5
  <2> QED BY <1>9, <2>1, <2>2
<1> QED BY <1>3, <1>4, <1>8, <1>9, <1>10 DEF Stamps, m, n

\* A relaunch that still counts was paid for by an approval that still does.
LEMMA AgedCovers ==
    ASSUME NEW r \in Stamps, NEW s \in Stamps, InOrder(r), InOrder(s), Covers(r, s)
    PROVE  Covers(Aged(r), Aged(s))
<1> DEFINE nr == PastWindow(r)
           ns == PastWindow(s)
           lr == Len(r)
           ls == Len(s)
<1>1. /\ lr \in Nat /\ ls \in Nat /\ ls <= lr
      /\ \A j \in 0 .. ls - 1 : s[ls - j] <= r[lr - j]
  BY DEF Covers, Stamps
<1>2. (\A i \in 1 .. lr : r[i] \in Nat /\ r[i] >= 1) /\ (\A i \in 1 .. ls : s[i] \in Nat /\ s[i] >= 1)
  BY LimitAssumption DEF Stamps
<1>3. /\ nr \in 0 .. lr /\ ns \in 0 .. ls
      /\ \A i \in 1 .. lr : i <= nr <=> r[i] = 1
      /\ \A i \in 1 .. ls : i <= ns <=> s[i] = 1
  BY PastWindowFacts
<1>4. /\ Len(Aged(r)) = lr - nr /\ \A i \in 1 .. lr - nr : Aged(r)[i] = r[i + nr] - 1
      /\ Len(Aged(s)) = ls - ns /\ \A i \in 1 .. ls - ns : Aged(s)[i] = s[i + ns] - 1
  BY AgedFacts
<1> HIDE DEF nr, ns, lr, ls
<1>5. ls - ns <= lr - nr
  <2>1. CASE ls = ns
    BY <1>1, <1>3, <2>1
  <2>2. CASE ns < ls
    <3> DEFINE j == ls - ns - 1
    <3>1. j \in 0 .. ls - 1 /\ ls - j = ns + 1 /\ ns + 1 \in 1 .. ls /\ lr - j \in 1 .. lr
      BY <1>1, <1>3, <2>2
    <3>2. s[ns + 1] # 1 /\ s[ns + 1] <= r[lr - j]
      BY <1>1, <1>3, <3>1
    <3>3. r[lr - j] # 1
      BY <1>2, <3>1, <3>2
    <3>4. ~(lr - j <= nr)
      BY <1>3, <3>1, <3>3
    <3> QED BY <1>1, <1>3, <3>4
  <2> QED BY <1>1, <1>3, <2>1, <2>2
<1>6. ASSUME NEW j \in 0 .. (ls - ns) - 1
      PROVE  Aged(s)[(ls - ns) - j] <= Aged(r)[(lr - nr) - j]
  <2>1. /\ (ls - ns) - j \in 1 .. ls - ns /\ (lr - nr) - j \in 1 .. lr - nr
        /\ ((ls - ns) - j) + ns = ls - j /\ ((lr - nr) - j) + nr = lr - j
        /\ j \in 0 .. ls - 1 /\ ls - j \in 1 .. ls /\ lr - j \in 1 .. lr
    BY <1>1, <1>3, <1>5
  <2>2. Aged(s)[(ls - ns) - j] = s[ls - j] - 1 /\ Aged(r)[(lr - nr) - j] = r[lr - j] - 1
    BY <1>4, <2>1
  <2>3. s[ls - j] <= r[lr - j] /\ s[ls - j] \in Nat /\ r[lr - j] \in Nat
    BY <1>1, <1>2, <2>1
  <2> QED BY <2>2, <2>3
<1> QED BY <1>4, <1>5, <1>6 DEF Covers

\* One more, stamped now.
LEMMA SpentFacts ==
    ASSUME NEW s \in Stamps, InOrder(s)
    PROVE  /\ Append(s, Window) \in Stamps /\ Len(Append(s, Window)) = Len(s) + 1
           /\ InOrder(Append(s, Window))
           /\ Append(s, Window)[Len(s) + 1] = Window
           /\ \A i \in 1 .. Len(s) : Append(s, Window)[i] = s[i]
<1>1. Window \in 1 .. Window /\ Window \in Nat
  BY LimitAssumption
<1>2. Len(s) \in Nat /\ \A i \in 1 .. Len(s) : s[i] \in Nat /\ s[i] <= Window
  BY <1>1 DEF Stamps
<1> DEFINE a == Append(s, Window)
<1>3. a \in Stamps /\ Len(a) = Len(s) + 1 /\ a[Len(s) + 1] = Window
  BY <1>1 DEF Stamps
<1>4. \A i \in 1 .. Len(s) : a[i] = s[i]
  BY DEF Stamps
<1> HIDE DEF a
<1>5. InOrder(a)
  BY <1>1, <1>2, <1>3, <1>4 DEF InOrder
<1> QED BY <1>3, <1>4, <1>5 DEF a

\* An approval covers what was covered, and a relaunch besides.
LEMMA SpentCovers ==
    ASSUME NEW r \in Stamps, NEW s \in Stamps, InOrder(r), InOrder(s), Covers(r, s)
    PROVE  Covers(Append(r, Window), s) /\ Covers(Append(r, Window), Append(s, Window))
<1> DEFINE lr == Len(r)
           ls == Len(s)
           R == Append(r, Window)
           S == Append(s, Window)
<1>1. /\ lr \in Nat /\ ls \in Nat /\ ls <= lr /\ Window \in Nat
      /\ \A j \in 0 .. ls - 1 : s[ls - j] <= r[lr - j]
  BY LimitAssumption DEF Covers, Stamps
<1>2. (\A i \in 1 .. lr : r[i] \in Nat /\ r[i] <= Window) /\ (\A i \in 1 .. ls : s[i] \in Nat /\ s[i] <= Window)
  BY LimitAssumption DEF Stamps
<1>3. /\ Len(R) = lr + 1 /\ R[lr + 1] = Window /\ \A i \in 1 .. lr : R[i] = r[i]
      /\ Len(S) = ls + 1 /\ S[ls + 1] = Window /\ \A i \in 1 .. ls : S[i] = s[i]
  BY SpentFacts
<1>4. \A i, j \in 1 .. lr : i <= j => r[i] <= r[j]
  BY DEF InOrder
<1> HIDE DEF R, S, lr, ls
<1>5. ASSUME NEW j \in 0 .. ls - 1 PROVE s[ls - j] <= R[(lr + 1) - j]
  <2>1. ls - j \in 1 .. ls /\ lr - j \in 1 .. lr
    BY <1>1
  <2>2. s[ls - j] <= r[lr - j]
    BY <1>1
  <2>3. CASE j = 0
    BY <1>1, <1>2, <1>3, <2>1, <2>3
  <2>4. CASE j # 0
    <3>1. (lr + 1) - j \in 1 .. lr /\ lr - j <= (lr + 1) - j
      BY <1>1, <2>4
    <3>2. r[lr - j] <= r[(lr + 1) - j]
      BY <1>4, <2>1, <3>1
    <3>3. R[(lr + 1) - j] = r[(lr + 1) - j]
      BY <1>3, <3>1
    <3> QED BY <1>2, <2>1, <2>2, <3>1, <3>2, <3>3
  <2> QED BY <2>3, <2>4
<1>6. ASSUME NEW j \in 0 .. (ls + 1) - 1 PROVE S[(ls + 1) - j] <= R[(lr + 1) - j]
  <2>1. CASE j = 0
    BY <1>1, <1>3, <2>1
  <2>2. CASE j # 0
    <3>1. /\ j - 1 \in 0 .. ls - 1 /\ ls - (j - 1) = (ls + 1) - j /\ lr - (j - 1) = (lr + 1) - j
          /\ (ls + 1) - j \in 1 .. ls /\ (lr + 1) - j \in 1 .. lr
      BY <1>1, <2>2
    <3>2. s[ls - (j - 1)] <= r[lr - (j - 1)]
      BY <1>1, <3>1
    <3> QED BY <1>3, <3>1, <3>2
  <2> QED BY <2>1, <2>2
<1>7. Covers(R, s)
  BY <1>1, <1>3, <1>5 DEF Covers, lr, ls
<1>8. Covers(R, S)
  BY <1>1, <1>3, <1>6 DEF Covers
<1> QED BY <1>7, <1>8 DEF R, S

----------------------------------------------------------------------------
(* What the steps have in common *)

LEMMA SetFacts ==
    ASSUME PluginType
    PROVE  /\ Live \subseteq PaneIds /\ Held \subseteq PaneIds
           /\ next_id \in Nat /\ 1 <= next_id /\ MaxPaneIds \in Nat /\ Cap \in Nat
           /\ \A p \in PaneIds : p \in Nat /\ 1 <= p /\ p <= MaxPaneIds
           /\ \A p \in PaneIds : slots[p] # NoSlot => slots[p] \in Slot
           /\ \A p \in PaneIds : pending[p] # NoHold => pending[p] \in Hold
           /\ \A h \in Hold : h # NoHold
           /\ \A s \in Slot : s # NoSlot
<1>1. next_id \in Nat /\ 1 <= next_id /\ MaxPaneIds \in Nat /\ Cap \in Nat
  BY LimitAssumption DEF PluginType
<1>2. \A p \in PaneIds : p \in Nat /\ 1 <= p /\ p <= MaxPaneIds
  BY <1>1 DEF PaneIds
<1>3. \A h \in Hold : h # NoHold
  BY <1>1 DEF Hold, NoHold
<1>4. \A s \in Slot : s # NoSlot
  BY <1>2 DEF Slot, NoSlot
<1>5. Live \subseteq PaneIds /\ Held \subseteq PaneIds
  BY LiveFacts DEF Held
<1> QED BY <1>1, <1>2, <1>3, <1>4, <1>5 DEF PluginType

\* A budget that is cleared stays in order and covered.
LEMMA CancelKeeps ==
    ASSUME PluginType, BudgetsKept, NEW ps, Cancel(ps), next_id' = next_id
    PROVE  BudgetsKept'
<1> DEFINE void == {slots[p].token : p \in ps}
<1>1. /\ sends' = [t \in PaneIds |-> IF t \in void THEN <<>> ELSE sends[t]]
      /\ relaunches' = [t \in PaneIds |-> IF t \in void THEN <<>> ELSE relaunches[t]]
      /\ spawned' = [t \in PaneIds |-> IF t \in void THEN <<>> ELSE spawned[t]]
  BY DEF Cancel
<1> HIDE DEF void
<1>2. <<>> \in Stamps /\ Len(<<>>) = 0 /\ InOrder(<<>>) /\ Covers(<<>>, <<>>)
  BY DEF Stamps, InOrder, Covers
<1>3. next_id \in Nat /\ 1 <= next_id /\ MaxSends \in Nat /\ MaxRelaunches \in Nat
  BY SetFacts, LimitAssumption
<1>4. sends' \in [PaneIds -> Stamps] /\ relaunches' \in [PaneIds -> Stamps] /\ spawned' \in [PaneIds -> Stamps]
  BY <1>1, <1>2 DEF BudgetsKept
<1>5. ASSUME NEW t \in PaneIds
      PROVE  /\ InOrder(sends'[t]) /\ InOrder(relaunches'[t]) /\ InOrder(spawned'[t])
             /\ Len(sends'[t]) <= MaxSends /\ Len(relaunches'[t]) <= MaxRelaunches
             /\ Covers(relaunches'[t], spawned'[t])
             /\ Len(spawned'[t]) < next_id'
  <2>1. CASE t \in void
    <3>1. sends'[t] = <<>> /\ relaunches'[t] = <<>> /\ spawned'[t] = <<>>
      BY <1>1, <2>1
    <3> QED BY <1>2, <1>3, <3>1
  <2>2. CASE t \notin void
    <3>1. sends'[t] = sends[t] /\ relaunches'[t] = relaunches[t] /\ spawned'[t] = spawned[t]
      BY <1>1, <2>2
    <3> QED BY <3>1 DEF BudgetsKept
  <2> QED BY <2>1, <2>2
<1> QED BY <1>4, <1>5 DEF BudgetsKept, InOrder, Covers

LEMMA BudgetsStay ==
    ASSUME PluginType, BudgetsKept, UNCHANGED budgets, next_id' \in Nat, next_id <= next_id'
    PROVE  BudgetsKept'
<1>1. sends' = sends /\ relaunches' = relaunches /\ spawned' = spawned
  BY DEF budgets
<1>2. \A t \in PaneIds : Len(spawned[t]) < next_id /\ Len(spawned[t]) \in Nat /\ next_id \in Nat
  BY SetFacts DEF BudgetsKept, Stamps
<1>3. \A t \in PaneIds : Len(spawned'[t]) < next_id'
  BY <1>1, <1>2
<1> QED BY <1>1, <1>3 DEF BudgetsKept, InOrder, Covers

Structure == SpawnedOnce /\ SlotsKept
Watched == OwnersRun /\ HoldsOwned /\ ReportsOwned /\ FirstSpawnKept

LEMMA StructureStays ==
    ASSUME Structure, UNCHANGED <<next_id, slots, panes, pending>>
    PROVE  Structure' /\ Live' = Live /\ Held' = Held
<1>1. next_id' = next_id /\ slots' = slots /\ panes' = panes /\ pending' = pending
  OBVIOUS
<1>2. Live' = Live /\ Held' = Held
  BY <1>1 DEF Live, Held
<1>3. SpawnedOnce'
  BY <1>1, <1>2 DEF Structure, SpawnedOnce, NoRepeats, HasSlot
<1>4. SlotsKept'
  BY <1>1, <1>2 DEF Structure, SlotsKept, HasSlot
<1> QED BY <1>2, <1>3, <1>4 DEF Structure

LEMMA WatchedStays ==
    ASSUME Watched, UNCHANGED <<slots, panes, pending, owners, intended, hosts, recovery, told>>
    PROVE  Watched'
<1>1. /\ slots' = slots /\ panes' = panes /\ pending' = pending /\ owners' = owners
      /\ intended' = intended /\ hosts' = hosts /\ recovery' = recovery /\ told' = told
  OBVIOUS
<1>2. Live' = Live /\ Held' = Held
  BY <1>1 DEF Live, Held
<1> QED BY <1>1, <1>2 DEF Watched, OwnersRun, HoldsOwned, ReportsOwned, FirstSpawnKept

\* Panes that are let go of leave nothing behind: no process, slot, hold,
\* plugin or report.
LEMMA LetGoKeeps ==
    ASSUME PluginType, Structure, Watched, NEW ps, ps \subseteq PaneIds,
           NoRepeats(panes'), Live' = Live \ ps, Held' = Held \ ps,
           Retire(ps), EndRecovery(ps), next_id' = next_id, hosts' = hosts,
           \A p \in ps : owners'[p] = NoName,
           \A p \in PaneIds \ ps : /\ owners'[p] = owners[p] /\ intended'[p] = intended[p]
                                   /\ (p \in told => p \in told')
    PROVE  Structure' /\ Watched'
<1>1. \A p \in PaneIds : slots'[p] = IF p \in ps THEN NoSlot ELSE slots[p]
  BY DEF Retire
<1>2. recovery' = recovery \ ps
  BY DEF EndRecovery
<1>3. Live \subseteq PaneIds /\ Held \subseteq PaneIds /\ recovery \subseteq PaneIds
  BY SetFacts DEF PluginType
<1>4. SpawnedOnce'
  <2>1. NoRepeats(panes)'
    BY DEF NoRepeats
  <2> QED BY <1>1, <1>3, <2>1 DEF Structure, SpawnedOnce, HasSlot
<1>5. SlotsKept'
  BY <1>1, <1>3 DEF Structure, SlotsKept, HasSlot
<1>6. OwnersRun'
  BY DEF Watched, OwnersRun
<1>7. HoldsOwned' /\ ReportsOwned'
  BY <1>2, <1>3 DEF Watched, HoldsOwned, ReportsOwned
<1>8. FirstSpawnKept'
  BY <1>1, <1>3 DEF Watched, FirstSpawnKept
<1> QED BY <1>4, <1>5, <1>6, <1>7, <1>8 DEF Structure, Watched

LEMMA ReleaseFacts ==
    ASSUME PluginType, NEW ps, ps \subseteq PaneIds, Release(ps)
    PROVE  /\ owners' \in [PaneIds -> Names \cup {NoName}]
           /\ pending' \in [PaneIds -> Hold \cup {NoHold}]
           /\ idle_announced' \in SUBSET PaneIds /\ told' \in SUBSET PaneIds
           /\ Held' = Held \ ps
           /\ \A p \in ps : owners'[p] = NoName
           /\ \A p \in PaneIds \ ps : owners'[p] = owners[p] /\ (p \in told => p \in told')
           /\ Cancel(ps)
<1>1. /\ owners' = [p \in PaneIds |-> IF p \in ps THEN NoName ELSE owners[p]]
      /\ pending' = [p \in PaneIds |-> IF p \in ps THEN NoHold ELSE pending[p]]
      /\ idle_announced' = idle_announced \ ps /\ told' = told \ ps /\ Cancel(ps)
  BY DEF Release
<1>2. Held' = Held \ ps
  BY <1>1 DEF Held
<1>3. owners' \in [PaneIds -> Names \cup {NoName}]
  BY <1>1 DEF PluginType
<1>4. pending' \in [PaneIds -> Hold \cup {NoHold}]
  BY <1>1 DEF PluginType
<1> QED BY <1>1, <1>2, <1>3, <1>4 DEF PluginType

LEMMA RetireType ==
    ASSUME PluginType, NEW ps, Retire(ps)
    PROVE  slots' \in [PaneIds -> Slot \cup {NoSlot}]
BY DEF PluginType, Retire

LEMMA QuietType ==
    ASSUME PluginType, NEW p, idle' = [idle EXCEPT ![p] = 0]
    PROVE  idle' \in [PaneIds -> 0 .. MinIdle]
<1>1. 0 \in 0 .. MinIdle
  BY LimitAssumption
<1>2. idle \in [PaneIds -> 0 .. MinIdle]
  BY DEF PluginType
<1> QED BY <1>1, <1>2

\* A process that ends for good, and what its pane had.
LEMMA DestroyKeeps ==
    ASSUME PluginType, Structure, Watched, BudgetsKept, NEW p \in Live,
           Retire({p}), EndRecovery({p}), panes' = Without(p), idle' = [idle EXCEPT ![p] = 0],
           next_id' = next_id, hosts' = hosts, launched' = launched, watch_on_signal' = watch_on_signal,
           \/ owners[p] # NoName /\ Forget(p)
           \/ owners[p] = NoName /\ UNCHANGED <<owners, intended, pending, events, budgets>>
    PROVE  PluginsInv'
<1>1. SpawnedOnce /\ SlotsKept /\ p \in PaneIds /\ p \notin Held
  BY SetFacts DEF Structure, SlotsKept
<1>2. /\ Without(p) \in Seq(PaneIds) /\ Len(Without(p)) <= Cap
      /\ ToSet(Without(p)) = Live \ {p} /\ NoRepeats(Without(p))
  BY <1>1, WithoutFacts DEF SpawnedOnce
<1>3. Live' = Live \ {p} /\ NoRepeats(panes')
  BY <1>2 DEF Live
<1>4. /\ owners' \in [PaneIds -> Names \cup {NoName}] /\ intended' \in [PaneIds -> Names \cup {NoName}]
      /\ pending' \in [PaneIds -> Hold \cup {NoHold}]
      /\ idle_announced' \in SUBSET PaneIds /\ told' \in SUBSET PaneIds
      /\ Held' = Held \ {p} /\ owners'[p] = NoName /\ BudgetsKept'
      /\ \A r \in PaneIds \ {p} : /\ owners'[r] = owners[r] /\ intended'[r] = intended[r]
                                  /\ (r \in told => r \in told')
  <2>1. CASE Forget(p)
    <3>1. Release({p}) /\ intended' = [intended EXCEPT ![p] = NoName]
      BY <2>1 DEF Forget
    <3>2. /\ intended' \in [PaneIds -> Names \cup {NoName}]
          /\ \A r \in PaneIds \ {p} : intended'[r] = intended[r]
      BY <3>1 DEF PluginType
    <3>3. /\ owners' \in [PaneIds -> Names \cup {NoName}] /\ pending' \in [PaneIds -> Hold \cup {NoHold}]
          /\ idle_announced' \in SUBSET PaneIds /\ told' \in SUBSET PaneIds
          /\ Held' = Held \ {p} /\ owners'[p] = NoName /\ Cancel({p})
          /\ \A r \in PaneIds \ {p} : owners'[r] = owners[r] /\ (r \in told => r \in told')
      BY <1>1, <3>1, ReleaseFacts
    <3>4. BudgetsKept'
      BY <3>3, CancelKeeps
    <3> QED BY <3>2, <3>3, <3>4
  <2>2. CASE owners[p] = NoName /\ UNCHANGED <<owners, intended, pending, events, budgets>>
    <3>1. /\ owners' = owners /\ intended' = intended /\ pending' = pending /\ UNCHANGED budgets
          /\ idle_announced' = idle_announced /\ told' = told
      BY <2>2 DEF events
    <3>2. Held' = Held
      BY <3>1 DEF Held
    <3>3. BudgetsKept'
      BY <3>1, BudgetsStay, SetFacts
    <3> QED BY <1>1, <2>2, <3>1, <3>2, <3>3 DEF PluginType
  <2> QED BY <2>1, <2>2
<1>5. Structure' /\ Watched'
  BY <1>1, <1>3, <1>4, LetGoKeeps
<1>6. PluginType'
  <2>1. slots' \in [PaneIds -> Slot \cup {NoSlot}]
    BY RetireType
  <2>2. idle' \in [PaneIds -> 0 .. MinIdle]
    BY QuietType
  <2>3. recovery' \in SUBSET PaneIds
    BY DEF PluginType, EndRecovery
  <2> QED BY <1>2, <1>4, <2>1, <2>2, <2>3 DEF PluginType
<1> QED BY <1>4, <1>5, <1>6 DEF PluginsInv, Structure, Watched

\* Holds that end without a relaunch, and what their panes had.
LEMMA DropHoldsKeeps ==
    ASSUME PluginType, Structure, Watched, BudgetsKept, NEW ps, ps \subseteq Held,
           Release(ps), Retire(ps), EndRecovery(ps),
           intended' \in [PaneIds -> Names \cup {NoName}],
           \A r \in PaneIds \ ps : intended'[r] = intended[r],
           next_id' = next_id, panes' = panes, idle' = idle, hosts' = hosts,
           launched' = launched, watch_on_signal' = watch_on_signal
    PROVE  PluginsInv'
<1>1. SpawnedOnce /\ SlotsKept /\ ps \subseteq PaneIds
  BY SetFacts DEF Structure
<1>2. Live' = Live /\ Live = Live \ ps
  BY <1>1 DEF Live, SlotsKept
<1>3. NoRepeats(panes')
  BY <1>1 DEF SpawnedOnce
<1>4. /\ owners' \in [PaneIds -> Names \cup {NoName}] /\ pending' \in [PaneIds -> Hold \cup {NoHold}]
      /\ idle_announced' \in SUBSET PaneIds /\ told' \in SUBSET PaneIds
      /\ Held' = Held \ ps /\ Cancel(ps) /\ \A r \in ps : owners'[r] = NoName
      /\ \A r \in PaneIds \ ps : owners'[r] = owners[r] /\ (r \in told => r \in told')
  BY <1>1, ReleaseFacts
<1>5. BudgetsKept'
  BY <1>4, CancelKeeps
<1>6. Structure' /\ Watched'
  BY <1>1, <1>2, <1>3, <1>4, LetGoKeeps
<1>7. PluginType'
  <2>1. slots' \in [PaneIds -> Slot \cup {NoSlot}]
    BY RetireType
  <2>2. recovery' \in SUBSET PaneIds
    BY DEF PluginType, EndRecovery
  <2> QED BY <1>4, <2>1, <2>2 DEF PluginType
<1> QED BY <1>5, <1>6, <1>7 DEF PluginsInv, Structure, Watched

----------------------------------------------------------------------------
(* Every step keeps the invariant *)

LEMMA OpenKeeps ==
    ASSUME PluginsInv, NEW named \in Names \cup {NoName}, NEW command \in BOOLEAN,
           OpenPane(named, command)
    PROVE  PluginsInv'
<1> DEFINE q == next_id
           fresh == [token |-> q, generation |-> 0, command |-> command]
           owner == IF named \in hosts THEN named ELSE NoName
<1>1. PluginType /\ SpawnedOnce /\ SlotsKept /\ Structure /\ Watched /\ BudgetsKept
  BY DEF PluginsInv, Structure, Watched
<1>2. /\ Live \subseteq PaneIds /\ Held \subseteq PaneIds /\ q \in Nat /\ 1 <= q
      /\ MaxPaneIds \in Nat /\ Cap \in Nat /\ \A s \in Slot : s # NoSlot
  BY <1>1, SetFacts
<1>3. /\ q <= MaxPaneIds /\ next_id' = q + 1 /\ idle' = [idle EXCEPT ![q] = 0]
      /\ slots' = [slots EXCEPT ![q] = fresh]
      /\ panes' = Append(panes, q) /\ Len(panes) < Cap
      /\ intended' = [intended EXCEPT ![q] = named]
      /\ owners' = [owners EXCEPT ![q] = owner]
      /\ told' = IF named \in hosts THEN told \cup {q} ELSE told
      /\ hosts' = hosts /\ launched' = launched /\ watch_on_signal' = watch_on_signal
      /\ pending' = pending /\ recovery' = recovery /\ UNCHANGED budgets /\ idle_announced' = idle_announced
  BY DEF OpenPane, SpawnPane
<1>4. q \in PaneIds
  BY <1>2, <1>3 DEF PaneIds
<1>5. q \notin Live /\ q \notin Held
  BY <1>1, <1>2, <1>4 DEF SpawnedOnce
<1>6. /\ fresh \in Slot /\ fresh.token = q /\ fresh.generation = 0
  BY <1>2, <1>4 DEF Slot
<1>7. /\ panes' \in Seq(PaneIds) /\ Len(panes') <= Cap /\ Live' = Live \cup {q} /\ NoRepeats(panes)'
  <2>1. panes \in Seq(PaneIds) /\ NoRepeats(panes) /\ Len(panes) \in Nat
    BY <1>1 DEF PluginType, SpawnedOnce
  <2>2. /\ panes' \in Seq(PaneIds) /\ Len(panes') = Len(panes) + 1
        /\ ToSet(panes') = ToSet(panes) \cup {q} /\ NoRepeats(panes')
    BY <1>3, <1>4, <1>5, <2>1, AppendEntries DEF Live
  <2> QED BY <1>2, <1>3, <2>1, <2>2 DEF Live, NoRepeats
<1>8. Held' = Held
  BY <1>3 DEF Held
<1>9. /\ slots'[q] = fresh /\ owners'[q] = owner /\ intended'[q] = named
      /\ \A p \in PaneIds \ {q} : slots'[p] = slots[p] /\ owners'[p] = owners[p] /\ intended'[p] = intended[p]
  BY <1>1, <1>3, <1>4 DEF PluginType
<1>10. owner \in Names \cup {NoName} /\ (owner # NoName => owner \in hosts /\ owner = named)
  BY <1>1 DEF PluginType
<1>11. PluginType'
  <2>1. slots' \in [PaneIds -> Slot \cup {NoSlot}]
    BY <1>1, <1>3, <1>6 DEF PluginType
  <2>2. owners' \in [PaneIds -> Names \cup {NoName}] /\ intended' \in [PaneIds -> Names \cup {NoName}]
    BY <1>1, <1>3, <1>10 DEF PluginType
  <2>3. idle' \in [PaneIds -> 0 .. MinIdle]
    BY <1>1, <1>3, QuietType
  <2>4. next_id' \in 1 .. MaxPaneIds + 1
    BY <1>2, <1>3
  <2>5. told' \in SUBSET PaneIds
    BY <1>1, <1>3, <1>4 DEF PluginType
  <2> QED BY <1>1, <1>3, <1>7, <2>1, <2>2, <2>3, <2>4, <2>5 DEF PluginType
<1> HIDE DEF fresh, owner
<1>12. SpawnedOnce'
  <2>1. \A p \in PaneIds : (p \in Live' \cup Held' \/ slots'[p] # NoSlot) => p < next_id'
    BY <1>1, <1>2, <1>3, <1>7, <1>8, <1>9 DEF SpawnedOnce, HasSlot, PaneIds
  <2>2. \A p \in PaneIds : slots'[p] # NoSlot => slots'[p].generation < p /\ slots'[p].token <= p
    BY <1>1, <1>2, <1>6, <1>9 DEF SpawnedOnce, HasSlot
  <2> QED BY <1>7, <2>1, <2>2 DEF SpawnedOnce, HasSlot
<1>13. SlotsKept'
  <2>1. \A p \in Live' : slots'[p] # NoSlot /\ p \notin Held'
    BY <1>1, <1>2, <1>5, <1>6, <1>7, <1>8, <1>9 DEF SlotsKept, HasSlot
  <2>2. \A p \in PaneIds : slots'[p] # NoSlot => p \in Live' \cup Held'
    BY <1>1, <1>7, <1>8, <1>9 DEF SlotsKept, HasSlot
  <2>3. \A p \in PaneIds \ {q} : slots[p] # NoSlot => slots[p].token # q
    BY <1>1, <1>2, SetFacts DEF SpawnedOnce, HasSlot, Slot
  <2>4. \A p, r \in PaneIds : slots'[p] # NoSlot /\ slots'[r] # NoSlot /\ slots'[p].token = slots'[r].token
                                 => p = r
    BY <1>1, <1>6, <1>9, <2>3 DEF SlotsKept, HasSlot
  <2> QED BY <2>1, <2>2, <2>4 DEF SlotsKept, HasSlot
<1>14. OwnersRun'
  BY <1>1, <1>3, <1>9, <1>10 DEF Watched, OwnersRun
<1>15. HoldsOwned'
  BY <1>1, <1>2, <1>5, <1>8, <1>9 DEF Watched, HoldsOwned
<1>16. ReportsOwned'
  BY <1>1, <1>2, <1>3, <1>5, <1>7, <1>8, <1>9 DEF Watched, ReportsOwned
<1>17. FirstSpawnKept'
  <2>1. ASSUME NEW p \in Live', slots'[p].generation = 0, owners'[p] # NoName
        PROVE  owners'[p] = intended'[p] /\ p \in told'
    <3>1. CASE p = q
      BY <1>3, <1>9, <1>10, <2>1, <3>1
    <3>2. CASE p # q
      BY <1>1, <1>2, <1>3, <1>7, <1>9, <2>1, <3>2 DEF Watched, FirstSpawnKept
    <3> QED BY <3>1, <3>2
  <2> QED BY <2>1 DEF FirstSpawnKept
<1>18. BudgetsKept'
  BY <1>1, <1>2, <1>3, BudgetsStay
<1> QED BY <1>11, <1>12, <1>13, <1>14, <1>15, <1>16, <1>17, <1>18 DEF PluginsInv

LEMMA CloseKeeps ==
    ASSUME PluginsInv, NEW p \in PaneIds, ClosePane(p)
    PROVE  PluginsInv'
<1>1. PluginType /\ SpawnedOnce /\ SlotsKept /\ Structure /\ Watched /\ BudgetsKept
  BY DEF PluginsInv, Structure, Watched
<1>2. /\ p \in Live /\ Retire({p}) /\ EndRecovery({p}) /\ panes' = Without(p)
      /\ idle' = [idle EXCEPT ![p] = 0]
      /\ next_id' = next_id /\ hosts' = hosts /\ launched' = launched /\ watch_on_signal' = watch_on_signal
  BY DEF ClosePane
<1>3. \/ owners[p] # NoName /\ Forget(p)
      \/ owners[p] = NoName /\ UNCHANGED <<owners, intended, pending, events, budgets>>
  BY DEF ClosePane
<1> QED BY <1>1, <1>2, <1>3, DestroyKeeps

LEMMA UserInputKeeps ==
    ASSUME PluginsInv, NEW p \in PaneIds, UserInput(p)
    PROVE  PluginsInv'
<1>1. PluginType /\ Structure /\ Watched /\ BudgetsKept
  BY DEF PluginsInv, Structure, Watched
<1>2. Cancel({p}) /\ UNCHANGED <<backend, watching, pending, recovery, events>>
  BY DEF UserInput
<1>3. BudgetsKept'
  BY <1>1, <1>2, CancelKeeps DEF backend
<1>4. Structure' /\ Watched'
  BY <1>1, <1>2, StructureStays, WatchedStays DEF backend, watching, events
<1>5. PluginType'
  BY <1>1, <1>2 DEF PluginType, backend, watching, events
<1> QED BY <1>3, <1>4, <1>5 DEF PluginsInv, Structure, Watched

LEMMA CancelRecoveryKeeps ==
    ASSUME PluginsInv, NEW p \in PaneIds, CancelRecovery(p)
    PROVE  PluginsInv'
<1>1. PluginType /\ SpawnedOnce /\ SlotsKept /\ Structure /\ Watched /\ BudgetsKept
  BY DEF PluginsInv, Structure, Watched
<1>2. /\ p \in Held /\ Release({p}) /\ Retire({p}) /\ EndRecovery({p})
      /\ intended' = [intended EXCEPT ![p] = NoName]
      /\ next_id' = next_id /\ panes' = panes /\ idle' = idle /\ hosts' = hosts
      /\ launched' = launched /\ watch_on_signal' = watch_on_signal
  BY DEF CancelRecovery, Forget
<1>3. /\ intended' \in [PaneIds -> Names \cup {NoName}]
      /\ \A r \in PaneIds \ {p} : intended'[r] = intended[r]
  BY <1>1, <1>2 DEF PluginType
<1> QED BY <1>1, <1>2, <1>3, DropHoldsKeeps

LEMMA OutputKeeps ==
    ASSUME PluginsInv, NEW p \in PaneIds, PaneOutput(p)
    PROVE  PluginsInv'
<1>1. PluginType /\ Structure /\ Watched /\ BudgetsKept
  BY DEF PluginsInv, Structure, Watched
<1>2. /\ idle' = [idle EXCEPT ![p] = 0]
      /\ idle_announced' = idle_announced \ {p} \/ idle_announced' = idle_announced
      /\ next_id' = next_id /\ slots' = slots /\ panes' = panes /\ UNCHANGED watching
      /\ pending' = pending /\ recovery' = recovery /\ UNCHANGED budgets /\ told' = told
  BY DEF PaneOutput
<1>3. BudgetsKept'
  BY <1>1, <1>2, BudgetsStay, SetFacts
<1>4. Structure' /\ Watched'
  BY <1>1, <1>2, StructureStays, WatchedStays DEF watching
<1>5. PluginType'
  <2>1. idle' \in [PaneIds -> 0 .. MinIdle]
    BY <1>1, <1>2, QuietType
  <2> QED BY <1>1, <1>2, <2>1 DEF PluginType, watching
<1> QED BY <1>3, <1>4, <1>5 DEF PluginsInv, Structure, Watched

LEMMA ExitedKeeps ==
    ASSUME PluginsInv, NEW p \in PaneIds, PaneExited(p)
    PROVE  PluginsInv'
<1>1. PluginType /\ SpawnedOnce /\ SlotsKept /\ Structure /\ Watched /\ BudgetsKept
  BY DEF PluginsInv, Structure, Watched
<1>2. /\ p \in Live /\ panes' = Without(p) /\ idle' = [idle EXCEPT ![p] = 0]
      /\ next_id' = next_id /\ hosts' = hosts /\ launched' = launched /\ watch_on_signal' = watch_on_signal
  BY DEF PaneExited
<1>3. CASE ~ Holdable(p)
  <2>1. Retire({p}) /\ EndRecovery({p})
    BY <1>3 DEF PaneExited
  <2>2. \/ owners[p] # NoName /\ Forget(p)
        \/ owners[p] = NoName /\ UNCHANGED <<owners, intended, pending, events, budgets>>
    BY <1>3 DEF PaneExited
  <2> QED BY <1>1, <1>2, <2>1, <2>2, DestroyKeeps
<1>4. CASE Holdable(p)
  <2> DEFINE hold == [index |-> PlaceOf(p), left |-> TTL]
  <2>1. /\ owners[p] # NoName
        /\ pending' = [pending EXCEPT ![p] = hold] /\ idle_announced' = idle_announced \ {p}
        /\ slots' = slots /\ owners' = owners /\ intended' = intended /\ UNCHANGED budgets
        /\ recovery' = recovery /\ told' = told
    BY <1>4 DEF PaneExited, HoldForRelaunch, Holdable
  <2>2. /\ PlaceOf(p) \in 1 .. Len(panes) /\ Without(p) \in Seq(PaneIds) /\ Len(Without(p)) <= Cap
        /\ ToSet(Without(p)) = Live \ {p} /\ NoRepeats(Without(p))
    BY <1>1, <1>2, WithoutFacts DEF SpawnedOnce
  <2>3. Live' = Live \ {p}
    BY <1>2, <2>2 DEF Live
  <2>4. hold \in Hold
    <3>1. Len(panes) <= Cap /\ Len(panes) \in Nat /\ Cap \in Nat /\ TTL \in Nat
      BY <1>1, LimitAssumption DEF PluginType
    <3> QED BY <2>2, <3>1 DEF Hold
  <2> HIDE DEF hold
  <2>5. pending' \in [PaneIds -> Hold \cup {NoHold}] /\ pending'[p] = hold
        /\ \A r \in PaneIds \ {p} : pending'[r] = pending[r]
    BY <1>1, <2>1, <2>4 DEF PluginType
  <2>6. Held' = Held \cup {p}
    BY <1>1, <2>4, <2>5, SetFacts DEF Held
  <2>7. Live \subseteq PaneIds /\ Held \subseteq PaneIds
    BY <1>1, SetFacts
  <2>8. PluginType'
    <3>1. idle' \in [PaneIds -> 0 .. MinIdle]
      BY <1>1, <1>2, QuietType
    <3> QED BY <1>1, <1>2, <2>1, <2>2, <2>5, <3>1 DEF PluginType
  <2>9. SpawnedOnce'
    <3>1. NoRepeats(panes)'
      BY <1>2, <2>2 DEF NoRepeats
    <3> QED BY <1>1, <1>2, <2>1, <2>3, <2>6, <2>7, <3>1 DEF SpawnedOnce, HasSlot
  <2>10. SlotsKept'
    BY <1>1, <1>2, <2>1, <2>3, <2>6, <2>7 DEF SlotsKept, HasSlot
  <2>11. OwnersRun' /\ HoldsOwned' /\ ReportsOwned' /\ FirstSpawnKept'
    BY <1>1, <1>2, <2>1, <2>3, <2>6 DEF Watched, OwnersRun, HoldsOwned, ReportsOwned, FirstSpawnKept
  <2>12. BudgetsKept'
    BY <1>1, <1>2, <2>1, BudgetsStay, SetFacts
  <2> QED BY <2>8, <2>9, <2>10, <2>11, <2>12 DEF PluginsInv
<1> QED BY <1>3, <1>4

LEMMA NotifyKeeps ==
    ASSUME PluginsInv, NotifyIdle
    PROVE  PluginsInv'
<1>1. PluginType /\ Structure /\ Watched /\ BudgetsKept
  BY DEF PluginsInv, Structure, Watched
<1>2. /\ idle_announced' \subseteq idle_announced \cup Live
      /\ UNCHANGED <<backend, watching, pending, recovery, budgets, told>>
  BY DEF NotifyIdle
<1>3. BudgetsKept'
  BY <1>1, <1>2, BudgetsStay, SetFacts DEF backend
<1>4. Structure' /\ Watched'
  BY <1>1, <1>2, StructureStays, WatchedStays DEF backend, watching
<1>5. PluginType'
  <2>1. idle_announced' \in SUBSET PaneIds
    BY <1>1, <1>2, SetFacts DEF PluginType
  <2> QED BY <1>1, <1>2, <2>1 DEF PluginType, backend, watching
<1> QED BY <1>3, <1>4, <1>5 DEF PluginsInv, Structure, Watched

LEMMA ExpireKeeps ==
    ASSUME PluginsInv, ExpirePending
    PROVE  PluginsInv'
<1> DEFINE expired == {p \in Held : pending[p].left = 0}
<1>1. PluginType /\ SpawnedOnce /\ SlotsKept /\ Structure /\ Watched /\ BudgetsKept
  BY DEF PluginsInv, Structure, Watched
<1>2. /\ Release(expired) /\ Retire(expired) /\ EndRecovery(expired)
      /\ intended' = [p \in PaneIds |-> IF p \in expired THEN NoName ELSE intended[p]]
      /\ next_id' = next_id /\ panes' = panes /\ idle' = idle /\ hosts' = hosts
      /\ launched' = launched /\ watch_on_signal' = watch_on_signal
  BY DEF ExpirePending
<1>3. expired \subseteq Held
  OBVIOUS
<1> HIDE DEF expired
<1>4. /\ intended' \in [PaneIds -> Names \cup {NoName}]
      /\ \A r \in PaneIds \ expired : intended'[r] = intended[r]
  BY <1>1, <1>2 DEF PluginType
<1> QED BY <1>1, <1>2, <1>3, <1>4, DropHoldsKeeps

LEMMA TickKeeps ==
    ASSUME PluginsInv, Tick
    PROVE  PluginsInv'
<1>1. PluginType /\ SpawnedOnce /\ SlotsKept /\ Watched /\ BudgetsKept
  BY DEF PluginsInv, Watched
<1>2. /\ \A p \in Held : pending[p].left > 0
      /\ pending' = [p \in PaneIds |-> IF p \in Held THEN [pending[p] EXCEPT !.left = @ - 1] ELSE NoHold]
      /\ sends' = [t \in PaneIds |-> Aged(sends[t])]
      /\ relaunches' = [t \in PaneIds |-> Aged(relaunches[t])]
      /\ spawned' = [t \in PaneIds |-> Aged(spawned[t])]
      /\ idle' = [p \in PaneIds |-> IF p \in Live /\ idle[p] < MinIdle THEN idle[p] + 1 ELSE idle[p]]
      /\ next_id' = next_id /\ slots' = slots /\ panes' = panes /\ owners' = owners /\ intended' = intended
      /\ hosts' = hosts /\ launched' = launched /\ watch_on_signal' = watch_on_signal
      /\ recovery' = recovery /\ idle_announced' = idle_announced /\ told' = told
  BY DEF Tick, watching, events
<1>3. Live' = Live
  BY <1>2 DEF Live
<1>4. \A p \in Held : pending'[p] \in Hold
  <2> SUFFICES ASSUME NEW p \in Held PROVE pending'[p] \in Hold
    OBVIOUS
  <2>1. p \in PaneIds /\ pending[p] \in Hold
    BY <1>1, SetFacts DEF Held
  <2>2. pending[p].index \in 1 .. Cap /\ pending[p].left - 1 \in 0 .. TTL
    BY <1>2, <2>1, LimitAssumption DEF Hold
  <2>3. pending'[p] = [index |-> pending[p].index, left |-> pending[p].left - 1]
    BY <1>2, <2>1 DEF Hold
  <2> QED BY <2>2, <2>3 DEF Hold
<1>5. \A p \in PaneIds \ Held : pending'[p] = NoHold
  BY <1>2
<1>6. Held' = Held
  BY <1>1, <1>4, <1>5, SetFacts DEF Held
<1>7. PluginType'
  <2>1. idle' \in [PaneIds -> 0 .. MinIdle]
    <3>1. MinIdle \in Nat /\ \A p \in PaneIds : idle[p] \in 0 .. MinIdle
      BY <1>1, LimitAssumption DEF PluginType
    <3>2. \A p \in PaneIds : (IF p \in Live /\ idle[p] < MinIdle THEN idle[p] + 1 ELSE idle[p]) \in 0 .. MinIdle
      BY <3>1
    <3> QED BY <1>2, <3>2
  <2>2. pending' \in [PaneIds -> Hold \cup {NoHold}]
    <3>1. DOMAIN pending' = PaneIds /\ pending' = [p \in PaneIds |-> pending'[p]]
      BY <1>2
    <3> QED BY <1>4, <1>5, <3>1
  <2> QED BY <1>1, <1>2, <2>1, <2>2 DEF PluginType
<1>8. SpawnedOnce'
  BY <1>1, <1>2, <1>3, <1>6 DEF SpawnedOnce, NoRepeats, HasSlot
<1>9. SlotsKept'
  BY <1>1, <1>2, <1>3, <1>6 DEF SlotsKept, HasSlot
<1>10. OwnersRun' /\ HoldsOwned' /\ ReportsOwned' /\ FirstSpawnKept'
  BY <1>1, <1>2, <1>3, <1>6 DEF Watched, OwnersRun, HoldsOwned, ReportsOwned, FirstSpawnKept
<1>11. ASSUME NEW t \in PaneIds
       PROVE  /\ sends'[t] \in Stamps /\ relaunches'[t] \in Stamps /\ spawned'[t] \in Stamps
              /\ InOrder(sends'[t]) /\ InOrder(relaunches'[t]) /\ InOrder(spawned'[t])
              /\ Len(sends'[t]) <= MaxSends /\ Len(relaunches'[t]) <= MaxRelaunches
              /\ Covers(relaunches'[t], spawned'[t])
              /\ Len(spawned'[t]) < next_id'
  <2>1. /\ sends'[t] = Aged(sends[t]) /\ relaunches'[t] = Aged(relaunches[t]) /\ spawned'[t] = Aged(spawned[t])
    BY <1>2
  <2>2. /\ sends[t] \in Stamps /\ relaunches[t] \in Stamps /\ spawned[t] \in Stamps
        /\ InOrder(sends[t]) /\ InOrder(relaunches[t]) /\ InOrder(spawned[t])
        /\ Len(sends[t]) <= MaxSends /\ Len(relaunches[t]) <= MaxRelaunches
        /\ Covers(relaunches[t], spawned[t]) /\ Len(spawned[t]) < next_id
    BY <1>1 DEF BudgetsKept
  <2>3. /\ Aged(sends[t]) \in Stamps /\ InOrder(Aged(sends[t])) /\ Len(Aged(sends[t])) <= Len(sends[t])
    BY <2>2, AgedFacts
  <2>4. /\ Aged(relaunches[t]) \in Stamps /\ InOrder(Aged(relaunches[t]))
        /\ Len(Aged(relaunches[t])) <= Len(relaunches[t])
    BY <2>2, AgedFacts
  <2>5. /\ Aged(spawned[t]) \in Stamps /\ InOrder(Aged(spawned[t])) /\ Len(Aged(spawned[t])) <= Len(spawned[t])
    BY <2>2, AgedFacts
  <2>6. Covers(Aged(relaunches[t]), Aged(spawned[t]))
    BY <2>2, AgedCovers
  <2>7. /\ Len(sends[t]) \in Nat /\ Len(relaunches[t]) \in Nat /\ Len(spawned[t]) \in Nat
        /\ Len(Aged(sends[t])) \in Nat /\ Len(Aged(relaunches[t])) \in Nat /\ Len(Aged(spawned[t])) \in Nat
        /\ next_id \in Nat /\ MaxSends \in Nat /\ MaxRelaunches \in Nat
    BY <1>1, <2>2, <2>3, <2>4, <2>5, SetFacts, LimitAssumption DEF Stamps
  <2> QED BY <1>2, <2>1, <2>2, <2>3, <2>4, <2>5, <2>6, <2>7
<1>12. BudgetsKept'
  <2>1. /\ sends' \in [PaneIds -> Stamps] /\ relaunches' \in [PaneIds -> Stamps]
        /\ spawned' \in [PaneIds -> Stamps]
    BY <1>2, <1>11
  <2> QED BY <1>11, <2>1 DEF BudgetsKept, InOrder, Covers
<1> QED BY <1>7, <1>8, <1>9, <1>10, <1>12 DEF PluginsInv

LEMMA SendKeeps ==
    ASSUME PluginsInv, NEW n \in Names, NEW p \in PaneIds, NEW generation, SendInput(n, p, generation)
    PROVE  PluginsInv'
<1> DEFINE t == slots[p].token
           one == Append(sends[t], Window)
<1>1. PluginType /\ Structure /\ Watched /\ BudgetsKept
  BY DEF PluginsInv, Structure, Watched
<1>2. /\ slots[p] # NoSlot /\ Len(sends[t]) < MaxSends /\ sends' = [sends EXCEPT ![t] = one]
      /\ UNCHANGED <<backend, watching, pending, recovery, relaunches, spawned, events>>
  BY DEF SendInput, PaneFacts, HasSlot, Unspent
<1>3. t \in PaneIds
  BY <1>1, <1>2, SetFacts DEF Slot
<1>4. sends[t] \in Stamps /\ InOrder(sends[t]) /\ sends \in [PaneIds -> Stamps]
  BY <1>1, <1>3 DEF BudgetsKept
<1>5. one \in Stamps /\ Len(one) = Len(sends[t]) + 1 /\ InOrder(one)
  BY <1>4, SpentFacts
<1>6. Len(one) <= MaxSends
  BY <1>2, <1>4, <1>5, LimitAssumption DEF Stamps
<1> HIDE DEF one, t
<1>7. sends' \in [PaneIds -> Stamps] /\ sends'[t] = one /\ \A u \in PaneIds \ {t} : sends'[u] = sends[u]
  BY <1>2, <1>3, <1>4, <1>5
<1>8. BudgetsKept'
  <2>1. \A u \in PaneIds : InOrder(sends'[u]) /\ Len(sends'[u]) <= MaxSends
    BY <1>1, <1>5, <1>6, <1>7 DEF BudgetsKept
  <2>2. next_id' = next_id /\ relaunches' = relaunches /\ spawned' = spawned
    BY <1>2 DEF backend
  <2> QED BY <1>1, <1>7, <2>1, <2>2 DEF BudgetsKept, InOrder, Covers
<1>9. Structure' /\ Watched'
  BY <1>1, <1>2, StructureStays, WatchedStays DEF backend, watching, events
<1>10. PluginType'
  BY <1>1, <1>2 DEF PluginType, backend, watching, events
<1> QED BY <1>8, <1>9, <1>10 DEF PluginsInv, Structure, Watched

LEMMA StatusKeeps ==
    ASSUME PluginsInv, NEW n \in Names, NEW p \in PaneIds, NEW generation, NEW cancelled \in BOOLEAN,
           Status(n, p, generation, cancelled)
    PROVE  PluginsInv'
<1>1. PluginType /\ Structure /\ SlotsKept /\ Watched /\ BudgetsKept
  BY DEF PluginsInv, Structure, Watched
<1>2. /\ HasSlot(p) /\ owners[p] = n /\ recovery' \subseteq recovery \cup {p}
      /\ UNCHANGED <<backend, watching, pending, budgets, events>>
  BY DEF Status, PaneFacts
<1>3. Structure' /\ Live' = Live /\ Held' = Held
  BY <1>1, <1>2, StructureStays DEF backend
<1>4. /\ slots' = slots /\ owners' = owners /\ intended' = intended /\ hosts' = hosts /\ told' = told
  BY <1>2 DEF backend, watching, events
<1>5. OwnersRun' /\ HoldsOwned' /\ FirstSpawnKept'
  BY <1>1, <1>3, <1>4 DEF Watched, OwnersRun, HoldsOwned, FirstSpawnKept
<1>6. ReportsOwned'
  <2>1. n # NoName
    BY NameAssumption
  <2>2. p \in Live \cup Held
    BY <1>1, <1>2 DEF SlotsKept
  <2> QED BY <1>1, <1>2, <1>3, <1>4, <2>1, <2>2 DEF Watched, ReportsOwned
<1>7. BudgetsKept'
  BY <1>1, <1>2, BudgetsStay, SetFacts DEF backend
<1>8. PluginType'
  <2>1. recovery' \in SUBSET PaneIds
    BY <1>1, <1>2 DEF PluginType
  <2> QED BY <1>1, <1>2, <2>1 DEF PluginType, backend, watching, events
<1> QED BY <1>3, <1>5, <1>6, <1>7, <1>8 DEF PluginsInv, Structure

LEMMA WatchKeeps ==
    ASSUME PluginsInv, NEW n \in Names, NEW p \in PaneIds, WatchPane(n, p)
    PROVE  PluginsInv'
<1>1. PluginType /\ Structure /\ Watched /\ BudgetsKept
  BY DEF PluginsInv, Structure, Watched
<1>2. /\ n \in hosts /\ p \in Live /\ intended' = [intended EXCEPT ![p] = n]
      /\ owners' = [owners EXCEPT ![p] = n] /\ told' = told \cup {p}
      /\ UNCHANGED <<backend, hosts, launched, watch_on_signal, pending, recovery, budgets, idle_announced>>
  BY DEF WatchPane
<1>3. Structure' /\ Live' = Live /\ Held' = Held
  BY <1>1, <1>2, StructureStays DEF backend
<1>4. n # NoName
  BY NameAssumption
<1>5. /\ slots' = slots /\ hosts' = hosts /\ recovery' = recovery
  BY <1>2 DEF backend
<1>6. /\ owners' \in [PaneIds -> Names \cup {NoName}] /\ intended' \in [PaneIds -> Names \cup {NoName}]
      /\ owners'[p] = n /\ intended'[p] = n
      /\ \A r \in PaneIds \ {p} : owners'[r] = owners[r] /\ intended'[r] = intended[r]
  BY <1>1, <1>2 DEF PluginType
<1>7. Live \subseteq PaneIds /\ Held \subseteq PaneIds /\ recovery \subseteq PaneIds
  BY <1>1, SetFacts DEF PluginType
<1>8. OwnersRun'
  BY <1>1, <1>2, <1>5, <1>6 DEF Watched, OwnersRun
<1>9. HoldsOwned' /\ ReportsOwned'
  BY <1>1, <1>3, <1>4, <1>5, <1>6, <1>7 DEF Watched, HoldsOwned, ReportsOwned
<1>10. FirstSpawnKept'
  BY <1>1, <1>2, <1>3, <1>5, <1>6, <1>7 DEF Watched, FirstSpawnKept
<1>11. BudgetsKept'
  BY <1>1, <1>2, BudgetsStay, SetFacts DEF backend
<1>12. PluginType'
  <2>1. told' \in SUBSET PaneIds
    BY <1>1, <1>2 DEF PluginType
  <2> QED BY <1>1, <1>2, <1>6, <2>1 DEF PluginType, backend
<1> QED BY <1>3, <1>8, <1>9, <1>10, <1>11, <1>12 DEF PluginsInv, Structure

\* What an approval spends, and what it was spent on.
LEMMA JudgeFacts ==
    ASSUME PluginsInv, NEW n \in Names, NEW p \in PaneIds, NEW generation, JudgeRelaunch(n, p, generation)
    PROVE  /\ n \in hosts /\ slots[p] \in Slot /\ owners[p] = n /\ p \notin Live
           /\ relaunches' = [relaunches EXCEPT ![slots[p].token] = Append(relaunches[slots[p].token], Window)]
           /\ sends' = sends /\ Len(relaunches[slots[p].token]) < MaxRelaunches
BY SetFacts DEF PluginsInv, JudgeRelaunch, PaneFacts, HasSlot, Unspent

\* An approval alone, and one that brought a process up.
LEMMA JudgeKeeps ==
    ASSUME PluginsInv, NEW t \in PaneIds, Len(relaunches[t]) < MaxRelaunches,
           relaunches' = [relaunches EXCEPT ![t] = Append(relaunches[t], Window)], sends' = sends,
           \/ next_id' = next_id /\ spawned' = spawned
           \/ next_id' = next_id + 1 /\ spawned' = [spawned EXCEPT ![t] = Append(spawned[t], Window)]
    PROVE  BudgetsKept'
<1> DEFINE one == Append(relaunches[t], Window)
           more == Append(spawned[t], Window)
<1>1. BudgetsKept /\ next_id \in Nat /\ MaxRelaunches \in Nat
  BY SetFacts, LimitAssumption DEF PluginsInv
<1>2. /\ relaunches[t] \in Stamps /\ InOrder(relaunches[t]) /\ spawned[t] \in Stamps /\ InOrder(spawned[t])
      /\ Covers(relaunches[t], spawned[t]) /\ Len(spawned[t]) < next_id
      /\ relaunches \in [PaneIds -> Stamps] /\ spawned \in [PaneIds -> Stamps]
  BY <1>1 DEF BudgetsKept
<1>3. one \in Stamps /\ Len(one) = Len(relaunches[t]) + 1 /\ InOrder(one)
  BY <1>2, SpentFacts
<1>4. more \in Stamps /\ Len(more) = Len(spawned[t]) + 1 /\ InOrder(more)
  BY <1>2, SpentFacts
<1>5. Covers(one, spawned[t]) /\ Covers(one, more)
  BY <1>2, SpentCovers
<1>6. Len(relaunches[t]) \in Nat /\ \A u \in PaneIds : Len(spawned[u]) \in Nat
  BY <1>2 DEF Stamps
<1>7. \/ next_id' = next_id /\ spawned' = spawned
      \/ next_id' = next_id + 1 /\ spawned' = [spawned EXCEPT ![t] = more]
  OBVIOUS
<1>8. relaunches' = [relaunches EXCEPT ![t] = one]
  OBVIOUS
<1> HIDE DEF one, more
<1>9. relaunches' \in [PaneIds -> Stamps] /\ relaunches'[t] = one
      /\ \A u \in PaneIds \ {t} : relaunches'[u] = relaunches[u]
  BY <1>2, <1>3, <1>8
<1>10. /\ spawned' \in [PaneIds -> Stamps] /\ InOrder(spawned'[t]) /\ Covers(relaunches'[t], spawned'[t])
       /\ Len(spawned'[t]) < next_id' /\ next_id <= next_id' /\ next_id' \in Nat
       /\ \A u \in PaneIds \ {t} : spawned'[u] = spawned[u]
  <2>1. CASE next_id' = next_id /\ spawned' = spawned
    <3>1. Covers(relaunches'[t], spawned'[t])
      BY <1>5, <1>9, <2>1
    <3>2. next_id <= next_id'
      BY <1>1, <2>1
    <3> QED BY <1>1, <1>2, <2>1, <3>1, <3>2
  <2>2. CASE next_id' = next_id + 1 /\ spawned' = [spawned EXCEPT ![t] = more]
    <3>1. spawned' \in [PaneIds -> Stamps] /\ spawned'[t] = more /\ \A u \in PaneIds \ {t} : spawned'[u] = spawned[u]
      BY <1>2, <1>4, <2>2
    <3>2. Len(more) < next_id' /\ next_id <= next_id' /\ next_id' \in Nat
      BY <1>1, <1>2, <1>4, <1>6, <2>2
    <3> QED BY <1>4, <1>5, <1>9, <3>1, <3>2
  <2> QED BY <1>7, <2>1, <2>2
<1>11. ASSUME NEW u \in PaneIds
       PROVE  /\ InOrder(sends'[u]) /\ InOrder(relaunches'[u]) /\ InOrder(spawned'[u])
              /\ Len(sends'[u]) <= MaxSends /\ Len(relaunches'[u]) <= MaxRelaunches
              /\ Covers(relaunches'[u], spawned'[u])
              /\ Len(spawned'[u]) < next_id'
  <2>1. CASE u = t
    <3>1. Len(one) <= MaxRelaunches
      BY <1>1, <1>3, <1>6
    <3>2. InOrder(sends'[u]) /\ Len(sends'[u]) <= MaxSends
      BY <1>1 DEF BudgetsKept
    <3> QED BY <1>3, <1>9, <1>10, <2>1, <3>1, <3>2
  <2>2. CASE u # t
    <3>1. Len(spawned[u]) < next_id
      BY <1>1 DEF BudgetsKept
    <3>2. Len(spawned[u]) < next_id'
      BY <1>1, <1>6, <1>10, <3>1
    <3> QED BY <1>1, <1>9, <1>10, <2>2, <3>2 DEF BudgetsKept
  <2> QED BY <2>1, <2>2
<1>12. sends' \in [PaneIds -> Stamps]
  BY <1>1 DEF BudgetsKept
<1> QED BY <1>9, <1>10, <1>11, <1>12 DEF BudgetsKept, InOrder, Covers

LEMMA PutBackFacts ==
    ASSUME PluginType, NoRepeats(panes), NEW q \in PaneIds, q \notin Live, NEW h \in Hold, Len(panes) < Cap
    PROVE  /\ PutBack(q, h.index) \in Seq(PaneIds) /\ Len(PutBack(q, h.index)) <= Cap
           /\ ToSet(PutBack(q, h.index)) = Live \cup {q} /\ NoRepeats(PutBack(q, h.index))
<1> DEFINE k == IF h.index <= Len(panes) THEN h.index ELSE Len(panes) + 1
<1>1. panes \in Seq(PaneIds) /\ Len(panes) \in Nat /\ Cap \in Nat
  BY SetFacts DEF PluginType
<1>2. h.index \in Nat /\ 1 <= h.index
  BY <1>1 DEF Hold
<1>3. k \in 1 .. Len(panes) + 1
  BY <1>1, <1>2
<1>4. PutBack(q, h.index) = InsertAt(panes, k, q)
  BY DEF PutBack
<1> HIDE DEF k
<1>5. /\ InsertAt(panes, k, q) \in Seq(PaneIds) /\ Len(InsertAt(panes, k, q)) = Len(panes) + 1
      /\ ToSet(InsertAt(panes, k, q)) = ToSet(panes) \cup {q} /\ NoRepeats(InsertAt(panes, k, q))
  BY <1>1, <1>3, InsertEntries DEF Live
<1> QED BY <1>1, <1>4, <1>5 DEF Live

LEMMA RelaunchKeeps ==
    ASSUME PluginsInv, NEW n \in Names, NEW p \in PaneIds, NEW generation, Relaunch(n, p, generation)
    PROVE  PluginsInv'
<1> DEFINE q == next_id
           t == slots[p].token
           slot == [slots[p] EXCEPT !.generation = @ + 1]
<1>1. PluginType /\ SpawnedOnce /\ SlotsKept /\ Watched /\ BudgetsKept
  BY DEF PluginsInv, Watched
<1>2. /\ Live \subseteq PaneIds /\ Held \subseteq PaneIds /\ q \in Nat /\ 1 <= q
      /\ MaxPaneIds \in Nat /\ Cap \in Nat /\ (\A s \in Slot : s # NoSlot)
      /\ \A h \in Hold : h # NoHold
  BY <1>1, SetFacts
<1>3. /\ p \in Held /\ JudgeRelaunch(n, p, generation) /\ Len(panes) < Cap
      /\ q <= MaxPaneIds /\ next_id' = q + 1 /\ idle' = [idle EXCEPT ![q] = 0]
      /\ slots' = [slots EXCEPT ![p] = NoSlot, ![q] = slot]
      /\ panes' = PutBack(q, pending[p].index)
      /\ pending' = [pending EXCEPT ![p] = NoHold]
      /\ owners' = [owners EXCEPT ![p] = NoName, ![q] = owners[p]]
      /\ told' = (told \ {p}) \cup {q}
      /\ spawned' = [spawned EXCEPT ![slot.token] = Append(spawned[slot.token], Window)]
      /\ idle_announced' = idle_announced \ {p}
      /\ recovery' = recovery \ {p}
      /\ intended' = intended /\ hosts' = hosts /\ launched' = launched /\ watch_on_signal' = watch_on_signal
  BY DEF Relaunch, SpawnPane, TakeOver, EndRecovery
<1>4. /\ n \in hosts /\ slots[p] \in Slot /\ owners[p] = n /\ p \notin Live
      /\ relaunches' = [relaunches EXCEPT ![t] = Append(relaunches[t], Window)]
      /\ sends' = sends /\ Len(relaunches[t]) < MaxRelaunches
  BY <1>3, JudgeFacts
<1>5. q \in PaneIds
  BY <1>2, <1>3 DEF PaneIds
<1>6. q \notin Live /\ q \notin Held /\ slots[q] = NoSlot /\ p < q /\ p # q /\ p \in Nat
  BY <1>1, <1>2, <1>3, <1>5, SetFacts DEF SpawnedOnce, HasSlot
<1>7. t \in PaneIds /\ t <= p /\ slots[p].generation \in Nat /\ slots[p].generation < p /\ slots[p] # NoSlot
  BY <1>1, <1>2, <1>4 DEF SpawnedOnce, HasSlot, Slot
<1>8. /\ slot.token = t /\ slot.generation = slots[p].generation + 1
      /\ slot = [token |-> t, generation |-> slots[p].generation + 1, command |-> slots[p].command]
  BY <1>4 DEF Slot
<1>9. slot \in Slot /\ slot # NoSlot
  <2>1. slots[p].generation + 1 \in 0 .. MaxPaneIds
    BY <1>2, <1>3, <1>6, <1>7
  <2>2. slots[p].command \in BOOLEAN
    BY <1>4 DEF Slot
  <2>3. slot \in Slot
    BY <1>7, <1>8, <2>1, <2>2 DEF Slot
  <2> QED BY <1>2, <2>3
<1> HIDE DEF slot
<1>10. /\ slots' \in [PaneIds -> Slot \cup {NoSlot}]
       /\ slots'[p] = NoSlot /\ slots'[q] = slot /\ \A r \in PaneIds \ {p, q} : slots'[r] = slots[r]
  <2>1. slots \in [PaneIds -> Slot \cup {NoSlot}]
    BY <1>1 DEF PluginType
  <2> QED BY <1>3, <1>5, <1>6, <1>9, <2>1
<1>11. /\ owners' \in [PaneIds -> Names \cup {NoName}]
       /\ owners'[p] = NoName /\ owners'[q] = n /\ \A r \in PaneIds \ {p, q} : owners'[r] = owners[r]
  <2>1. owners \in [PaneIds -> Names \cup {NoName}]
    BY <1>1 DEF PluginType
  <2> QED BY <1>3, <1>4, <1>5, <1>6, <2>1
<1>12. pending[p] \in Hold /\ pending' \in [PaneIds -> Hold \cup {NoHold}] /\ Held' = Held \ {p}
  <2>1. pending \in [PaneIds -> Hold \cup {NoHold}]
    BY <1>1 DEF PluginType
  <2> QED BY <1>3, <2>1 DEF Held
<1>13. /\ panes' \in Seq(PaneIds) /\ Len(panes') <= Cap /\ Live' = Live \cup {q} /\ NoRepeats(panes)'
  <2>1. NoRepeats(panes)
    BY <1>1 DEF SpawnedOnce
  <2>2. /\ panes' \in Seq(PaneIds) /\ Len(panes') <= Cap
        /\ ToSet(panes') = Live \cup {q} /\ NoRepeats(panes')
    BY <1>1, <1>3, <1>5, <1>6, <1>12, <2>1, PutBackFacts
  <2> QED BY <2>2 DEF Live, NoRepeats
<1>14. PluginType'
  <2>1. idle' \in [PaneIds -> 0 .. MinIdle]
    BY <1>1, <1>3, QuietType
  <2>2. next_id' \in 1 .. MaxPaneIds + 1
    BY <1>2, <1>3
  <2>3. told' \in SUBSET PaneIds /\ idle_announced' \in SUBSET PaneIds /\ recovery' \in SUBSET PaneIds
    BY <1>1, <1>3, <1>5 DEF PluginType
  <2> QED BY <1>1, <1>3, <1>10, <1>11, <1>12, <1>13, <2>1, <2>2, <2>3 DEF PluginType
<1>15. SpawnedOnce'
  <2>1. \A r \in PaneIds : (r \in Live' \cup Held' \/ slots'[r] # NoSlot) => r < next_id'
    <3>1. \A r \in PaneIds : r < q => r < next_id'
      BY <1>2, <1>3, SetFacts, <1>1
    <3>2. q < next_id'
      BY <1>2, <1>3
    <3> QED BY <1>1, <1>10, <1>12, <1>13, <3>1, <3>2 DEF SpawnedOnce, HasSlot
  <2>2. slot.generation < q /\ slot.token <= q
    <3>1. t \in Nat /\ p \in Nat /\ q \in Nat
      BY <1>1, <1>2, <1>7, SetFacts
    <3> QED BY <1>6, <1>7, <1>8, <3>1
  <2>3. \A r \in PaneIds : slots'[r] # NoSlot => slots'[r].generation < r /\ slots'[r].token <= r
    <3>1. \A r \in PaneIds \ {p, q} : slots[r] # NoSlot => slots[r].generation < r /\ slots[r].token <= r
      BY <1>1 DEF SpawnedOnce, HasSlot
    <3> QED BY <1>10, <2>2, <3>1
  <2> QED BY <1>13, <2>1, <2>3 DEF SpawnedOnce, HasSlot
<1>16. SlotsKept'
  <2>1. \A r \in Live' : slots'[r] # NoSlot /\ r \notin Held'
    BY <1>1, <1>2, <1>4, <1>6, <1>9, <1>10, <1>12, <1>13 DEF SlotsKept, HasSlot
  <2>2. \A r \in PaneIds : slots'[r] # NoSlot => r \in Live' \cup Held'
    BY <1>1, <1>10, <1>12, <1>13 DEF SlotsKept, HasSlot
  <2>3. \A r \in PaneIds \ {p} : slots[r] # NoSlot => slots[r].token # t
    BY <1>1, <1>7 DEF SlotsKept, HasSlot
  <2>4. \A r, s \in PaneIds : slots'[r] # NoSlot /\ slots'[s] # NoSlot /\ slots'[r].token = slots'[s].token
                                 => r = s
    BY <1>1, <1>8, <1>10, <2>3 DEF SlotsKept, HasSlot
  <2> QED BY <2>1, <2>2, <2>4 DEF SlotsKept, HasSlot
<1>17. OwnersRun'
  BY <1>1, <1>3, <1>4, <1>11 DEF Watched, OwnersRun
<1>18. HoldsOwned'
  BY <1>1, <1>2, <1>6, <1>11, <1>12 DEF Watched, HoldsOwned
<1>19. ReportsOwned'
  BY <1>1, <1>2, <1>3, <1>6, <1>11, <1>12, <1>13 DEF Watched, ReportsOwned
<1>20. FirstSpawnKept'
  <2>1. slot.generation # 0
    BY <1>7, <1>8
  <2>2. ASSUME NEW r \in Live', slots'[r].generation = 0, owners'[r] # NoName
        PROVE  owners'[r] = intended'[r] /\ r \in told'
    <3>1. r \in Live /\ r # q /\ r # p
      BY <1>4, <1>10, <1>13, <2>1, <2>2
    <3> QED BY <1>1, <1>2, <1>3, <1>10, <1>11, <2>2, <3>1 DEF Watched, FirstSpawnKept
  <2> QED BY <2>2 DEF FirstSpawnKept
<1>21. BudgetsKept'
  <2>1. next_id' = next_id + 1 /\ spawned' = [spawned EXCEPT ![t] = Append(spawned[t], Window)]
    BY <1>3, <1>8
  <2> QED BY <1>4, <1>7, <2>1, JudgeKeeps
<1> QED BY <1>14, <1>15, <1>16, <1>17, <1>18, <1>19, <1>20, <1>21 DEF PluginsInv

LEMMA RelaunchFailsKeeps ==
    ASSUME PluginsInv, NEW n \in Names, NEW p \in PaneIds, NEW generation, NEW spawning \in BOOLEAN,
           RelaunchFails(n, p, generation, spawning)
    PROVE  PluginsInv'
<1>1. PluginType /\ SpawnedOnce /\ SlotsKept /\ Watched /\ BudgetsKept
  BY DEF PluginsInv, Watched
<1>2. /\ p \in Held /\ JudgeRelaunch(n, p, generation) /\ (Retire({p}) \/ slots' = slots)
      /\ next_id' = next_id /\ panes' = panes /\ idle' = idle /\ UNCHANGED watching
      /\ pending' = pending /\ recovery' = recovery /\ spawned' = spawned /\ UNCHANGED events
  BY DEF RelaunchFails
<1>3. slots' \in [PaneIds -> Slot \cup {NoSlot}]
  BY <1>1, <1>2, RetireType DEF PluginType
<1>4. \A r \in PaneIds \ {p} : slots'[r] = slots[r]
  BY <1>2 DEF Retire
<1>5. slots'[p] = NoSlot \/ slots'[p] = slots[p]
  BY <1>2 DEF Retire
<1>6. Live' = Live /\ Held' = Held /\ Live \subseteq PaneIds /\ p \notin Live
  BY <1>1, <1>2, SetFacts DEF Live, Held, SlotsKept
<1>7. PluginType'
  BY <1>1, <1>2, <1>3 DEF PluginType, watching, events
<1>8. SpawnedOnce'
  BY <1>1, <1>2, <1>4, <1>5, <1>6 DEF SpawnedOnce, NoRepeats, HasSlot
<1>9. SlotsKept'
  BY <1>1, <1>2, <1>4, <1>5, <1>6 DEF SlotsKept, HasSlot
<1>10. /\ owners' = owners /\ intended' = intended /\ hosts' = hosts /\ told' = told
  BY <1>2 DEF watching, events
<1>11. OwnersRun' /\ HoldsOwned' /\ ReportsOwned'
  BY <1>1, <1>2, <1>6, <1>10 DEF Watched, OwnersRun, HoldsOwned, ReportsOwned
<1>12. FirstSpawnKept'
  BY <1>1, <1>4, <1>6, <1>10 DEF Watched, FirstSpawnKept
<1>13. BudgetsKept'
  <2> DEFINE t == slots[p].token
  <2>1. /\ slots[p] \in Slot /\ sends' = sends /\ Len(relaunches[t]) < MaxRelaunches
        /\ relaunches' = [relaunches EXCEPT ![t] = Append(relaunches[t], Window)]
    BY <1>2, JudgeFacts
  <2>2. t \in PaneIds
    BY <2>1 DEF Slot
  <2> QED BY <1>2, <2>1, <2>2, JudgeKeeps
<1> QED BY <1>7, <1>8, <1>9, <1>11, <1>12, <1>13 DEF PluginsInv

LEMMA LaunchSpec ==
    ASSUME NEW c \in Config, c.enabled
    PROVE  c.spec \in Specs
<1>1. CASE c \in [enabled : {TRUE}, watch : BOOLEAN, spec : Specs]
  BY <1>1
<1>2. c # Off
  <2>1. Off.enabled = FALSE
    BY DEF Off
  <2> QED BY <2>1, Zenon
<1> QED BY <1>1, <1>2 DEF Config

\* A plugin that is left without a child has no pane and no hold; a pane in
\* its first process goes to the new child.
LEMMA ReloadKeeps ==
    ASSUME PluginsInv, NEW cfg \in Tables, NEW failed \in SUBSET Names, ReloadPlugins(cfg, failed)
    PROVE  PluginsInv'
<1> DEFINE wanted == Wanted(cfg)
           kept == Kept(cfg)
           up == wanted \ failed
           gone == Abandoned(cfg, failed)
           retired == RetiredBy(cfg)
           released == {p \in PaneIds \ retired : owners[p] \in gone}
           handed == HandedOver(cfg, failed)
           loose == retired \cup released
<1>1. PluginType /\ SpawnedOnce /\ SlotsKept /\ Watched /\ BudgetsKept
  BY DEF PluginsInv, Watched
<1>2. /\ failed \subseteq wanted \ kept /\ hosts' = up
      /\ launched' = [n \in Names |-> IF n \in up THEN cfg[n].spec ELSE NoSpec]
      /\ watch_on_signal' = (watch_on_signal \ (gone \cup up)) \cup {n \in up : cfg[n].watch}
      /\ owners' = [p \in PaneIds |-> IF p \in handed THEN intended[p]
                                      ELSE IF p \in loose THEN NoName ELSE owners[p]]
      /\ pending' = [p \in PaneIds |-> IF p \in loose THEN NoHold ELSE pending[p]]
      /\ Cancel(loose) /\ Retire(retired)
      /\ idle_announced' = idle_announced \ loose
      /\ told' = {p \in told : owners[p] \in kept} \cup handed
      /\ EndRecovery(loose)
      /\ next_id' = next_id /\ panes' = panes /\ idle' = idle /\ intended' = intended
  BY DEF ReloadPlugins
<1>3. /\ wanted \subseteq Names /\ kept \subseteq hosts \cap wanted
      /\ gone = (hosts \ wanted) \cup (failed \ kept)
      /\ retired = {p \in Held : owners[p] \in hosts \ kept}
      /\ handed = {p \in Live : intended[p] \in wanted \ (kept \cup failed)}
  BY DEF Wanted, Kept, Abandoned, RetiredBy, HandedOver
<1>4. \A n \in wanted : cfg[n].spec \in Specs
  <2>1. \A n \in wanted : cfg[n].enabled /\ cfg[n] \in Config
    BY TableAssumption DEF Wanted
  <2> QED BY <2>1, LaunchSpec
<1>5. /\ Live \subseteq PaneIds /\ Held \subseteq PaneIds /\ recovery \subseteq PaneIds
      /\ \A p \in PaneIds : owners[p] \in Names \cup {NoName} /\ intended[p] \in Names \cup {NoName}
  BY <1>1, SetFacts DEF PluginType
<1>6. NoName \notin Names /\ hosts \subseteq Names
  BY <1>1, NameAssumption DEF PluginType
<1> HIDE DEF wanted, kept, gone, retired, handed
<1>7. gone \cap up = {} /\ gone \cap kept = {}
  BY <1>2, <1>3
<1>8. released \cap Held = {}
  <2>1. \A p \in Held : owners[p] \in hosts
    BY <1>1, <1>5 DEF Watched, HoldsOwned, OwnersRun
  <2> QED BY <1>3, <1>7, <2>1
<1>9. retired \subseteq Held /\ retired \cap Live = {} /\ handed \subseteq Live
  BY <1>1, <1>3 DEF SlotsKept
<1>10. \A p \in PaneIds : owners[p] # NoName /\ p \notin loose => owners[p] \in up
  <2>1. \A p \in PaneIds : owners[p] # NoName => owners[p] \in hosts
    BY <1>1 DEF Watched, OwnersRun
  <2> QED BY <1>2, <1>3, <2>1
<1>11. /\ \A p \in handed : owners'[p] = intended[p] /\ intended[p] \in up
       /\ \A p \in PaneIds \ handed : owners'[p] = IF p \in loose THEN NoName ELSE owners[p]
  BY <1>2, <1>3, <1>5, <1>9
<1>12. Live' = Live
  BY <1>2 DEF Live
<1> HIDE DEF released
<1>13. loose \subseteq PaneIds /\ released \subseteq PaneIds
  BY <1>5, <1>9 DEF released
<1>14. Held' = Held \ retired /\ Held \cap loose = retired
  <2>1. Held \cap loose = retired
    BY <1>8, <1>9
  <2>2. Held' = Held \ loose
    BY <1>2 DEF Held
  <2> QED BY <2>1, <2>2
<1>15. \A p \in PaneIds : slots'[p] = IF p \in retired THEN NoSlot ELSE slots[p]
  BY <1>2 DEF Retire
<1>16. recovery' = recovery \ loose
  BY <1>2 DEF EndRecovery
<1>17. PluginType'
  <2>1. hosts' \in SUBSET Names
    BY <1>2, <1>3
  <2>2. launched' \in [Names -> Specs \cup {NoSpec}]
    BY <1>2, <1>4
  <2>3. watch_on_signal' \in SUBSET Names
    BY <1>1, <1>2, <1>3 DEF PluginType
  <2>4. owners' \in [PaneIds -> Names \cup {NoName}]
    BY <1>2, <1>5
  <2>5. pending' \in [PaneIds -> Hold \cup {NoHold}]
    BY <1>1, <1>2 DEF PluginType
  <2>6. slots' \in [PaneIds -> Slot \cup {NoSlot}]
    BY <1>1, <1>2, RetireType
  <2>7. idle_announced' \in SUBSET PaneIds /\ told' \in SUBSET PaneIds /\ recovery' \in SUBSET PaneIds
    BY <1>1, <1>2, <1>5, <1>9, <1>16 DEF PluginType
  <2> QED BY <1>1, <1>2, <2>1, <2>2, <2>3, <2>4, <2>5, <2>6, <2>7 DEF PluginType
<1>18. SpawnedOnce'
  BY <1>1, <1>2, <1>12, <1>14, <1>15 DEF SpawnedOnce, NoRepeats, HasSlot
<1>19. SlotsKept'
  BY <1>1, <1>5, <1>9, <1>12, <1>14, <1>15 DEF SlotsKept, HasSlot
<1>20. OwnersRun'
  BY <1>2, <1>10, <1>11 DEF OwnersRun
<1>21. HoldsOwned'
  <2> SUFFICES ASSUME NEW p \in Held' PROVE owners'[p] # NoName
    BY DEF HoldsOwned
  <2>1. p \in Held /\ p \notin loose
    BY <1>14
  <2>2. p \in PaneIds /\ p \notin handed
    BY <1>1, <1>5, <1>9, <2>1 DEF SlotsKept
  <2> QED BY <1>1, <1>11, <2>1, <2>2 DEF Watched, HoldsOwned
<1>22. ReportsOwned'
  <2> SUFFICES ASSUME NEW p \in recovery' PROVE owners'[p] # NoName /\ p \in Live' \cup Held'
    BY DEF ReportsOwned
  <2>1. p \in recovery /\ p \notin loose /\ p \in PaneIds /\ p \in Live \cup Held /\ owners[p] # NoName
    BY <1>1, <1>5, <1>16 DEF Watched, ReportsOwned
  <2>2. p \in Live' \cup Held'
    BY <1>12, <1>14, <2>1
  <2>3. NoName \notin up
    BY <1>3, <1>6
  <2>4. CASE p \in handed
    BY <1>11, <2>2, <2>3, <2>4
  <2>5. CASE p \notin handed
    BY <1>11, <2>1, <2>2, <2>5
  <2> QED BY <2>4, <2>5
<1>23. FirstSpawnKept'
  <2> SUFFICES ASSUME NEW p \in Live', slots'[p].generation = 0, owners'[p] # NoName
               PROVE  owners'[p] = intended'[p] /\ p \in told'
    BY DEF FirstSpawnKept
  <2>1. p \in Live /\ p \in PaneIds /\ slots[p].generation = 0
    BY <1>5, <1>9, <1>12, <1>15
  <2>2. CASE p \in handed
    BY <1>2, <1>11, <2>2
  <2>3. CASE p \notin handed
    <3>1. p \notin loose /\ owners'[p] = owners[p] /\ owners[p] # NoName
      BY <1>11, <2>1, <2>3
    <3>2. owners[p] = intended[p] /\ p \in told
      BY <1>1, <2>1, <3>1 DEF Watched, FirstSpawnKept
    <3>3. owners[p] \in up
      BY <1>10, <2>1, <3>1
    <3>4. owners[p] \in kept
      BY <1>3, <2>1, <2>3, <3>2, <3>3
    <3> QED BY <1>2, <3>1, <3>2, <3>4
  <2> QED BY <2>2, <2>3
<1>24. BudgetsKept'
  BY <1>1, <1>2, CancelKeeps
<1> QED BY <1>17, <1>18, <1>19, <1>20, <1>21, <1>22, <1>23, <1>24 DEF PluginsInv

----------------------------------------------------------------------------
(* The theorems *)

LEMMA PluginsStart ==
    ASSUME Init
    PROVE  PluginsInv
<1>1. /\ next_id = 1 /\ slots = [p \in PaneIds |-> NoSlot] /\ panes = <<>>
      /\ owners = [p \in PaneIds |-> NoName] /\ intended = [p \in PaneIds |-> NoName]
      /\ pending = [p \in PaneIds |-> NoHold] /\ recovery = {}
      /\ sends = [t \in PaneIds |-> <<>>] /\ relaunches = [t \in PaneIds |-> <<>>]
      /\ spawned = [t \in PaneIds |-> <<>>] /\ idle = [p \in PaneIds |-> 0]
      /\ idle_announced = {} /\ told = {}
  BY DEF Init
<1> DEFINE From(cfg, up) ==
             /\ hosts = up
             /\ launched = [n \in Names |-> IF n \in up THEN cfg[n].spec ELSE NoSpec]
             /\ watch_on_signal = {n \in up : cfg[n].watch}
<1>a. PICK cfg \in Tables : \E up \in SUBSET Wanted(cfg) : From(cfg, up)
  BY DEF Init
<1>b. PICK up \in SUBSET Wanted(cfg) : From(cfg, up)
  BY <1>a
<1>2. /\ hosts = up
      /\ launched = [n \in Names |-> IF n \in up THEN cfg[n].spec ELSE NoSpec]
      /\ watch_on_signal = {n \in up : cfg[n].watch}
  BY <1>b
<1>3. Live = {} /\ Held = {} /\ NoRepeats(panes)
  BY <1>1 DEF Live, Held, ToSet, NoRepeats
<1>4. PluginType
  <2>1. up \subseteq Names
    BY DEF Wanted
  <2>2. \A n \in up : cfg[n].enabled /\ cfg[n] \in Config
    BY TableAssumption DEF Wanted
  <2>3. \A n \in up : cfg[n].spec \in Specs
    BY <2>2, LaunchSpec
  <2>4. launched \in [Names -> Specs \cup {NoSpec}]
    BY <1>2, <2>3
  <2>5. next_id \in 1 .. MaxPaneIds + 1 /\ Len(panes) <= Cap /\ panes \in Seq(PaneIds)
    BY <1>1, LimitAssumption
  <2>6. idle \in [PaneIds -> 0 .. MinIdle]
    BY <1>1, LimitAssumption
  <2> QED BY <1>1, <1>2, <2>1, <2>4, <2>5, <2>6 DEF PluginType
<1>5. SpawnedOnce /\ SlotsKept
  BY <1>1, <1>3 DEF SpawnedOnce, SlotsKept, HasSlot
<1>6. OwnersRun /\ HoldsOwned /\ ReportsOwned /\ FirstSpawnKept
  BY <1>1, <1>3 DEF OwnersRun, HoldsOwned, ReportsOwned, FirstSpawnKept
<1>7. BudgetsKept
  <2>1. <<>> \in Stamps /\ Len(<<>>) = 0 /\ InOrder(<<>>) /\ Covers(<<>>, <<>>)
    BY DEF Stamps, InOrder, Covers
  <2>2. \A t \in PaneIds : sends[t] = <<>> /\ relaunches[t] = <<>> /\ spawned[t] = <<>>
    BY <1>1
  <2>3. 0 < next_id /\ 0 <= MaxSends /\ 0 <= MaxRelaunches
    BY <1>1, LimitAssumption
  <2>4. /\ sends \in [PaneIds -> Stamps] /\ relaunches \in [PaneIds -> Stamps] /\ spawned \in [PaneIds -> Stamps]
    BY <1>1, <2>1
  <2> QED BY <2>1, <2>2, <2>3, <2>4 DEF BudgetsKept
<1> QED BY <1>4, <1>5, <1>6, <1>7 DEF PluginsInv

LEMMA PluginsStep ==
    ASSUME PluginsInv, [Next]_vars
    PROVE  PluginsInv'
<1>1. CASE UNCHANGED vars
  <2>1. /\ PluginType /\ Structure /\ Watched /\ BudgetsKept /\ UNCHANGED budgets /\ next_id' = next_id
        /\ UNCHANGED <<backend, watching, pending, recovery, events>>
    BY <1>1 DEF vars, backend, PluginsInv, Structure, Watched
  <2>2. Structure' /\ Watched'
    BY <2>1, StructureStays, WatchedStays DEF backend, watching, events
  <2>3. BudgetsKept'
    BY <2>1, BudgetsStay, SetFacts
  <2>4. PluginType'
    BY <2>1 DEF PluginType, backend, watching, events
  <2> QED BY <2>2, <2>3, <2>4 DEF PluginsInv, Structure, Watched
<1>2. CASE Next
  <2>1. CASE \E named \in Names \cup {NoName}, command \in BOOLEAN : OpenPane(named, command)
    BY <2>1, OpenKeeps
  <2>2. CASE \E p \in PaneIds : ClosePane(p)
    BY <2>2, CloseKeeps
  <2>3. CASE \E p \in PaneIds : UserInput(p)
    BY <2>3, UserInputKeeps
  <2>4. CASE \E p \in PaneIds : CancelRecovery(p)
    BY <2>4, CancelRecoveryKeeps
  <2>5. CASE \E p \in PaneIds : PaneOutput(p)
    BY <2>5, OutputKeeps
  <2>6. CASE \E p \in PaneIds : PaneExited(p)
    BY <2>6, ExitedKeeps
  <2>7. CASE NotifyIdle
    BY <2>7, NotifyKeeps
  <2>8. CASE ExpirePending
    BY <2>8, ExpireKeeps
  <2>9. CASE Tick
    BY <2>9, TickKeeps
  <2>10. CASE PluginActs
    <3>1. PICK n \in Names, p \in PaneIds, generation \in 0 .. MaxPaneIds :
            \/ SendInput(n, p, generation)
            \/ \E cancelled \in BOOLEAN : Status(n, p, generation, cancelled)
            \/ Relaunch(n, p, generation)
            \/ \E spawning \in BOOLEAN : RelaunchFails(n, p, generation, spawning)
      BY <2>10 DEF PluginActs
    <3> QED BY <3>1, SendKeeps, StatusKeeps, RelaunchKeeps, RelaunchFailsKeeps
  <2>11. CASE \E n \in Names, p \in PaneIds : WatchPane(n, p)
    BY <2>11, WatchKeeps
  <2>12. CASE \E cfg \in Tables, failed \in SUBSET Names : ReloadPlugins(cfg, failed)
    BY <2>12, ReloadKeeps
  <2> QED BY <1>2, <2>1, <2>2, <2>3, <2>4, <2>5, <2>6, <2>7, <2>8, <2>9, <2>10, <2>11, <2>12 DEF Next
<1> QED BY <1>1, <1>2

\* Panes, slots, holds, owners, reports and budgets stay consistent through
\* every handler of the worker (hub_plugins*.rs, hub_reload*.rs, plugin/guard*.rs).
THEOREM PluginsInductive == Spec => []PluginsInv
<1>1. Init => PluginsInv
  BY PluginsStart
<1>2. PluginsInv /\ [Next]_vars => PluginsInv'
  BY PluginsStep
<1> QED BY <1>1, <1>2, PTL DEF Spec

\* What the hub promises about plugins: no hold without a plugin that runs, no
\* report nobody can end, no slot or token left over, no more relaunches in a
\* window than the guard allows, and no first process its plugin's child was
\* not told of (hub_plugins_slots.rs, hub_reload_hosts.rs, guard_budget.rs).
THEOREM PluginsAreRight == Spec => []PluginsRight
<1>1. PluginsInv => PluginsRight
  <2> SUFFICES ASSUME PluginsInv PROVE PluginsRight
    OBVIOUS
  <2>1. PluginType /\ SpawnedOnce /\ SlotsKept /\ Watched /\ BudgetsKept
    BY DEF PluginsInv, Watched
  <2>2. Live \subseteq PaneIds /\ Held \subseteq PaneIds /\ recovery \subseteq PaneIds
    BY <2>1, SetFacts DEF PluginType
  <2>3. HoldsAreWatched
    BY <2>1, <2>2 DEF HoldsAreWatched, Watched, HoldsOwned, OwnersRun, SlotsKept
  <2>4. ReportsAnswerable
    BY <2>1, <2>2 DEF ReportsAnswerable, Watched, ReportsOwned, OwnersRun
  <2>5. ASSUME NEW t \in PaneIds
        PROVE  /\ sends[t] \in Seq(1 .. Window) /\ relaunches[t] \in Seq(1 .. Window) /\ spawned[t] \in Seq(1 .. Window)
               /\ Len(sends[t]) <= MaxSends /\ Len(relaunches[t]) <= MaxRelaunches
               /\ Len(spawned[t]) <= MaxRelaunches /\ Len(spawned[t]) <= MaxPaneIds
    <3>1. /\ sends[t] \in Seq(1 .. Window) /\ relaunches[t] \in Seq(1 .. Window) /\ spawned[t] \in Seq(1 .. Window)
          /\ Len(sends[t]) <= MaxSends /\ Len(relaunches[t]) <= MaxRelaunches
          /\ Len(spawned[t]) <= Len(relaunches[t]) /\ Len(spawned[t]) < next_id
      BY <2>1 DEF BudgetsKept, Covers, Stamps
    <3>2. /\ Len(spawned[t]) \in Nat /\ Len(relaunches[t]) \in Nat /\ next_id \in 1 .. MaxPaneIds + 1
          /\ MaxPaneIds \in Nat /\ MaxRelaunches \in Nat
      BY <2>1, <3>1, LimitAssumption DEF PluginType
    <3> QED BY <3>1, <3>2
  <2>6. TypeOK
    BY <2>1, <2>5 DEF TypeOK, PluginType, Stamped, Hold
  <2>7. SlotsAccounted
    BY <2>1, <2>6 DEF SlotsAccounted, SlotsKept
  <2>8. RelaunchesBounded
    BY <2>5 DEF RelaunchesBounded
  <2>9. FirstSpawnKnown
    <3>1. NoName \notin hosts
      BY <2>1, NameAssumption DEF PluginType
    <3> QED BY <2>1, <3>1 DEF FirstSpawnKnown, Watched, FirstSpawnKept
  <2> QED BY <2>3, <2>4, <2>7, <2>8, <2>9 DEF PluginsRight
<1> QED BY <1>1, PluginsInductive, PTL
=============================================================================
