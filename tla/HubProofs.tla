------------------------------ MODULE HubProofs ------------------------------
(***************************************************************************)
(* A page that stays listed converges on its hub, for any number of pages, *)
(* panes, chunks, layouts and connections and any queues a replay fits in, *)
(* and no page is shown a new pane behind a zoom.                          *)
(*                                                                         *)
(* The pages are related to the hub through what is on its way to them: a  *)
(* page's final view is the view it has after every frame of its snapshot, *)
(* its queue and its gate. A broadcast of frames that turn every view of   *)
(* the old hub into one of the new keeps that relation (BroadcastKeeps),   *)
(* and so does each step of a page's own.                                  *)
(***************************************************************************)
EXTENDS TerminalHub, FiniteSetTheorems, SequenceTheorems, WellFoundedInduction, TLAPS

----------------------------------------------------------------------------
(* Loops: an accumulator that is changed once for each entry of a list *)

\* A set of naturals that is not empty has a least element.
LEMMA LeastOf ==
    ASSUME NEW T, T \subseteq Nat, T # {}
    PROVE  \E x \in T : \A y \in T : x =< y
<1> DEFINE R == OpToRel(<, Nat)
<1>1. IsWellFoundedOn(R, Nat)
  BY NatLessThanWellFounded
<1>2. \A x, y \in Nat : y < x => <<y, x>> \in R
  BY DEF OpToRel
<1> HIDE DEF R
<1>3. PICK x \in T : \A y \in T : ~ (<<y, x>> \in R)
  BY <1>1, WFMin
<1>4. ASSUME NEW y \in T PROVE x =< y
  <2>1. x \in Nat /\ y \in Nat
    OBVIOUS
  <2>2. ~(y < x)
    BY <1>2, <1>3, <2>1
  <2> QED BY <2>1, <2>2
<1> QED BY <1>4

\* What holds before a loop and is kept by each of its turns holds throughout.
\* Good is the set of the turns after which it holds.
LEMMA LoopInduction ==
    ASSUME NEW n \in Nat, NEW Good, 0 \in Good,
           \A i \in 1 .. n : i - 1 \in Good => i \in Good
    PROVE  \A i \in 0 .. n : i \in Good
<1> SUFFICES ASSUME NEW k \in 0 .. n, k \notin Good PROVE FALSE
  OBVIOUS
<1> DEFINE T == {i \in 0 .. n : i \notin Good}
<1>1. T \subseteq Nat /\ T # {}
  OBVIOUS
<1>2. PICK x \in T : \A y \in T : x =< y
  BY <1>1, LeastOf
<1>3. x \in 1 .. n
  BY <1>2
<1>4. x - 1 \in 0 .. n /\ x - 1 < x
  BY <1>3
<1>5. x - 1 \in Good
  BY <1>2, <1>4
<1> QED BY <1>2, <1>3, <1>5

\* What a loop has accumulated after each turn, when a turn is a function of
\* the accumulator and the turn's number.
Accumulates(S, n, base, turn, run) ==
    /\ run \in [0 .. n -> S] /\ run[0] = base
    /\ \A i \in 1 .. n : run[i] = turn[<<run[i - 1], i>>]

\* Such a loop has a run.
LEMMA LoopRuns ==
    ASSUME NEW S, NEW n \in Nat, NEW base \in S, NEW turn \in [S \X (1 .. n) -> S]
    PROVE  \E run : Accumulates(S, n, base, turn, run)
<1> DEFINE Runs(k, run) == /\ run \in [0 .. k -> S] /\ run[0] = base
                           /\ \A i \in 1 .. k : run[i] = turn[<<run[i - 1], i>>]
           Good == {k \in 0 .. n : \E run : Runs(k, run)}
<1>1. 0 \in Good
  <2> DEFINE run == [i \in 0 .. 0 |-> base]
  <2>1. Runs(0, run)
    OBVIOUS
  <2> HIDE DEF run, Runs
  <2> QED BY <2>1
<1>2. ASSUME NEW k \in 1 .. n, k - 1 \in Good PROVE k \in Good
  <2>1. PICK run : Runs(k - 1, run)
    BY <1>2
  <2> DEFINE next == [i \in 0 .. k |-> IF i = k THEN turn[<<run[k - 1], k>>] ELSE run[i]]
  <2>2. run[k - 1] \in S
    BY <2>1
  <2>3. turn[<<run[k - 1], k>>] \in S
    BY <2>2
  <2>4. next \in [0 .. k -> S] /\ next[0] = base
    BY <2>1, <2>3
  <2>5. ASSUME NEW i \in 1 .. k PROVE next[i] = turn[<<next[i - 1], i>>]
    <3>1. CASE i = k
      <4>1. k - 1 \in 0 .. k /\ k - 1 # k /\ k \in 0 .. k
        OBVIOUS
      <4>2. next[k - 1] = run[k - 1] /\ next[k] = turn[<<run[k - 1], k>>]
        BY <4>1
      <4> HIDE DEF next
      <4> QED BY <3>1, <4>2
    <3>2. CASE i # k
      <4>1. i \in 1 .. (k - 1) /\ i - 1 \in 0 .. k /\ i - 1 # k
        BY <3>2
      <4>2. next[i] = run[i] /\ next[i - 1] = run[i - 1]
        BY <3>2, <4>1
      <4>3. run[i] = turn[<<run[i - 1], i>>]
        BY <2>1, <4>1
      <4> QED BY <4>2, <4>3
    <3> QED BY <3>1, <3>2
  <2>6. Runs(k, next)
    BY <2>4, <2>5
  <2> HIDE DEF next, Runs
  <2> QED BY <2>6
<1> HIDE DEF Good
<1>3. n \in Good
  <2>1. n \in 0 .. n
    OBVIOUS
  <2> QED BY <1>1, <1>2, <2>1, LoopInduction
<1> QED BY <1>3 DEF Good, Accumulates

----------------------------------------------------------------------------
(* Lists of panes *)

NoRepeats(list) == \A i, j \in 1 .. Len(list) : list[i] = list[j] => i = j

\* The panes of a list.
LEMMA ListEntries ==
    ASSUME NEW list \in Seq(PaneIds)
    PROVE  /\ ToSet(list) = {list[i] : i \in 1 .. Len(list)}
           /\ ToSet(list) \subseteq PaneIds
BY DEF ToSet

\* A pane joins a list.
LEMMA AppendEntries ==
    ASSUME NEW list \in Seq(PaneIds), NEW p \in PaneIds
    PROVE  /\ Append(list, p) \in Seq(PaneIds) /\ Len(Append(list, p)) = Len(list) + 1
           /\ ToSet(Append(list, p)) = ToSet(list) \cup {p}
           /\ NoRepeats(list) /\ p \notin ToSet(list) => NoRepeats(Append(list, p))
<1>1. /\ Append(list, p) \in Seq(PaneIds) /\ Len(Append(list, p)) = Len(list) + 1
      /\ Len(list) \in Nat
  OBVIOUS
<1>2. \A i \in 1 .. Len(list) : Append(list, p)[i] = list[i]
  OBVIOUS
<1>3. Append(list, p)[Len(list) + 1] = p
  OBVIOUS
<1>4. ToSet(Append(list, p)) = ToSet(list) \cup {p}
  <2>1. ToSet(Append(list, p)) = {Append(list, p)[i] : i \in 1 .. Len(list) + 1}
    BY <1>1, ListEntries
  <2>2. ToSet(list) = {list[i] : i \in 1 .. Len(list)}
    BY ListEntries
  <2> QED BY <1>1, <1>2, <1>3, <2>1, <2>2
<1>5. NoRepeats(list) /\ p \notin ToSet(list) => NoRepeats(Append(list, p))
  BY <1>1, <1>2, <1>3, ListEntries DEF NoRepeats
<1> QED BY <1>1, <1>4, <1>5

\* retain, turn by turn.
LEMMA WithoutRun ==
    ASSUME NEW list \in Seq(PaneIds), NEW id
    PROVE  \E run \in [0 .. Len(list) -> Seq(PaneIds)] :
              /\ Without(list, id) = run[Len(list)] /\ run[0] = <<>>
              /\ \A i \in 1 .. Len(list) : run[i] = Kept(run[i - 1], list[i], id)
<1> DEFINE n == Len(list)
           base == <<>>
           Def(out) == out = [i \in 0 .. n |-> IF i = 0 THEN base ELSE Kept(out[i - 1], list[i], id)]
           W == CHOOSE out : Def(out)
           turn == [x \in Seq(PaneIds) \X (1 .. n) |-> Kept(x[1], list[x[2]], id)]
<1>1. Without(list, id) = W[n]
  BY Zenon DEF Without
<1>2. n \in Nat /\ base \in Seq(PaneIds)
  OBVIOUS
<1>3. \A l \in Seq(PaneIds), i \in 1 .. n : Kept(l, list[i], id) \in Seq(PaneIds)
  BY DEF Kept
<1>4. turn \in [Seq(PaneIds) \X (1 .. n) -> Seq(PaneIds)]
  BY <1>3
<1>5. PICK run : Accumulates(Seq(PaneIds), n, base, turn, run)
  <2> HIDE DEF turn, n, base
  <2> QED BY <1>2, <1>4, LoopRuns, Zenon
<1> HIDE DEF n, base
<1>6. ASSUME NEW i \in 1 .. n PROVE run[i] = Kept(run[i - 1], list[i], id)
  <2>1. i - 1 \in 0 .. n
    BY <1>2
  <2>2. run[i - 1] \in Seq(PaneIds)
    BY <1>5, <2>1 DEF Accumulates
  <2>3. turn[<<run[i - 1], i>>] = Kept(run[i - 1], list[i], id)
    BY <2>2
  <2> HIDE DEF turn
  <2> QED BY <1>5, <2>3 DEF Accumulates
<1>7. Def(run)
  BY <1>5, <1>6 DEF Accumulates
<1>8. Def(W)
  <2> HIDE DEF Def
  <2> QED BY <1>7
<1> HIDE DEF W
<1>9. W[0] = base /\ \A i \in 1 .. n : W[i] = Kept(W[i - 1], list[i], id)
  BY <1>2, <1>8
<1>10. W = [i \in 0 .. n |-> W[i]]
  BY <1>8
<1> HIDE DEF Def
<1>11. \A i \in 0 .. n : W[i] \in Seq(PaneIds)
  <2> DEFINE Good == {i \in 0 .. n : W[i] \in Seq(PaneIds)}
  <2>1. 0 \in Good
    BY <1>2, <1>9
  <2>2. ASSUME NEW i \in 1 .. n, i - 1 \in Good PROVE i \in Good
    <3>1. i \in 0 .. n /\ W[i - 1] \in Seq(PaneIds)
      BY <1>2, <2>2
    <3>2. W[i] \in Seq(PaneIds)
      BY <1>3, <1>9, <3>1
    <3> QED BY <3>1, <3>2
  <2> HIDE DEF Good
  <2>3. \A i \in 0 .. n : i \in Good
    BY <1>2, <2>1, <2>2, LoopInduction
  <2> QED BY <2>3 DEF Good
<1>12. W \in [0 .. n -> Seq(PaneIds)]
  BY <1>10, <1>11
<1> QED BY <1>1, <1>9, <1>12 DEF n, base

\* Exactly the one id goes, and nothing comes in twice.
LEMMA WithoutFacts ==
    ASSUME NEW list \in Seq(PaneIds), NEW id
    PROVE  /\ Without(list, id) \in Seq(PaneIds) /\ Len(Without(list, id)) =< Len(list)
           /\ ToSet(Without(list, id)) = ToSet(list) \ {id}
           /\ NoRepeats(list) => NoRepeats(Without(list, id))
<1> DEFINE n == Len(list)
           Upto(i) == {list[j] : j \in 1 .. i}
<1>1. PICK run \in [0 .. n -> Seq(PaneIds)] :
         /\ Without(list, id) = run[n] /\ run[0] = <<>>
         /\ \A i \in 1 .. n : run[i] = Kept(run[i - 1], list[i], id)
  BY WithoutRun
<1> DEFINE Fine(i) == /\ ToSet(run[i]) = Upto(i) \ {id} /\ Len(run[i]) =< i
                      /\ NoRepeats(list) => NoRepeats(run[i])
           Good == {i \in 0 .. n : Fine(i)}
<1>2. n \in Nat
  OBVIOUS
<1>3. 0 \in Good
  <2>1. ToSet(run[0]) = {} /\ NoRepeats(run[0]) /\ Len(run[0]) = 0
    BY <1>1 DEF ToSet, NoRepeats
  <2> QED BY <1>2, <2>1
<1>4. ASSUME NEW i \in 1 .. n, i - 1 \in Good PROVE i \in Good
  <2>1. run[i - 1] \in Seq(PaneIds) /\ list[i] \in PaneIds /\ i \in Nat
    BY <1>1
  <2>2. Fine(i - 1)
    BY <1>4
  <2>3. Upto(i) = Upto(i - 1) \cup {list[i]}
    BY <1>2
  <2>4. CASE list[i] = id
    <3>1. run[i] = run[i - 1]
      BY <1>1, <2>4 DEF Kept
    <3>2. ToSet(run[i]) = Upto(i) \ {id}
      BY <2>2, <2>3, <2>4, <3>1
    <3>3. Len(run[i]) =< i
      BY <2>1, <2>2, <3>1
    <3> QED BY <2>2, <3>1, <3>2, <3>3
  <2>5. CASE list[i] # id
    <3>1. run[i] = Append(run[i - 1], list[i])
      BY <1>1, <2>5 DEF Kept
    <3>2. ToSet(run[i]) = ToSet(run[i - 1]) \cup {list[i]} /\ Len(run[i]) = Len(run[i - 1]) + 1
      BY <2>1, <3>1, AppendEntries
    <3>3. ASSUME NoRepeats(list) PROVE NoRepeats(run[i])
      <4>1. list[i] \notin Upto(i - 1)
        BY <1>2, <3>3 DEF NoRepeats
      <4> DEFINE o == run[i - 1]
                 x == list[i]
      <4>2. o \in Seq(PaneIds) /\ x \in PaneIds /\ x \notin ToSet(o) /\ NoRepeats(o)
        BY <2>1, <2>2, <3>3, <4>1
      <4> HIDE DEF o, x
      <4>3. NoRepeats(Append(o, x))
        BY <4>2, AppendEntries
      <4> QED BY <3>1, <4>3 DEF o, x
    <3>4. ToSet(run[i]) = Upto(i) \ {id}
      BY <2>2, <2>3, <2>5, <3>2
    <3>5. Len(run[i]) =< i
      BY <2>1, <2>2, <3>2
    <3> QED BY <3>3, <3>4, <3>5
  <2> QED BY <2>4, <2>5
<1> HIDE DEF Good
<1>5. \A i \in 0 .. n : i \in Good
  BY <1>2, <1>3, <1>4, LoopInduction
<1>6. Fine(n)
  <2>1. n \in 0 .. n
    BY <1>2
  <2> QED BY <1>5, <2>1 DEF Good
<1>7. Upto(n) = ToSet(list)
  BY ListEntries
<1> QED BY <1>1, <1>2, <1>6, <1>7

\* canonical_order, turn by turn.
LEMMA PlaceRun ==
    ASSUME NEW ids \in Seq(PaneIds), NEW live
    PROVE  \E run \in [0 .. Len(ids) -> Seq(PaneIds)] :
              /\ PlaceAll(ids, live) = run[Len(ids)] /\ run[0] = <<>>
              /\ \A i \in 1 .. Len(ids) : run[i] = Placed(run[i - 1], ids[i], live)
<1> DEFINE n == Len(ids)
           base == <<>>
           Def(out) == out = [i \in 0 .. n |-> IF i = 0 THEN base ELSE Placed(out[i - 1], ids[i], live)]
           W == CHOOSE out : Def(out)
           turn == [x \in Seq(PaneIds) \X (1 .. n) |-> Placed(x[1], ids[x[2]], live)]
<1>1. PlaceAll(ids, live) = W[n]
  BY Zenon DEF PlaceAll
<1>2. n \in Nat /\ base \in Seq(PaneIds)
  OBVIOUS
<1>3. \A l \in Seq(PaneIds), i \in 1 .. n : Placed(l, ids[i], live) \in Seq(PaneIds)
  BY DEF Placed
<1>4. turn \in [Seq(PaneIds) \X (1 .. n) -> Seq(PaneIds)]
  BY <1>3
<1>5. PICK run : Accumulates(Seq(PaneIds), n, base, turn, run)
  <2> HIDE DEF turn, n, base
  <2> QED BY <1>2, <1>4, LoopRuns, Zenon
<1> HIDE DEF n, base
<1>6. ASSUME NEW i \in 1 .. n PROVE run[i] = Placed(run[i - 1], ids[i], live)
  <2>1. i - 1 \in 0 .. n
    BY <1>2
  <2>2. run[i - 1] \in Seq(PaneIds)
    BY <1>5, <2>1 DEF Accumulates
  <2>3. turn[<<run[i - 1], i>>] = Placed(run[i - 1], ids[i], live)
    BY <2>2
  <2> HIDE DEF turn
  <2> QED BY <1>5, <2>3 DEF Accumulates
<1>7. Def(run)
  BY <1>5, <1>6 DEF Accumulates
<1>8. Def(W)
  <2> HIDE DEF Def
  <2> QED BY <1>7
<1> HIDE DEF W
<1>9. W[0] = base /\ \A i \in 1 .. n : W[i] = Placed(W[i - 1], ids[i], live)
  BY <1>2, <1>8
<1>10. W = [i \in 0 .. n |-> W[i]]
  BY <1>8
<1> HIDE DEF Def
<1>11. \A i \in 0 .. n : W[i] \in Seq(PaneIds)
  <2> DEFINE Good == {i \in 0 .. n : W[i] \in Seq(PaneIds)}
  <2>1. 0 \in Good
    BY <1>2, <1>9
  <2>2. ASSUME NEW i \in 1 .. n, i - 1 \in Good PROVE i \in Good
    <3>1. i \in 0 .. n /\ W[i - 1] \in Seq(PaneIds)
      BY <1>2, <2>2
    <3>2. W[i] \in Seq(PaneIds)
      BY <1>3, <1>9, <3>1
    <3> QED BY <3>1, <3>2
  <2> HIDE DEF Good
  <2>3. \A i \in 0 .. n : i \in Good
    BY <1>2, <2>1, <2>2, LoopInduction
  <2> QED BY <2>3 DEF Good
<1>12. W \in [0 .. n -> Seq(PaneIds)]
  BY <1>10, <1>11
<1> QED BY <1>1, <1>9, <1>12 DEF n, base

\* Each live id that is listed, once.
LEMMA PlaceFacts ==
    ASSUME NEW ids \in Seq(PaneIds), NEW live
    PROVE  /\ PlaceAll(ids, live) \in Seq(PaneIds) /\ NoRepeats(PlaceAll(ids, live))
           /\ ToSet(PlaceAll(ids, live)) = live \cap ToSet(ids)
<1> DEFINE n == Len(ids)
           Upto(i) == {ids[j] : j \in 1 .. i}
<1>1. PICK run \in [0 .. n -> Seq(PaneIds)] :
         /\ PlaceAll(ids, live) = run[n] /\ run[0] = <<>>
         /\ \A i \in 1 .. n : run[i] = Placed(run[i - 1], ids[i], live)
  BY PlaceRun
<1> DEFINE Fine(i) == ToSet(run[i]) = live \cap Upto(i) /\ NoRepeats(run[i])
           Good == {i \in 0 .. n : Fine(i)}
<1>2. n \in Nat
  OBVIOUS
<1>3. 0 \in Good
  <2>1. ToSet(run[0]) = {} /\ NoRepeats(run[0])
    BY <1>1 DEF ToSet, NoRepeats
  <2> QED BY <1>2, <2>1
<1>4. ASSUME NEW i \in 1 .. n, i - 1 \in Good PROVE i \in Good
  <2>1. run[i - 1] \in Seq(PaneIds) /\ ids[i] \in PaneIds /\ i \in Nat
    BY <1>1
  <2>2. Fine(i - 1)
    BY <1>4
  <2>3. Upto(i) = Upto(i - 1) \cup {ids[i]}
    BY <1>2
  <2>4. CASE ids[i] \in live \ ToSet(run[i - 1])
    <3>1. run[i] = Append(run[i - 1], ids[i])
      BY <1>1, <2>4 DEF Placed
    <3>2. ToSet(run[i]) = ToSet(run[i - 1]) \cup {ids[i]} /\ NoRepeats(run[i])
      BY <2>1, <2>2, <2>4, <3>1, AppendEntries
    <3>3. ToSet(run[i]) = live \cap Upto(i)
      BY <2>2, <2>3, <2>4, <3>2
    <3> QED BY <3>2, <3>3
  <2>5. CASE ids[i] \notin live \ ToSet(run[i - 1])
    <3>1. run[i] = run[i - 1]
      BY <1>1, <2>5 DEF Placed
    <3>2. ToSet(run[i]) = live \cap Upto(i)
      BY <2>2, <2>3, <2>5, <3>1
    <3> QED BY <2>2, <3>1, <3>2
  <2> QED BY <2>4, <2>5
<1> HIDE DEF Good
<1>5. \A i \in 0 .. n : i \in Good
  BY <1>2, <1>3, <1>4, LoopInduction
<1>6. Fine(n)
  <2>1. n \in 0 .. n
    BY <1>2
  <2> QED BY <1>5, <2>1 DEF Good
<1>7. Upto(n) = ToSet(ids)
  BY ListEntries
<1> QED BY <1>1, <1>2, <1>6, <1>7

\* A list of all that is live, and whatever is listed after it.
LEMMA PlaceExact ==
    ASSUME NEW target \in Seq(PaneIds), NEW rest \in Seq(PaneIds), NoRepeats(target),
           ToSet(rest) \subseteq ToSet(target)
    PROVE  PlaceAll(target \o rest, ToSet(target)) = target
<1> DEFINE m == Len(target)
           ids == target \o rest
           n == Len(ids)
           live == ToSet(target)
<1>1. /\ ids \in Seq(PaneIds) /\ m \in Nat /\ n \in Nat /\ m =< n
      /\ \A i \in 1 .. m : ids[i] = target[i]
  OBVIOUS
<1>2. \A i \in 1 .. n : i > m => ids[i] \in live
  <2>1. n = m + Len(rest) /\ \A i \in 1 .. n : i > m => ids[i] = rest[i - m] /\ i - m \in 1 .. Len(rest)
    OBVIOUS
  <2>2. \A k \in 1 .. Len(rest) : rest[k] \in live
    BY ListEntries
  <2> QED BY <2>1, <2>2
<1> HIDE DEF ids, n
<1>3. PICK run \in [0 .. n -> Seq(PaneIds)] :
         /\ PlaceAll(ids, live) = run[n] /\ run[0] = <<>>
         /\ \A i \in 1 .. n : run[i] = Placed(run[i - 1], ids[i], live)
  BY <1>1, PlaceRun DEF n
<1>4. \A i \in 1 .. m : target[i] \in live /\ target[i] \in PaneIds
  BY ListEntries
<1> DEFINE Fine(i) == IF i =< m THEN Len(run[i]) = i /\ \A k \in 1 .. i : run[i][k] = target[k]
                      ELSE run[i] = target
           Good == {i \in 0 .. n : Fine(i)}
<1>5. ASSUME NEW i \in 0 .. n, i =< m, Fine(i)
      PROVE  ToSet(run[i]) = {target[k] : k \in 1 .. i} /\ (i = m => run[i] = target)
  <2>1. run[i] \in Seq(PaneIds) /\ Len(run[i]) = i /\ \A k \in 1 .. i : run[i][k] = target[k]
    BY <1>3, <1>5
  <2>2. ToSet(run[i]) = {run[i][k] : k \in 1 .. i}
    BY <2>1, ListEntries
  <2>3. ToSet(run[i]) = {target[k] : k \in 1 .. i}
    BY <2>1, <2>2
  <2>4. ASSUME i = m PROVE run[i] = target
    <3> DEFINE r == run[i]
    <3>1. r \in Seq(PaneIds) /\ Len(r) = Len(target) /\ \A k \in 1 .. Len(target) : r[k] = target[k]
      BY <2>1, <2>4
    <3> HIDE DEF r
    <3>2. r = target
      BY <3>1
    <3> QED BY <3>2 DEF r
  <2> QED BY <2>3, <2>4
<1>6. 0 \in Good
  BY <1>1, <1>3
<1>7. ASSUME NEW i \in 1 .. n, i - 1 \in Good PROVE i \in Good
  <2>1. run[i - 1] \in Seq(PaneIds) /\ i - 1 \in 0 .. n /\ Fine(i - 1)
    BY <1>1, <1>3, <1>7
  <2>2. CASE i =< m
    <3>1. Len(run[i - 1]) = i - 1 /\ (\A k \in 1 .. (i - 1) : run[i - 1][k] = target[k]) /\ i - 1 =< m
      BY <1>1, <2>1, <2>2
    <3>2. ids[i] = target[i] /\ target[i] \in live /\ target[i] \in PaneIds
      BY <1>1, <1>4, <2>2
    <3>3. target[i] \notin ToSet(run[i - 1])
      <4>1. ToSet(run[i - 1]) = {target[k] : k \in 1 .. (i - 1)}
        BY <1>5, <2>1, <3>1
      <4>2. \A k \in 1 .. (i - 1) : target[k] # target[i]
        BY <1>1, <2>2 DEF NoRepeats
      <4> QED BY <4>1, <4>2
    <3>4. run[i] = Append(run[i - 1], target[i])
      BY <1>3, <3>2, <3>3 DEF Placed
    <3>5. Len(run[i]) = i /\ \A k \in 1 .. i : run[i][k] = target[k]
      BY <1>1, <2>1, <3>1, <3>2, <3>4
    <3> QED BY <2>2, <3>5
  <2>3. CASE i > m
    <3>1. run[i - 1] = target
      BY <1>1, <1>5, <2>1, <2>3
    <3>2. run[i] = run[i - 1]
      BY <1>2, <1>3, <2>3, <3>1 DEF Placed
    <3> QED BY <1>1, <2>3, <3>1, <3>2
  <2> QED BY <1>1, <2>2, <2>3
<1>8. Fine(n)
  <2> HIDE DEF Good
  <2>1. \A i \in 0 .. n : i \in Good
    BY <1>1, <1>6, <1>7, LoopInduction
  <2>2. n \in 0 .. n
    BY <1>1
  <2> QED BY <2>1, <2>2 DEF Good
<1>9. run[n] = target
  BY <1>1, <1>5, <1>8
<1> QED BY <1>3, <1>9 DEF ids

\* canonical_order keeps the panes, each once, and is settled by one pass.
LEMMA CanonicalFacts ==
    ASSUME NEW current \in Seq(PaneIds), NEW requested \in Seq(PaneIds)
    PROVE  /\ CanonicalOrder(current, requested) \in Seq(PaneIds)
           /\ NoRepeats(CanonicalOrder(current, requested))
           /\ ToSet(CanonicalOrder(current, requested)) = ToSet(current)
<1> DEFINE ids == requested \o current
<1>1. ids \in Seq(PaneIds) /\ ToSet(current) \subseteq ToSet(ids)
  <2>1. ids \in Seq(PaneIds)
    OBVIOUS
  <2>2. ASSUME NEW k \in 1 .. Len(current) PROVE current[k] \in ToSet(ids)
    <3>1. Len(requested) + k \in 1 .. Len(ids) /\ ids[Len(requested) + k] = current[k]
      OBVIOUS
    <3> QED BY <2>1, <3>1, ListEntries
  <2> QED BY <2>1, <2>2, ListEntries
<1> HIDE DEF ids
<1>2. CanonicalOrder(current, requested) = PlaceAll(ids, ToSet(current))
  BY DEF CanonicalOrder, ids
<1> DEFINE live == ToSet(current)
<1> HIDE DEF live
<1>3. /\ PlaceAll(ids, live) \in Seq(PaneIds) /\ NoRepeats(PlaceAll(ids, live))
      /\ ToSet(PlaceAll(ids, live)) = live \cap ToSet(ids)
  BY <1>1, PlaceFacts
<1> QED BY <1>1, <1>2, <1>3 DEF live

\* A canonical order is its own.
LEMMA CanonicalSettles ==
    ASSUME NEW current \in Seq(PaneIds), NEW requested \in Seq(PaneIds)
    PROVE  CanonicalOrder(current, CanonicalOrder(current, requested))
              = CanonicalOrder(current, requested)
<1> DEFINE target == CanonicalOrder(current, requested)
<1>1. target \in Seq(PaneIds) /\ NoRepeats(target) /\ ToSet(target) = ToSet(current)
  BY CanonicalFacts
<1> HIDE DEF target
<1>2. PlaceAll(target \o current, ToSet(target)) = target
  BY <1>1, PlaceExact
<1>3. CanonicalOrder(current, target) = PlaceAll(target \o current, ToSet(current))
  BY DEF CanonicalOrder
<1>4. CanonicalOrder(current, target) = target
  BY <1>1, <1>2, <1>3
<1> QED BY <1>4 DEF target

\* A list without repeats is no longer than one that has all its entries, and
\* no longer than there are panes.
LEMMA ListLengths ==
    ASSUME NEW a \in Seq(PaneIds), NoRepeats(a)
    PROVE  /\ Len(a) =< MaxPaneIds
           /\ \A b \in Seq(PaneIds) : ToSet(a) \subseteq ToSet(b) => Len(a) =< Len(b)
<1> DEFINE m == Len(a)
<1>1. m \in Nat /\ a \in [1 .. m -> PaneIds]
  OBVIOUS
<1>2. IsFiniteSet(1 .. m) /\ Cardinality(1 .. m) = m
  <2>1. IsFiniteSet(1 .. m) /\ Cardinality(1 .. m) = IF 1 > m THEN 0 ELSE m - 1 + 1
    BY <1>1, FS_Interval
  <2> QED BY <1>1, <2>1
<1>3. IsFiniteSet(PaneIds) /\ Cardinality(PaneIds) = MaxPaneIds
  <2>1. IsFiniteSet(PaneIds) /\ Cardinality(PaneIds) = IF 1 > MaxPaneIds THEN 0 ELSE MaxPaneIds - 1 + 1
    BY DepthAssumption, FS_Interval DEF PaneIds
  <2> QED BY <2>1, DepthAssumption
<1>4. m =< MaxPaneIds
  <2>1. a \in Injection(1 .. m, PaneIds)
    BY <1>1 DEF Injection, IsInjective, NoRepeats
  <2> QED BY <1>2, <1>3, <2>1, FS_Injection
<1>5. ASSUME NEW b \in Seq(PaneIds), ToSet(a) \subseteq ToSet(b) PROVE m =< Len(b)
  <2> DEFINE n == Len(b)
  <2>1. n \in Nat /\ b \in [1 .. n -> ToSet(b)] /\ \A x \in ToSet(b) : \E k \in 1 .. n : b[k] = x
    BY ListEntries
  <2> HIDE DEF n
  <2>2. IsFiniteSet(1 .. n) /\ Cardinality(1 .. n) = n
    <3>1. 1 \in Int /\ n \in Int
      BY <2>1
    <3>2. IsFiniteSet(1 .. n) /\ Cardinality(1 .. n) = IF 1 > n THEN 0 ELSE n - 1 + 1
      BY <3>1, FS_Interval
    <3> QED BY <2>1, <3>2
  <2>3. b \in Surjection(1 .. n, ToSet(b))
    BY <2>1 DEF Surjection
  <2>4. IsFiniteSet(ToSet(b)) /\ Cardinality(ToSet(b)) =< n
    BY <2>2, <2>3, FS_Surjection
  <2>5. a \in [1 .. m -> ToSet(b)]
    BY <1>1, <1>5, ListEntries
  <2>6. a \in Injection(1 .. m, ToSet(b))
    BY <1>1, <2>5 DEF Injection, IsInjective, NoRepeats
  <2>7. Cardinality(1 .. m) =< Cardinality(ToSet(b))
    BY <2>4, <2>6, FS_Injection
  <2>8. Cardinality(ToSet(b)) \in Nat
    BY <2>4, FS_CardinalityType
  <2> QED BY <1>1, <1>2, <2>1, <2>4, <2>7, <2>8 DEF n
<1> QED BY <1>4, <1>5

----------------------------------------------------------------------------
(* What a page makes of its frames *)

\* What a page holds, and what it is sent.
View == [panes : Seq(PaneIds), zoomed : PaneIds \cup {None}, shown : [PaneIds -> Nat],
         replaying : BOOLEAN, order : Seq(PaneIds), zoom_said : BOOLEAN]

Frames ==
    [kind : {"hello", "replay_complete"}, pane : {None}, data : {0}]
    \cup [kind : {"created"}, pane : PaneIds, data : Nat]
    \cup [kind : {"exited", "output"}, pane : PaneIds, data : {0}]
    \cup [kind : {"zoomed"}, pane : PaneIds \cup {None}, data : {0}]
    \cup [kind : {"reordered"}, pane : {None}, data : Seq(PaneIds)]

\* Every message is handled, whatever a page shows.
LEMMA HandleType ==
    ASSUME NEW u \in View, NEW f \in Frames
    PROVE  HandleMessage(u, f) \in View
<1>1. CASE f.kind = "hello"
  <2>1. HandleMessage(u, f) = [u EXCEPT !.replaying = TRUE, !.order = <<>>, !.zoom_said = FALSE]
    BY <1>1 DEF HandleMessage
  <2>2. <<>> \in Seq(PaneIds)
    OBVIOUS
  <2> QED BY <2>1, <2>2 DEF View
<1>2. CASE f.kind = "replay_complete"
  BY <1>2 DEF HandleMessage, OnReplayComplete, View, None
<1>3. CASE f.kind = "created"
  <2>1. f.pane \in PaneIds /\ f.data \in Nat
    BY <1>3 DEF Frames
  <2>2. OnCreated(u, f.pane, f.data) \in View
    BY <2>1, AppendEntries DEF OnCreated, View
  <2> QED BY <1>3, <2>2 DEF HandleMessage
<1>4. CASE f.kind = "exited"
  <2>1. Without(u.panes, f.pane) \in Seq(PaneIds)
    BY WithoutFacts DEF View
  <2> QED BY <1>4, <2>1 DEF HandleMessage, View
<1>5. CASE f.kind = "reordered"
  <2>1. f.data \in Seq(PaneIds)
    BY <1>5 DEF Frames
  <2>2. CanonicalOrder(u.panes, f.data) \in Seq(PaneIds)
    BY <2>1, CanonicalFacts DEF View
  <2> QED BY <1>5, <2>2 DEF HandleMessage, View
<1>6. CASE f.kind = "zoomed"
  <2>1. f.pane \in PaneIds \cup {None}
    BY <1>6 DEF Frames
  <2> QED BY <1>6, <2>1 DEF HandleMessage, View
<1>7. CASE f.kind = "output"
  <2>1. f.pane \in PaneIds
    BY <1>7 DEF Frames
  <2>2. HandleMessage(u, f) = [u EXCEPT !.shown[f.pane] = @ + 1]
    BY <1>7 DEF HandleMessage
  <2>3. u.shown \in [PaneIds -> Nat]
    BY DEF View
  <2>4. [u.shown EXCEPT ![f.pane] = @ + 1] \in [PaneIds -> Nat]
    BY <2>1, <2>3
  <2> QED BY <2>2, <2>4 DEF View
<1>8. f.kind \in {"hello", "replay_complete", "created", "exited", "reordered", "zoomed", "output"}
  BY DEF Frames
<1> QED BY <1>1, <1>2, <1>3, <1>4, <1>5, <1>6, <1>7, <1>8

\* The views a page passes through.
LEMMA ViewRun ==
    ASSUME NEW v \in View, NEW s \in Seq(Frames),
           \A u \in View, f \in Frames : HandleMessage(u, f) \in View
    PROVE  \E run \in [0 .. Len(s) -> View] :
              /\ ViewAfter(v, s) = run[Len(s)] /\ run[0] = v
              /\ \A i \in 1 .. Len(s) : run[i] = HandleMessage(run[i - 1], s[i])
<1> DEFINE n == Len(s)
           base == v
           Def(out) == out = [i \in 0 .. n |-> IF i = 0 THEN base ELSE HandleMessage(out[i - 1], s[i])]
           W == CHOOSE out : Def(out)
           turn == [x \in View \X (1 .. n) |-> HandleMessage(x[1], s[x[2]])]
<1>1. ViewAfter(v, s) = W[n]
  BY Zenon DEF ViewAfter
<1>2. n \in Nat /\ base \in View
  OBVIOUS
<1>3. \A l \in View, i \in 1 .. n : HandleMessage(l, s[i]) \in View
  OBVIOUS
<1>4. turn \in [View \X (1 .. n) -> View]
  BY <1>3
<1>5. PICK run : Accumulates(View, n, base, turn, run)
  <2> HIDE DEF turn, n, base
  <2> QED BY <1>2, <1>4, LoopRuns, Zenon
<1> HIDE DEF n, base
<1>6. ASSUME NEW i \in 1 .. n PROVE run[i] = HandleMessage(run[i - 1], s[i])
  <2>1. i - 1 \in 0 .. n
    BY <1>2
  <2>2. run[i - 1] \in View
    BY <1>5, <2>1 DEF Accumulates
  <2>3. turn[<<run[i - 1], i>>] = HandleMessage(run[i - 1], s[i])
    BY <2>2
  <2> HIDE DEF turn
  <2> QED BY <1>5, <2>3 DEF Accumulates
<1>7. Def(run)
  BY <1>5, <1>6 DEF Accumulates
<1>8. Def(W)
  <2> HIDE DEF Def
  <2> QED BY <1>7
<1> HIDE DEF W
<1>9. W[0] = base /\ \A i \in 1 .. n : W[i] = HandleMessage(W[i - 1], s[i])
  BY <1>2, <1>8
<1>10. W = [i \in 0 .. n |-> W[i]]
  BY <1>8
<1> HIDE DEF Def
<1>11. \A i \in 0 .. n : W[i] \in View
  <2> DEFINE Good == {i \in 0 .. n : W[i] \in View}
  <2>1. 0 \in Good
    BY <1>2, <1>9
  <2>2. ASSUME NEW i \in 1 .. n, i - 1 \in Good PROVE i \in Good
    <3>1. i \in 0 .. n /\ W[i - 1] \in View
      BY <1>2, <2>2
    <3>2. W[i] \in View
      BY <1>3, <1>9, <3>1
    <3> QED BY <3>1, <3>2
  <2> HIDE DEF Good
  <2>3. \A i \in 0 .. n : i \in Good
    BY <1>2, <2>1, <2>2, LoopInduction
  <2> QED BY <2>3 DEF Good
<1>12. W \in [0 .. n -> View]
  BY <1>10, <1>11
<1> QED BY <1>1, <1>9, <1>12 DEF n, base

\* Queues are joined in any grouping.
LEMMA Regroup ==
    ASSUME NEW a \in Seq(Frames), NEW b \in Seq(Frames), NEW c \in Seq(Frames)
    PROVE  (a \o b) \o c = a \o (b \o c)
BY ConcatAssociative

\* What a page shows after each of n frames.
Follows(n, s, run) == \A i \in 1 .. n : run[i] = HandleMessage(run[i - 1], s[i])

\* The same, with the turns named.
LEMMA ViewPath ==
    ASSUME NEW v \in View, NEW s \in Seq(Frames)
    PROVE  \E run \in [0 .. Len(s) -> View] :
              ViewAfter(v, s) = run[Len(s)] /\ run[0] = v /\ Follows(Len(s), s, run)
BY HandleType, ViewRun DEF Follows

\* Two queues with the same first n frames.
Same(n, s, t) == \A i \in 1 .. n : s[i] = t[i]

\* Two pages handling the same frames from the same view.
LEMMA SameViews ==
    ASSUME NEW n \in Nat, NEW r, NEW q, NEW s, NEW t, r[0] = q[0],
           Same(n, s, t), Follows(n, s, r), Follows(n, t, q)
    PROVE  r[n] = q[n]
<1> DEFINE Good == {i \in 0 .. n : r[i] = q[i]}
<1>1. 0 \in Good
  OBVIOUS
<1>2. ASSUME NEW i \in 1 .. n, i - 1 \in Good PROVE i \in Good
  <2>1. r[i - 1] = q[i - 1] /\ s[i] = t[i] /\ i \in 0 .. n
    BY <1>2 DEF Same
  <2>2. r[i] = HandleMessage(r[i - 1], s[i]) /\ q[i] = HandleMessage(q[i - 1], t[i])
    BY DEF Follows
  <2>3. r[i] = q[i]
    BY <2>1, <2>2
  <2> QED BY <2>1, <2>3
<1> HIDE DEF Good
<1>3. \A i \in 0 .. n : i \in Good
  BY <1>1, <1>2, LoopInduction
<1>4. n \in 0 .. n
  OBVIOUS
<1> QED BY <1>3, <1>4 DEF Good

\* A page stays a page, whatever it is sent.
LEMMA AfterType ==
    ASSUME NEW v \in View, NEW s \in Seq(Frames)
    PROVE  ViewAfter(v, s) \in View
<1>1. Len(s) \in 0 .. Len(s)
  OBVIOUS
<1> QED BY <1>1, ViewPath

\* No frame.
LEMMA AfterNone ==
    ASSUME NEW v \in View
    PROVE  ViewAfter(v, <<>>) = v
<1> DEFINE s == <<>>
<1>1. s \in Seq(Frames) /\ Len(s) = 0
  OBVIOUS
<1> HIDE DEF s
<1>2. ViewAfter(v, s) = v
  <2>1. PICK run \in [0 .. Len(s) -> View] : ViewAfter(v, s) = run[Len(s)] /\ run[0] = v
    BY <1>1, ViewPath
  <2> QED BY <1>1, <2>1
<1> QED BY <1>2 DEF s

\* One frame.
LEMMA AfterOne ==
    ASSUME NEW v \in View, NEW f \in Frames
    PROVE  ViewAfter(v, <<f>>) = HandleMessage(v, f)
<1> DEFINE s == <<f>>
<1>1. s \in Seq(Frames) /\ Len(s) = 1 /\ s[1] = f
  OBVIOUS
<1> HIDE DEF s
<1>2. PICK run \in [0 .. Len(s) -> View] :
         ViewAfter(v, s) = run[Len(s)] /\ run[0] = v /\ Follows(Len(s), s, run)
  BY <1>1, ViewPath
<1>3. run[1] = HandleMessage(run[1 - 1], s[1])
  BY <1>1, <1>2 DEF Follows
<1>4. ViewAfter(v, s) = HandleMessage(v, f)
  BY <1>1, <1>2, <1>3
<1> QED BY <1>4 DEF s

\* Frames and then others.
LEMMA AfterBoth ==
    ASSUME NEW v \in View, NEW s \in Seq(Frames), NEW t \in Seq(Frames)
    PROVE  ViewAfter(v, s \o t) = ViewAfter(ViewAfter(v, s), t)
<1> DEFINE u == s \o t
           m == Len(s)
           n == Len(t)
           w == ViewAfter(v, s)
<1>1. /\ u \in Seq(Frames) /\ m \in Nat /\ n \in Nat /\ Len(u) = m + n
      /\ (\A i \in 1 .. m : u[i] = s[i]) /\ (\A i \in 1 .. n : u[m + i] = t[i])
  OBVIOUS
<1> HIDE DEF u
<1>2. PICK r \in [0 .. Len(u) -> View] :
         ViewAfter(v, u) = r[Len(u)] /\ r[0] = v /\ Follows(Len(u), u, r)
  BY <1>1, ViewPath
<1>3. PICK q \in [0 .. Len(s) -> View] :
         ViewAfter(v, s) = q[Len(s)] /\ q[0] = v /\ Follows(Len(s), s, q)
  BY ViewPath
<1>4. r[m] = q[m]
  <2>1. Follows(m, u, r)
    BY <1>1, <1>2 DEF Follows
  <2>2. Follows(m, s, q) /\ r[0] = q[0] /\ m \in Nat /\ Same(m, u, s)
    BY <1>1, <1>2, <1>3 DEF Same
  <2> HIDE DEF m
  <2> QED BY ONLY <2>1, <2>2, SameViews, Zenon
<1>5. w \in View /\ r[m] = w
  BY <1>3, <1>4, AfterType
<1> HIDE DEF w
<1>6. PICK p \in [0 .. Len(t) -> View] :
         ViewAfter(w, t) = p[Len(t)] /\ p[0] = w /\ Follows(Len(t), t, p)
  BY <1>5, ViewPath
<1> DEFINE l == [i \in 0 .. n |-> r[m + i]]
           x == [i \in 1 .. n |-> u[m + i]]
<1>7. l[0] = p[0] /\ l[n] = r[m + n]
  BY <1>1, <1>5, <1>6
<1>8. ASSUME NEW i \in 1 .. n PROVE l[i] = HandleMessage(l[i - 1], x[i]) /\ x[i] = t[i]
  <2>1. l[i] = r[m + i] /\ l[i - 1] = r[m + i - 1] /\ m + i \in 1 .. Len(u) /\ x[i] = u[m + i]
    BY <1>1
  <2>2. r[m + i] = HandleMessage(r[m + i - 1], u[m + i])
    BY <1>2, <2>1 DEF Follows
  <2>3. x[i] = t[i]
    BY <1>1
  <2> QED BY <2>1, <2>2, <2>3
<1> HIDE DEF l, x
<1>9. l[n] = p[n]
  <2>1. Follows(n, x, l)
    BY <1>8 DEF Follows
  <2>2. Follows(n, t, p) /\ l[0] = p[0] /\ n \in Nat /\ Same(n, x, t)
    BY <1>1, <1>6, <1>7, <1>8 DEF Same
  <2> HIDE DEF n
  <2> QED BY ONLY <2>1, <2>2, SameViews, Zenon
<1> QED BY <1>1, <1>2, <1>6, <1>7, <1>9 DEF u, w

----------------------------------------------------------------------------
(* What is queued for a page *)

\* A client record and its page.
Page == [phase : {"down", "snapped", "live"}, listed : BOOLEAN, replayed : BOOLEAN,
         connects : Nat, snapshot : Seq(Frames), held : Seq(Frames), queue : Seq(Frames),
         view : View]

\* d is c with frames fs behind its gate, or in its queue.
Grown(c, d, fs) ==
    /\ d.view = c.view /\ d.phase = c.phase /\ d.replayed = c.replayed
    /\ d.connects = c.connects /\ d.snapshot = c.snapshot
    /\ d.held = IF c.phase = "snapped" THEN c.held \o fs ELSE c.held
    /\ d.queue = IF c.phase = "live" THEN c.queue \o fs ELSE c.queue

\* The channel's depth and the gate's (CLIENT_QUEUE_DEPTH).
Within(c) == Len(c.queue) =< Depth + 1 /\ Len(c.held) =< Depth

\* One frame is queued whole or the page is cut off, and no queue outgrows its
\* bound (queue_locked).
LEMMA QueueType ==
    ASSUME NEW c \in Page, NEW f \in Frames
    PROVE  /\ QueueNext(c, f) \in Page
           /\ QueueNext(c, f).listed => c.listed /\ Grown(c, QueueNext(c, f), <<f>>)
           /\ ~QueueNext(c, f).listed => QueueNext(c, f) = [c EXCEPT !.listed = FALSE]
           /\ Within(c) => Within(QueueNext(c, f))
<1> DEFINE d == QueueNext(c, f)
<1>1. /\ c.held \in Seq(Frames) /\ c.queue \in Seq(Frames) /\ c.listed \in BOOLEAN
      /\ Append(c.held, f) = c.held \o <<f>> /\ Append(c.queue, f) = c.queue \o <<f>>
      /\ Len(Append(c.held, f)) = Len(c.held) + 1 /\ Len(Append(c.queue, f)) = Len(c.queue) + 1
      /\ Append(c.held, f) \in Seq(Frames) /\ Append(c.queue, f) \in Seq(Frames)
  BY DEF Page
<1>2. CASE ~c.listed
  <2>1. d = c
    BY <1>2 DEF QueueNext
  <2>2. c.listed = FALSE
    BY <1>1, <1>2
  <2>3. c = [c EXCEPT !.listed = FALSE]
    BY <2>2 DEF Page
  <2> QED BY <1>2, <2>1, <2>3
<1>3. CASE c.listed /\ c.phase = "snapped" /\ Len(c.held) < Depth
  <2>1. d = [c EXCEPT !.held = Append(@, f)]
    BY <1>3 DEF QueueNext, QueueLocked
  <2>2. d \in Page /\ d.listed /\ d.held = Append(c.held, f) /\ d.queue = c.queue
    BY <1>1, <1>3, <2>1 DEF Page
  <2>3. Grown(c, d, <<f>>)
    BY <1>1, <1>3, <2>1, <2>2 DEF Grown, Page
  <2>4. Within(c) => Within(d)
    BY <1>1, <1>3, <2>2, DepthAssumption DEF Within
  <2> QED BY <1>3, <2>2, <2>3, <2>4
<1>4. CASE c.listed /\ c.phase = "live" /\ Len(c.queue) < Depth + 1
  <2>1. d = [c EXCEPT !.queue = Append(@, f)]
    BY <1>4 DEF QueueNext, QueueLocked
  <2>2. d \in Page /\ d.listed /\ d.queue = Append(c.queue, f) /\ d.held = c.held
    BY <1>1, <1>4, <2>1 DEF Page
  <2>3. Grown(c, d, <<f>>)
    BY <1>1, <1>4, <2>1, <2>2 DEF Grown, Page
  <2>4. Within(c) => Within(d)
    BY <1>1, <1>4, <2>2, DepthAssumption DEF Within
  <2> QED BY <1>4, <2>2, <2>3, <2>4
<1>5. CASE /\ c.listed /\ ~(c.phase = "snapped" /\ Len(c.held) < Depth)
           /\ ~(c.phase = "live" /\ Len(c.queue) < Depth + 1)
  <2>1. d = [c EXCEPT !.listed = FALSE]
    BY <1>5 DEF QueueNext, QueueLocked
  <2>2. d \in Page /\ ~d.listed /\ (Within(c) => Within(d))
    BY <2>1 DEF Page, Within
  <2> QED BY <2>1, <2>2
<1> QED BY <1>2, <1>3, <1>4, <1>5

\* Frames queued one by one.
LEMMA QueueRun ==
    ASSUME NEW c \in Page, NEW frames \in Seq(Frames)
    PROVE  \E run \in [0 .. Len(frames) -> Page] :
              /\ QueueAll(c, frames) = run[Len(frames)] /\ run[0] = c
              /\ \A i \in 1 .. Len(frames) : run[i] = QueueNext(run[i - 1], frames[i])
<1> DEFINE n == Len(frames)
           base == c
           Def(out) == out = [i \in 0 .. n |-> IF i = 0 THEN base ELSE QueueNext(out[i - 1], frames[i])]
           W == CHOOSE out : Def(out)
           turn == [x \in Page \X (1 .. n) |-> QueueNext(x[1], frames[x[2]])]
<1>1. QueueAll(c, frames) = W[n]
  BY Zenon DEF QueueAll
<1>2. n \in Nat /\ base \in Page
  OBVIOUS
<1>3. \A l \in Page, i \in 1 .. n : QueueNext(l, frames[i]) \in Page
  <2> SUFFICES ASSUME NEW l \in Page, NEW i \in 1 .. n PROVE QueueNext(l, frames[i]) \in Page
    OBVIOUS
  <2>1. frames[i] \in Frames
    OBVIOUS
  <2> QED BY <2>1, QueueType
<1>4. turn \in [Page \X (1 .. n) -> Page]
  BY <1>3
<1>5. PICK run : Accumulates(Page, n, base, turn, run)
  <2> HIDE DEF turn, n, base
  <2> QED BY <1>2, <1>4, LoopRuns, Zenon
<1> HIDE DEF n, base
<1>6. ASSUME NEW i \in 1 .. n PROVE run[i] = QueueNext(run[i - 1], frames[i])
  <2>1. i - 1 \in 0 .. n
    BY <1>2
  <2>2. run[i - 1] \in Page
    BY <1>5, <2>1 DEF Accumulates
  <2>3. turn[<<run[i - 1], i>>] = QueueNext(run[i - 1], frames[i])
    BY <2>2
  <2> HIDE DEF turn
  <2> QED BY <1>5, <2>3 DEF Accumulates
<1>7. Def(run)
  BY <1>5, <1>6 DEF Accumulates
<1>8. Def(W)
  <2> HIDE DEF Def
  <2> QED BY <1>7
<1> HIDE DEF W
<1>9. W[0] = base /\ \A i \in 1 .. n : W[i] = QueueNext(W[i - 1], frames[i])
  BY <1>2, <1>8
<1>10. W = [i \in 0 .. n |-> W[i]]
  BY <1>8
<1> HIDE DEF Def
<1>11. \A i \in 0 .. n : W[i] \in Page
  <2> DEFINE Good == {i \in 0 .. n : W[i] \in Page}
  <2>1. 0 \in Good
    BY <1>2, <1>9
  <2>2. ASSUME NEW i \in 1 .. n, i - 1 \in Good PROVE i \in Good
    <3>1. i \in 0 .. n /\ W[i - 1] \in Page
      BY <1>2, <2>2
    <3>2. W[i] \in Page
      BY <1>3, <1>9, <3>1
    <3> QED BY <3>1, <3>2
  <2> HIDE DEF Good
  <2>3. \A i \in 0 .. n : i \in Good
    BY <1>2, <2>1, <2>2, LoopInduction
  <2> QED BY <2>3 DEF Good
<1>12. W \in [0 .. n -> Page]
  BY <1>10, <1>11
<1> QED BY <1>1, <1>9, <1>12 DEF n, base

\* Of the frames queued for a page some first ones arrive; all of them, or it is
\* listed no more.
LEMMA QueueFacts ==
    ASSUME NEW c \in Page, NEW frames \in Seq(Frames)
    PROVE  /\ QueueAll(c, frames) \in Page
           /\ QueueAll(c, frames).listed => c.listed /\ Grown(c, QueueAll(c, frames), frames)
           /\ \E k \in 0 .. Len(frames) : Grown(c, QueueAll(c, frames), SubSeq(frames, 1, k))
           /\ ~c.listed => QueueAll(c, frames) = c
           /\ Within(c) => Within(QueueAll(c, frames))
<1> DEFINE n == Len(frames)
           First(k) == SubSeq(frames, 1, k)
<1>1. PICK run \in [0 .. n -> Page] :
         /\ QueueAll(c, frames) = run[n] /\ run[0] = c
         /\ \A i \in 1 .. n : run[i] = QueueNext(run[i - 1], frames[i])
  BY QueueRun
<1>2. n \in Nat /\ First(0) = <<>> /\ First(n) = frames
  OBVIOUS
<1> DEFINE Fine(i) == /\ run[i].listed => c.listed /\ Grown(c, run[i], First(i))
                      /\ \E k \in 0 .. i : Grown(c, run[i], First(k))
                      /\ ~c.listed => run[i] = c
                      /\ Within(c) => Within(run[i])
           Good == {i \in 0 .. n : Fine(i)}
<1>3. 0 \in Good
  <2>1. c.held \o <<>> = c.held /\ c.queue \o <<>> = c.queue
    BY DEF Page
  <2>2. Grown(c, run[0], First(0))
    BY <1>1, <1>2, <2>1 DEF Grown
  <2> HIDE DEF First
  <2> QED BY <1>1, <1>2, <2>2
<1>4. ASSUME NEW i \in 1 .. n, i - 1 \in Good PROVE i \in Good
  <2> DEFINE b == run[i - 1]
             f == frames[i]
             d == run[i]
  <2>1. b \in Page /\ f \in Frames /\ d = QueueNext(b, f) /\ i \in 0 .. n /\ Fine(i - 1)
    BY <1>1, <1>2, <1>4
  <2>2. First(i - 1) \in Seq(Frames) /\ First(i) = First(i - 1) \o <<f>>
    BY <1>2
  <2> HIDE DEF b, f, d, First, Fine
  <2>3. /\ b.listed => c.listed /\ Grown(c, b, First(i - 1))
        /\ Within(c) => Within(b)
        /\ ~c.listed => b = c
    BY <2>1 DEF Fine, b
  <2>4. PICK k \in 0 .. (i - 1) : Grown(c, b, First(k))
    BY <2>1 DEF Fine, b
  <2>7. ~c.listed => d = c
    BY <2>1, <2>3 DEF QueueNext
  <2>5. CASE d.listed
    <3>1. c.listed /\ Grown(c, b, First(i - 1)) /\ Grown(b, d, <<f>>) /\ (Within(c) => Within(d))
      BY <2>1, <2>3, <2>5, QueueType
    <3>2. /\ (c.held \o First(i - 1)) \o <<f>> = c.held \o First(i)
          /\ (c.queue \o First(i - 1)) \o <<f>> = c.queue \o First(i)
      <4>1. c.held \in Seq(Frames) /\ c.queue \in Seq(Frames) /\ <<f>> \in Seq(Frames)
        BY <2>1 DEF Page
      <4>2. /\ (c.held \o First(i - 1)) \o <<f>> = c.held \o (First(i - 1) \o <<f>>)
            /\ (c.queue \o First(i - 1)) \o <<f>> = c.queue \o (First(i - 1) \o <<f>>)
        BY <2>2, <4>1, Regroup, Zenon
      <4> QED BY <2>2, <4>2, Zenon
    <3>3. Grown(c, d, First(i))
      BY <3>1, <3>2 DEF Grown
    <3>4. i \in 0 .. i
      BY <1>2
    <3>5. Fine(i)
      BY <2>7, <3>1, <3>3, <3>4 DEF Fine, d
    <3> QED BY <2>1, <3>5
  <2>6. CASE ~d.listed
    <3>1. d = [b EXCEPT !.listed = FALSE] /\ (Within(c) => Within(d))
      BY <2>1, <2>3, <2>6, QueueType
    <3>2. Grown(c, d, First(k))
      BY <2>1, <2>4, <3>1 DEF Grown, Page
    <3>3. k \in 0 .. i
      BY <1>2
    <3>4. Fine(i)
      BY <2>6, <2>7, <3>1, <3>2, <3>3 DEF Fine, d
    <3> QED BY <2>1, <3>4
  <2> QED BY <2>5, <2>6
<1> HIDE DEF Good
<1>5. \A i \in 0 .. n : i \in Good
  BY <1>2, <1>3, <1>4, LoopInduction
<1>6. n \in 0 .. n
  BY <1>2
<1>7. Fine(n)
  BY <1>5, <1>6 DEF Good
<1> QED BY <1>1, <1>2, <1>6, <1>7

----------------------------------------------------------------------------
(* The inductive invariant *)

\* All that is on its way to a page, and what it shows in the end.
Coming(c) == c.snapshot \o c.queue \o c.held
FinalOf(c) == ViewAfter(c.view, Coming(c))

\* What a connection's phase says of its queues.
Tidy(c) ==
    /\ c.phase = "down" => ~c.listed
    /\ c.phase = "snapped" => c.queue = <<>> /\ Len(c.snapshot) =< Depth + 1
    /\ c.phase = "live" => c.snapshot = <<>> /\ c.held = <<>>
    /\ Within(c)

\* A view is the hub's. A page that was replayed nothing has no pane that the
\* hub has not.
Right(v, replayed, ps, ch, z, over) ==
    /\ ~v.replaying
    /\ replayed => /\ v.panes = ps
                   /\ \A i \in DOMAIN ps : v.shown[ps[i]] = ch[ps[i]]
                   /\ ~over => v.zoomed = z
    /\ ~replayed => ToSet(v.panes) \subseteq ToSet(ps) /\ (~over => v.zoomed \in {None, z})

HubKept ==
    /\ panes \in Seq(PaneIds) /\ NoRepeats(panes)
    /\ chunks \in [PaneIds -> Nat]
    /\ zoomed \in PaneIds \cup {None} /\ (zoomed = None \/ zoomed \in ToSet(panes))
    /\ next_id \in Nat \ {0}
    /\ \A p \in ToSet(panes) : p < next_id
    /\ \A p \in PaneIds : p >= next_id => chunks[p] = 0
    /\ done => stop /\ panes = <<>> /\ zoomed = None

PagesKept ==
    /\ pages \in [Pages -> Page]
    /\ \A pg \in Pages :
          /\ Tidy(pages[pg])
          /\ pages[pg].listed =>
                Right(FinalOf(pages[pg]), pages[pg].replayed, panes, chunks, zoomed, done)

HubInv == HubKept /\ PagesKept

----------------------------------------------------------------------------
(* Messages one by one *)

\* The frames the hub makes.
LEMMA FrameTypes ==
    /\ Hello \in Frames /\ Complete \in Frames
    /\ \A p \in PaneIds, n \in Nat : Created(p, n) \in Frames
    /\ \A p \in PaneIds : Exited(p) \in Frames /\ Output(p) \in Frames
    /\ \A p \in PaneIds \cup {None} : Zoomed(p) \in Frames
    /\ \A order \in Seq(PaneIds) : Reordered(order) \in Frames
BY DEF Frames, Hello, Complete, Created, Exited, Output, Zoomed, Reordered, Frame, None

\* What each message does.
LEMMA Handled ==
    ASSUME NEW u \in View
    PROVE  /\ HandleMessage(u, Hello) = [u EXCEPT !.replaying = TRUE, !.order = <<>>, !.zoom_said = FALSE]
           /\ HandleMessage(u, Complete) = OnReplayComplete(u)
           /\ \A p, n : HandleMessage(u, Created(p, n)) = OnCreated(u, p, n)
           /\ \A p : HandleMessage(u, Exited(p)) = [u EXCEPT !.panes = Without(@, p)]
           /\ \A p : HandleMessage(u, Output(p)) = [u EXCEPT !.shown[p] = @ + 1]
           /\ \A p : HandleMessage(u, Zoomed(p)) = [u EXCEPT !.zoomed = p, !.zoom_said = TRUE]
           /\ \A order : HandleMessage(u, Reordered(order)) = [u EXCEPT !.panes = CanonicalOrder(@, order)]
<1>1. HandleMessage(u, Hello) = [u EXCEPT !.replaying = TRUE, !.order = <<>>, !.zoom_said = FALSE]
  BY DEF HandleMessage, Hello, Frame
<1>2. HandleMessage(u, Complete) = OnReplayComplete(u)
  BY DEF HandleMessage, Complete, Frame
<1>3. \A p, n : HandleMessage(u, Created(p, n)) = OnCreated(u, p, n)
  BY DEF HandleMessage, Created, Frame
<1>4. \A p : HandleMessage(u, Exited(p)) = [u EXCEPT !.panes = Without(@, p)]
  BY DEF HandleMessage, Exited, Frame
<1>5. \A p : HandleMessage(u, Output(p)) = [u EXCEPT !.shown[p] = @ + 1]
  BY DEF HandleMessage, Output, Frame
<1>6. \A p : HandleMessage(u, Zoomed(p)) = [u EXCEPT !.zoomed = p, !.zoom_said = TRUE]
  BY DEF HandleMessage, Zoomed, Frame
<1>7. \A order : HandleMessage(u, Reordered(order)) = [u EXCEPT !.panes = CanonicalOrder(@, order)]
  BY DEF HandleMessage, Reordered, Frame
<1> QED BY <1>1, <1>2, <1>3, <1>4, <1>5, <1>6, <1>7

\* The first frame.
LEMMA AfterHead ==
    ASSUME NEW v \in View, NEW s \in Seq(Frames), s # <<>>
    PROVE  ViewAfter(v, s) = ViewAfter(HandleMessage(v, Head(s)), Tail(s))
<1>1. Head(s) \in Frames /\ Tail(s) \in Seq(Frames) /\ <<Head(s)>> \in Seq(Frames)
  OBVIOUS
<1>2. s = <<Head(s)>> \o Tail(s)
  OBVIOUS
<1>3. ViewAfter(v, <<Head(s)>> \o Tail(s)) = ViewAfter(ViewAfter(v, <<Head(s)>>), Tail(s))
  BY <1>1, AfterBoth
<1>4. ViewAfter(v, <<Head(s)>>) = HandleMessage(v, Head(s))
  BY <1>1, AfterOne
<1> QED BY <1>2, <1>3, <1>4, Zenon

----------------------------------------------------------------------------
(* A broadcast *)

\* What is queued comes after all that was on its way.
LEMMA GrownComing ==
    ASSUME NEW c \in Page, NEW d \in Page, NEW fs \in Seq(Frames), Tidy(c), c.phase # "down",
           Grown(c, d, fs)
    PROVE  Coming(d) = Coming(c) \o fs /\ Coming(c) \in Seq(Frames)
<1>1. /\ c.snapshot \in Seq(Frames) /\ c.queue \in Seq(Frames) /\ c.held \in Seq(Frames)
      /\ c.phase \in {"snapped", "live"}
  BY DEF Page
<1>2. CASE c.phase = "snapped"
  <2>1. d.snapshot = c.snapshot /\ d.queue = <<>> /\ c.queue = <<>> /\ d.held = c.held \o fs
    BY <1>2 DEF Grown, Tidy
  <2>2. c.snapshot \o <<>> = c.snapshot
    BY <1>1
  <2>3. Coming(d) = c.snapshot \o (c.held \o fs) /\ Coming(c) = c.snapshot \o c.held
    BY <2>1, <2>2 DEF Coming
  <2>4. c.snapshot \o (c.held \o fs) = (c.snapshot \o c.held) \o fs
    BY <1>1, Regroup
  <2>5. c.snapshot \o c.held \in Seq(Frames)
    BY <1>1
  <2> QED BY <2>3, <2>4, <2>5
<1>3. CASE c.phase = "live"
  <2>1. /\ d.snapshot = <<>> /\ c.snapshot = <<>> /\ d.held = <<>> /\ c.held = <<>>
        /\ d.queue = c.queue \o fs
    BY <1>3 DEF Grown, Tidy
  <2>2. <<>> \o c.queue = c.queue /\ c.queue \o <<>> = c.queue /\ c.queue \o fs \in Seq(Frames)
    BY <1>1
  <2>3. <<>> \o (c.queue \o fs) = c.queue \o fs /\ (c.queue \o fs) \o <<>> = c.queue \o fs
    BY <2>2
  <2>4. Coming(d) = c.queue \o fs /\ Coming(c) = c.queue
    BY <2>1, <2>2, <2>3 DEF Coming
  <2> QED BY <1>1, <2>4
<1> QED BY <1>1, <1>2, <1>3

\* What is queued leaves a connection as its phase says.
LEMMA GrownTidy ==
    ASSUME NEW c \in Page, NEW d \in Page, NEW fs \in Seq(Frames), Tidy(c),
           Grown(c, d, fs), Within(d), d.listed => c.listed
    PROVE  Tidy(d)
BY DEF Tidy, Grown

\* If frames turn every view of the old hub into one of the new, broadcasting
\* them does.
LEMMA BroadcastKeeps ==
    ASSUME PagesKept, NEW frames \in Seq(Frames), Broadcast(frames),
           \A v \in View, r \in BOOLEAN :
              Right(v, r, panes, chunks, zoomed, done)
                 => Right(ViewAfter(v, frames), r, panes', chunks', zoomed', done')
    PROVE  PagesKept'
<1>1. pages' = [pg \in Pages |-> QueueAll(pages[pg], frames)]
  BY DEF Broadcast
<1>2. ASSUME NEW pg \in Pages
      PROVE  /\ pages'[pg] \in Page /\ Tidy(pages'[pg])
             /\ pages'[pg].listed =>
                  Right(FinalOf(pages'[pg]), pages'[pg].replayed, panes', chunks', zoomed', done')
  <2> DEFINE c == pages[pg]
             d == QueueAll(c, frames)
  <2>1. pages'[pg] = d
    BY <1>1
  <2>2. c \in Page /\ Tidy(c) /\ (c.listed => Right(FinalOf(c), c.replayed, panes, chunks, zoomed, done))
    BY DEF PagesKept
  <2> HIDE DEF c, d
  <2>3. /\ d \in Page /\ (d.listed => c.listed /\ Grown(c, d, frames))
        /\ (\E k \in 0 .. Len(frames) : Grown(c, d, SubSeq(frames, 1, k)))
        /\ Within(c) => Within(d)
    BY <2>2, QueueFacts DEF d
  <2>4. PICK k \in 0 .. Len(frames) : Grown(c, d, SubSeq(frames, 1, k))
    BY <2>3
  <2>5. SubSeq(frames, 1, k) \in Seq(Frames)
    OBVIOUS
  <2>6. Tidy(d)
    <3>1. Within(d)
      BY <2>2, <2>3 DEF Tidy
    <3> QED BY <2>2, <2>3, <2>4, <2>5, <3>1, GrownTidy
  <2>7. ASSUME d.listed PROVE Right(FinalOf(d), d.replayed, panes', chunks', zoomed', done')
    <3>1. c.listed /\ Grown(c, d, frames) /\ c.phase # "down"
      BY <2>2, <2>3, <2>7 DEF Tidy
    <3>2. Coming(d) = Coming(c) \o frames /\ Coming(c) \in Seq(Frames)
      BY <2>2, <2>3, <3>1, GrownComing
    <3>3. d.view = c.view /\ d.replayed = c.replayed /\ c.view \in View /\ c.replayed \in BOOLEAN
      BY <2>2, <3>1 DEF Grown, Page
    <3>4. FinalOf(d) = ViewAfter(FinalOf(c), frames) /\ FinalOf(c) \in View
      BY <3>2, <3>3, AfterBoth, AfterType DEF FinalOf
    <3> QED BY <2>2, <3>1, <3>3, <3>4
  <2> QED BY <2>1, <2>3, <2>6, <2>7
<1>3. pages' \in [Pages -> Page]
  BY <1>1, <1>2
<1> QED BY <1>2, <1>3 DEF PagesKept

----------------------------------------------------------------------------
(* A pane opens, prints, leaves *)

\* One message, field by field.
LEMMA AfterZoomed ==
    ASSUME NEW v \in View, NEW p \in PaneIds \cup {None}, NEW u, u = ViewAfter(v, <<Zoomed(p)>>)
    PROVE  /\ u \in View /\ u.panes = v.panes /\ u.shown = v.shown /\ u.replaying = v.replaying
           /\ u.zoomed = p /\ u.order = v.order /\ u.zoom_said
<1>1. Zoomed(p) \in Frames
  BY FrameTypes
<1>2. u = HandleMessage(v, Zoomed(p))
  BY <1>1, AfterOne
<1>3. u = [v EXCEPT !.zoomed = p, !.zoom_said = TRUE]
  BY <1>2, Handled, Zenon
<1> QED BY <1>3 DEF View

\* Output is one chunk more.
LEMMA AfterOutput ==
    ASSUME NEW v \in View, NEW p \in PaneIds, NEW u, u = ViewAfter(v, <<Output(p)>>)
    PROVE  /\ u \in View /\ u.panes = v.panes /\ u.shown = [v.shown EXCEPT ![p] = @ + 1]
           /\ u.zoomed = v.zoomed /\ u.replaying = v.replaying
<1>1. Output(p) \in Frames /\ <<Output(p)>> \in Seq(Frames)
  BY FrameTypes
<1>2. u = HandleMessage(v, Output(p)) /\ u \in View
  BY <1>1, AfterOne, AfterType
<1>3. u = [v EXCEPT !.shown[p] = @ + 1]
  BY <1>2, Handled, Zenon
<1> QED BY <1>2, <1>3 DEF View

\* A pane leaves.
LEMMA AfterExited ==
    ASSUME NEW v \in View, NEW p \in PaneIds, NEW u, u = ViewAfter(v, <<Exited(p)>>)
    PROVE  /\ u \in View /\ u.panes = Without(v.panes, p) /\ u.shown = v.shown
           /\ u.zoomed = v.zoomed /\ u.replaying = v.replaying
<1>1. Exited(p) \in Frames /\ <<Exited(p)>> \in Seq(Frames)
  BY FrameTypes
<1>2. u = HandleMessage(v, Exited(p)) /\ u \in View
  BY <1>1, AfterOne, AfterType
<1>3. u = [v EXCEPT !.panes = Without(@, p)]
  BY <1>2, Handled, Zenon
<1> QED BY <1>2, <1>3 DEF View

\* The panes are put in order.
LEMMA AfterReordered ==
    ASSUME NEW v \in View, NEW order \in Seq(PaneIds), NEW u, u = ViewAfter(v, <<Reordered(order)>>)
    PROVE  /\ u \in View /\ u.panes = CanonicalOrder(v.panes, order) /\ u.shown = v.shown
           /\ u.zoomed = v.zoomed /\ u.replaying = v.replaying
<1>1. Reordered(order) \in Frames /\ <<Reordered(order)>> \in Seq(Frames)
  BY FrameTypes
<1>2. u = HandleMessage(v, Reordered(order)) /\ u \in View
  BY <1>1, AfterOne, AfterType
<1>3. u = [v EXCEPT !.panes = CanonicalOrder(@, order)]
  BY <1>2, Handled, Zenon
<1> QED BY <1>2, <1>3 DEF View

\* A pane is opened, or is kept where it was.
LEMMA AfterCreated ==
    ASSUME NEW v \in View, NEW p \in PaneIds, NEW n \in Nat, NEW u, u = ViewAfter(v, <<Created(p, n)>>)
    PROVE  /\ u \in View /\ u.shown = [v.shown EXCEPT ![p] = n]
           /\ u.panes = (IF p \in ToSet(v.panes) THEN v.panes ELSE Append(v.panes, p))
           /\ u.order = (IF v.replaying /\ p \notin ToSet(v.order) THEN Append(v.order, p) ELSE v.order)
           /\ u.zoomed = v.zoomed /\ u.replaying = v.replaying /\ u.zoom_said = v.zoom_said
<1>1. Created(p, n) \in Frames /\ <<Created(p, n)>> \in Seq(Frames)
  BY FrameTypes
<1>2. u = HandleMessage(v, Created(p, n)) /\ u \in View
  BY <1>1, AfterOne, AfterType
<1>3. HandleMessage(v, Created(p, n)) = OnCreated(v, p, n)
  BY DEF HandleMessage, Created, Frame
<1>4. u = OnCreated(v, p, n)
  BY <1>2, <1>3
<1> QED BY <1>2, <1>4 DEF View, OnCreated

\* register_pane: the zoom is cleared ahead of the pane, whose screen is empty.
LEMMA RegisterKeeps ==
    ASSUME HubInv, RegisterPane
    PROVE  HubInv'
<1> DEFINE id == next_id
<1>1. /\ id \in PaneIds /\ ~done /\ next_id' = id + 1 /\ panes' = Append(panes, id)
      /\ zoomed' = None /\ Broadcast(CreatedFrames(id)) /\ chunks' = chunks
      /\ stop' = stop /\ done' = done
  BY DEF RegisterPane, HubInv, HubKept, PaneIds
<1>2. /\ panes \in Seq(PaneIds) /\ NoRepeats(panes) /\ chunks \in [PaneIds -> Nat]
      /\ zoomed \in PaneIds \cup {None} /\ id \in Nat \ {0} /\ id \notin ToSet(panes)
      /\ chunks[id] = 0 /\ (\A p \in ToSet(panes) : p < id)
      /\ \A p \in PaneIds : p >= id => chunks[p] = 0
  BY <1>1 DEF HubInv, HubKept, PaneIds
<1>3. /\ panes' \in Seq(PaneIds) /\ NoRepeats(panes') /\ ToSet(panes') = ToSet(panes) \cup {id}
      /\ Len(panes') = Len(panes) + 1 /\ panes'[Len(panes) + 1] = id
      /\ \A i \in 1 .. Len(panes) : panes'[i] = panes[i]
  BY <1>1, <1>2, AppendEntries DEF NoRepeats
<1> HIDE DEF id
<1>4. HubKept'
  <2>1. (\A p \in ToSet(panes') : p < next_id') /\ next_id' \in Nat \ {0}
    <3>1. ToSet(panes) \subseteq Nat
      BY <1>2, ListEntries DEF PaneIds
    <3> QED BY <1>1, <1>2, <1>3, <3>1
  <2>2. \A p \in PaneIds : p >= next_id' => chunks'[p] = 0
    BY <1>1, <1>2 DEF PaneIds
  <2> QED BY <1>1, <1>2, <1>3, <2>1, <2>2 DEF HubKept
<1>5. CreatedFrames(id) \in Seq(Frames) /\ ZoomCleared \in Seq(Frames) /\ <<Created(id, 0)>> \in Seq(Frames)
  <2>1. Zoomed(None) \in Frames /\ Created(id, 0) \in Frames
    BY <1>1, FrameTypes
  <2>2. ZoomCleared \in Seq(Frames)
    BY <2>1 DEF ZoomCleared
  <2> QED BY <2>1, <2>2 DEF CreatedFrames
<1>6. ASSUME NEW v \in View, NEW r \in BOOLEAN, Right(v, r, panes, chunks, zoomed, done)
      PROVE  Right(ViewAfter(v, CreatedFrames(id)), r, panes', chunks', zoomed', done')
  <2> DEFINE w == ViewAfter(v, ZoomCleared)
             u == ViewAfter(w, <<Created(id, 0)>>)
  <2>1. /\ ~v.replaying /\ (r => v.panes = panes /\ v.zoomed = zoomed)
        /\ r => \A i \in DOMAIN panes : v.shown[panes[i]] = chunks[panes[i]]
        /\ ~r => ToSet(v.panes) \subseteq ToSet(panes) /\ v.zoomed \in {None, zoomed}
    BY <1>1, <1>6 DEF Right
  <2>2. w \in View /\ w.panes = v.panes /\ w.shown = v.shown /\ ~w.replaying /\ w.zoomed = None
    <3>1. CASE zoomed = None
      <4>1. ZoomCleared = <<>>
        BY <3>1 DEF ZoomCleared
      <4>2. w = v
        BY <4>1, AfterNone
      <4> QED BY <2>1, <3>1, <4>2
    <3>2. CASE zoomed # None
      <4>1. w = ViewAfter(v, <<Zoomed(None)>>) /\ None \in PaneIds \cup {None}
        BY <3>2 DEF ZoomCleared
      <4> HIDE DEF w
      <4> QED BY <2>1, <4>1, AfterZoomed
    <3> QED BY <3>1, <3>2
  <2>3. ViewAfter(v, CreatedFrames(id)) = u
    <3>1. <<Created(id, 0)>> \in Seq(Frames)
      BY <1>5
    <3> QED BY <1>5, <3>1, AfterBoth DEF CreatedFrames
  <2> HIDE DEF w
  <2>4. /\ ~u.replaying /\ u.zoomed = None
        /\ u.panes = (IF id \in ToSet(w.panes) THEN w.panes ELSE Append(w.panes, id))
        /\ u.shown = [w.shown EXCEPT ![id] = 0]
    BY <1>1, <2>2, AfterCreated
  <2> HIDE DEF u
  <2>5. ToSet(u.panes) = ToSet(w.panes) \cup {id}
    BY <1>1, <2>2, <2>4, AppendEntries DEF View
  <2>6. ASSUME r PROVE u.panes = panes' /\ \A i \in DOMAIN panes' : u.shown[panes'[i]] = chunks'[panes'[i]]
    <3>1. u.panes = panes'
      BY <1>1, <1>2, <2>1, <2>2, <2>4, <2>6
    <3>2. w.shown \in [PaneIds -> Nat] /\ u.shown[id] = 0 /\ \A p \in PaneIds \ {id} : u.shown[p] = v.shown[p]
      BY <1>1, <2>2, <2>4 DEF View
    <3>3. ASSUME NEW i \in 1 .. Len(panes') PROVE u.shown[panes'[i]] = chunks'[panes'[i]]
      <4>1. CASE i = Len(panes) + 1
        BY <1>1, <1>2, <1>3, <3>2, <4>1
      <4>2. CASE i \in 1 .. Len(panes)
        <5>1. panes'[i] = panes[i] /\ panes[i] \in PaneIds \ {id} /\ v.shown[panes[i]] = chunks[panes[i]]
          BY <1>2, <1>3, <2>1, <2>6, <4>2, ListEntries
        <5> QED BY <1>1, <3>2, <5>1
      <4> QED BY <1>2, <1>3, <4>1, <4>2
    <3> QED BY <1>3, <3>1, <3>3
  <2>7. ASSUME ~r PROVE ToSet(u.panes) \subseteq ToSet(panes')
    BY <1>3, <2>1, <2>2, <2>5, <2>7
  <2>8. Right(u, r, panes', chunks', zoomed', done')
    BY <1>1, <2>4, <2>6, <2>7 DEF Right
  <2> QED BY <2>3, <2>8
<1>7. PagesKept'
  BY <1>1, <1>5, <1>6, BroadcastKeeps DEF HubInv
<1> QED BY <1>4, <1>7 DEF HubInv

\* record_and_broadcast: a chunk is recorded and shown once.
LEMMA RecordKeeps ==
    ASSUME HubInv, NEW p \in PaneIds, RecordAndBroadcast(p)
    PROVE  HubInv'
<1>1. /\ ~done /\ p \in ToSet(panes) /\ chunks' = [chunks EXCEPT ![p] = @ + 1]
      /\ Broadcast(<<Output(p)>>) /\ panes' = panes /\ zoomed' = zoomed /\ next_id' = next_id
      /\ stop' = stop /\ done' = done
  BY DEF RecordAndBroadcast
<1>2. /\ panes \in Seq(PaneIds) /\ NoRepeats(panes) /\ chunks \in [PaneIds -> Nat]
      /\ p < next_id /\ next_id \in Nat \ {0}
  BY <1>1 DEF HubInv, HubKept
<1>3. HubKept'
  <2>1. chunks' \in [PaneIds -> Nat] /\ \A q \in PaneIds : q >= next_id => chunks'[q] = 0
    BY <1>1, <1>2 DEF HubInv, HubKept, PaneIds
  <2> QED BY <1>1, <2>1 DEF HubInv, HubKept
<1>4. <<Output(p)>> \in Seq(Frames) /\ Output(p) \in Frames
  BY FrameTypes
<1>5. ASSUME NEW v \in View, NEW r \in BOOLEAN, Right(v, r, panes, chunks, zoomed, done)
      PROVE  Right(ViewAfter(v, <<Output(p)>>), r, panes', chunks', zoomed', done')
  <2> DEFINE u == ViewAfter(v, <<Output(p)>>)
  <2>2. /\ v.shown \in [PaneIds -> Nat] /\ u.panes = v.panes /\ u.zoomed = v.zoomed
        /\ u.replaying = v.replaying /\ u.shown = [v.shown EXCEPT ![p] = @ + 1]
    BY AfterOutput DEF View
  <2> HIDE DEF u
  <2>3. ASSUME NEW i \in DOMAIN panes, v.shown[panes[i]] = chunks[panes[i]]
        PROVE  u.shown[panes[i]] = chunks'[panes[i]]
    <3>1. panes[i] \in PaneIds
      BY <1>2
    <3> QED BY <1>1, <1>2, <2>2, <2>3, <3>1
  <2>4. Right(u, r, panes', chunks', zoomed', done')
    BY <1>1, <1>5, <2>2, <2>3 DEF Right
  <2> QED BY <2>4 DEF u
<1>6. PagesKept'
  BY <1>1, <1>4, <1>5, BroadcastKeeps DEF HubInv
<1> QED BY <1>3, <1>6 DEF HubInv

\* remove_pane_and_announce: the pane takes its zoom with it.
LEMMA RemoveKeeps ==
    ASSUME HubInv, NEW p \in PaneIds, ~done, RemovePaneAndAnnounce(p), chunks' = chunks,
           next_id' = next_id, stop' = stop, done' = done
    PROVE  HubInv'
<1> DEFINE tail == IF zoomed' # zoomed THEN <<Zoomed(None)>> ELSE <<>>
           frames == <<Exited(p)>> \o tail
<1>1. /\ p \in ToSet(panes) /\ panes' = Without(panes, p) /\ Broadcast(frames)
      /\ zoomed' = IF zoomed = p THEN None ELSE zoomed
  BY DEF RemovePaneAndAnnounce, ZoomAfterRemove
<1>2. /\ panes \in Seq(PaneIds) /\ NoRepeats(panes) /\ chunks \in [PaneIds -> Nat]
      /\ zoomed \in PaneIds \cup {None} /\ (zoomed = None \/ zoomed \in ToSet(panes))
  BY DEF HubInv, HubKept
<1>3. /\ panes' \in Seq(PaneIds) /\ NoRepeats(panes') /\ ToSet(panes') = ToSet(panes) \ {p}
  BY <1>1, <1>2, WithoutFacts
<1>4. HubKept'
  <2>1. zoomed' \in PaneIds \cup {None} /\ (zoomed' = None \/ zoomed' \in ToSet(panes'))
    BY <1>1, <1>2, <1>3
  <2>2. \A q \in ToSet(panes') : q < next_id'
    BY <1>3 DEF HubInv, HubKept
  <2> QED BY <1>3, <2>1, <2>2 DEF HubInv, HubKept
<1>5. frames \in Seq(Frames) /\ tail \in Seq(Frames) /\ Exited(p) \in Frames /\ <<Exited(p)>> \in Seq(Frames)
      /\ Zoomed(None) \in Frames
  BY FrameTypes
<1>6. ASSUME NEW v \in View, NEW r \in BOOLEAN, Right(v, r, panes, chunks, zoomed, done)
      PROVE  Right(ViewAfter(v, frames), r, panes', chunks', zoomed', done')
  <2> DEFINE w == ViewAfter(v, <<Exited(p)>>)
             u == ViewAfter(w, tail)
  <2>1. /\ ~v.replaying /\ (r => v.panes = panes /\ v.zoomed = zoomed)
        /\ r => \A i \in DOMAIN panes : v.shown[panes[i]] = chunks[panes[i]]
        /\ ~r => ToSet(v.panes) \subseteq ToSet(panes) /\ v.zoomed \in {None, zoomed}
    BY <1>6 DEF Right
  <2>2. v.panes \in Seq(PaneIds) /\ Without(v.panes, p) \in Seq(PaneIds)
        /\ ToSet(Without(v.panes, p)) = ToSet(v.panes) \ {p}
    BY WithoutFacts DEF View
  <2>3. w \in View /\ w.panes = Without(v.panes, p) /\ w.shown = v.shown /\ w.zoomed = v.zoomed
        /\ w.replaying = v.replaying
    BY AfterExited
  <2>4. ViewAfter(v, frames) = u
    <3> HIDE DEF tail
    <3> QED BY <1>5, AfterBoth
  <2> HIDE DEF w
  <2>5. u.panes = w.panes /\ u.shown = w.shown /\ u.replaying = w.replaying
        /\ u.zoomed = IF zoomed' # zoomed THEN None ELSE w.zoomed
    <3>1. CASE zoomed' # zoomed
      <4>1. u = ViewAfter(w, <<Zoomed(None)>>) /\ None \in PaneIds \cup {None}
        BY <3>1
      <4> HIDE DEF u
      <4> QED BY <2>3, <3>1, <4>1, AfterZoomed
    <3>2. CASE zoomed' = zoomed
      <4>1. u = w
        BY <2>3, <3>2, AfterNone
      <4> QED BY <3>2, <4>1
    <3> QED BY <3>1, <3>2
  <2> HIDE DEF u, frames, tail
  <2>6. (r => u.zoomed = zoomed') /\ (~r => u.zoomed \in {None, zoomed'})
    BY <1>1, <2>1, <2>3, <2>5
  <2>7. ASSUME r PROVE u.panes = panes' /\ \A i \in DOMAIN panes' : u.shown[panes'[i]] = chunks'[panes'[i]]
    <3>1. \A x \in ToSet(panes) : v.shown[x] = chunks[x]
      BY <1>2, <2>1, <2>7, ListEntries
    <3>2. \A i \in DOMAIN panes' : panes'[i] \in ToSet(panes)
      BY <1>3, ListEntries
    <3> QED BY <1>1, <2>1, <2>3, <2>5, <2>7, <3>1, <3>2
  <2>8. ASSUME ~r PROVE ToSet(u.panes) \subseteq ToSet(panes')
    BY <1>3, <2>1, <2>2, <2>3, <2>5, <2>8
  <2>9. ~u.replaying
    BY <2>1, <2>3, <2>5
  <2>10. Right(u, r, panes', chunks', zoomed', done')
    BY <2>6, <2>7, <2>8, <2>9 DEF Right
  <2> QED BY <2>4, <2>10
<1>7. PagesKept'
  BY <1>1, <1>5, <1>6, BroadcastKeeps DEF HubInv
<1> QED BY <1>4, <1>7 DEF HubInv

----------------------------------------------------------------------------
(* The layout changes, the hub is torn down *)

\* reorder_panes: a page reconciles the announced order to itself.
LEMMA ReorderKeeps ==
    ASSUME HubInv, NEW order \in Orders, ReorderPanes(order)
    PROVE  HubInv'
<1> DEFINE target == CanonicalOrder(panes, order)
<1>1. /\ ~done /\ panes' = target /\ Broadcast(<<Reordered(target)>>) /\ zoomed' = zoomed
      /\ chunks' = chunks /\ next_id' = next_id /\ stop' = stop /\ done' = done
  BY DEF ReorderPanes
<1>2. order \in Seq(PaneIds)
  <2>1. CASE order \in {<<p>> : p \in PaneIds}
    <3>1. PICK p \in PaneIds : order = <<p>>
      BY <2>1
    <3> QED BY <3>1
  <2>2. CASE order \in PaneIds \X PaneIds
    <3>1. PICK p \in PaneIds, q \in PaneIds : order = <<p, q>>
      BY <2>2
    <3> QED BY <3>1
  <2> QED BY <2>1, <2>2 DEF Orders
<1>3. panes \in Seq(PaneIds)
  BY DEF HubInv, HubKept
<1>4. /\ target \in Seq(PaneIds) /\ NoRepeats(target) /\ ToSet(target) = ToSet(panes)
      /\ CanonicalOrder(panes, target) = target
  BY <1>2, <1>3, CanonicalFacts, CanonicalSettles
<1> HIDE DEF target
<1>5. HubKept'
  BY <1>1, <1>4 DEF HubInv, HubKept
<1>6. <<Reordered(target)>> \in Seq(Frames)
  BY <1>4, FrameTypes
<1>7. ASSUME NEW v \in View, NEW r \in BOOLEAN, Right(v, r, panes, chunks, zoomed, done)
      PROVE  Right(ViewAfter(v, <<Reordered(target)>>), r, panes', chunks', zoomed', done')
  <2> DEFINE u == ViewAfter(v, <<Reordered(target)>>)
  <2>1. /\ u.panes = CanonicalOrder(v.panes, target) /\ u.shown = v.shown
        /\ u.zoomed = v.zoomed /\ u.replaying = v.replaying
    BY <1>4, AfterReordered
  <2>2. v.panes \in Seq(PaneIds) /\ ToSet(CanonicalOrder(v.panes, target)) = ToSet(v.panes)
    BY <1>4, CanonicalFacts DEF View
  <2> HIDE DEF u
  <2>3. ASSUME r PROVE u.panes = panes' /\ \A i \in DOMAIN panes' : u.shown[panes'[i]] = chunks'[panes'[i]]
    <3>1. v.panes = panes /\ \A i \in DOMAIN panes : v.shown[panes[i]] = chunks[panes[i]]
      BY <1>7, <2>3 DEF Right
    <3>2. \A x \in ToSet(panes) : v.shown[x] = chunks[x]
      BY <1>3, <3>1, ListEntries
    <3>3. \A i \in DOMAIN target : target[i] \in ToSet(panes)
      BY <1>4, ListEntries
    <3> QED BY <1>1, <1>4, <2>1, <3>1, <3>2, <3>3
  <2>4. ASSUME ~r PROVE ToSet(u.panes) \subseteq ToSet(panes')
    BY <1>1, <1>4, <1>7, <2>1, <2>2, <2>4 DEF Right
  <2>5. ~u.replaying /\ (r => u.zoomed = zoomed') /\ (~r => u.zoomed \in {None, zoomed'})
    BY <1>1, <1>7, <2>1 DEF Right
  <2>6. Right(u, r, panes', chunks', zoomed', done')
    BY <2>3, <2>4, <2>5 DEF Right
  <2> QED BY <2>6 DEF u
<1>8. PagesKept'
  BY <1>1, <1>6, <1>7, BroadcastKeeps DEF HubInv
<1> QED BY <1>5, <1>8 DEF HubInv

\* set_zoom, which finds no pane in a hub that is done.
LEMMA ZoomKeeps ==
    ASSUME HubInv, NEW p \in PaneIds \cup {None}, SetZoom(p)
    PROVE  HubInv'
<1>1. /\ p \in ToSet(panes) \cup {None} /\ p # zoomed /\ zoomed' = p /\ Broadcast(<<Zoomed(p)>>)
      /\ panes' = panes /\ chunks' = chunks /\ next_id' = next_id /\ stop' = stop /\ done' = done
  BY DEF SetZoom
<1>2. ~done
  <2>1. ToSet(<<>>) = {}
    BY DEF ToSet
  <2> QED BY <1>1, <2>1 DEF HubInv, HubKept
<1>3. HubKept'
  BY <1>1, <1>2 DEF HubInv, HubKept
<1>4. <<Zoomed(p)>> \in Seq(Frames)
  BY FrameTypes
<1>5. ASSUME NEW v \in View, NEW r \in BOOLEAN, Right(v, r, panes, chunks, zoomed, done)
      PROVE  Right(ViewAfter(v, <<Zoomed(p)>>), r, panes', chunks', zoomed', done')
  <2> DEFINE u == ViewAfter(v, <<Zoomed(p)>>)
  <2>1. u.panes = v.panes /\ u.shown = v.shown /\ u.replaying = v.replaying /\ u.zoomed = p
    BY AfterZoomed
  <2> HIDE DEF u
  <2>2. Right(u, r, panes', chunks', zoomed', done')
    BY <1>1, <1>5, <2>1 DEF Right
  <2> QED BY <2>2 DEF u
<1>6. PagesKept'
  BY <1>1, <1>4, <1>5, BroadcastKeeps DEF HubInv
<1> QED BY <1>3, <1>6 DEF HubInv

\* A list of nothing is empty.
LEMMA EmptyList ==
    ASSUME NEW l \in Seq(PaneIds), ToSet(l) \subseteq {}
    PROVE  l = <<>>
<1>1. ToSet(l) = {l[i] : i \in 1 .. Len(l)} /\ Len(l) \in Nat
  BY ListEntries
<1>2. ~(1 \in 1 .. Len(l))
  BY <1>1
<1>3. Len(l) = 0
  BY <1>1, <1>2
<1> QED BY <1>3

\* Each pane of the torn down hub leaves every page.
LEMMA ExitsEmpty ==
    ASSUME NEW list \in Seq(PaneIds), NEW v \in View, ToSet(v.panes) \subseteq ToSet(list),
           NEW frames, frames = [i \in 1 .. Len(list) |-> Exited(list[i])],
           NEW u, u = ViewAfter(v, frames)
    PROVE  frames \in Seq(Frames) /\ u.panes = <<>> /\ u.replaying = v.replaying
<1> DEFINE n == Len(list)
<1>1. n \in Nat /\ \A i \in 1 .. n : list[i] \in PaneIds
  OBVIOUS
<1>2. /\ frames \in Seq(Frames) /\ Len(frames) = n
      /\ \A i \in 1 .. n : frames[i] = Exited(list[i])
  <2>1. \A i \in 1 .. n : Exited(list[i]) \in Frames
    BY <1>1, FrameTypes
  <2> QED BY <1>1, <2>1
<1>3. PICK run \in [0 .. n -> View] : u = run[n] /\ run[0] = v /\ Follows(n, frames, run)
  BY <1>2, ViewPath
<1> DEFINE Left(i) == {list[j] : j \in (i + 1) .. n}
           Good == {i \in 0 .. n : ToSet(run[i].panes) \subseteq Left(i) /\ run[i].replaying = v.replaying}
<1>4. 0 \in Good
  <2>1. Left(0) = ToSet(list)
    BY <1>1, ListEntries
  <2> HIDE DEF Left
  <2> QED BY <1>1, <1>3, <2>1
<1>5. ASSUME NEW i \in 1 .. n, i - 1 \in Good PROVE i \in Good
  <2> DEFINE b == run[i - 1]
             d == run[i]
             p == list[i]
  <2>1. /\ b \in View /\ p \in PaneIds /\ i \in 0 .. n
        /\ ToSet(b.panes) \subseteq Left(i - 1) /\ b.replaying = v.replaying
    BY <1>1, <1>3, <1>5
  <2>2. d = HandleMessage(b, Exited(p)) /\ Exited(p) \in Frames
    BY <1>2, <1>3, <2>1, FrameTypes DEF Follows
  <2>3. Left(i - 1) = Left(i) \cup {p}
    BY <1>1
  <2> HIDE DEF b, d, p, Left
  <2>4. d = ViewAfter(b, <<Exited(p)>>)
    BY <2>1, <2>2, AfterOne
  <2>5. d.panes = Without(b.panes, p) /\ d.replaying = b.replaying /\ b.panes \in Seq(PaneIds)
    BY <2>1, <2>4, AfterExited DEF View
  <2>6. ToSet(d.panes) = ToSet(b.panes) \ {p}
    BY <2>5, WithoutFacts
  <2> QED BY <2>1, <2>3, <2>5, <2>6 DEF d
<1> HIDE DEF Good
<1>6. \A i \in 0 .. n : i \in Good
  BY <1>1, <1>4, <1>5, LoopInduction
<1>7. ToSet(u.panes) \subseteq {} /\ u.replaying = v.replaying /\ u.panes \in Seq(PaneIds)
  <2>1. n \in 0 .. n /\ Left(n) = {}
    BY <1>1
  <2>2. run[n] \in View
    BY <1>3, <2>1
  <2> QED BY <1>3, <1>6, <2>1, <2>2 DEF Good, View
<1>8. u.panes = <<>>
  BY <1>7, EmptyList
<1> QED BY <1>2, <1>7, <1>8

\* The end of `run`.
LEMMA TeardownKeeps ==
    ASSUME HubInv, Teardown
    PROVE  HubInv'
<1> DEFINE frames == [i \in 1 .. Len(panes) |-> Exited(panes[i])]
<1>1. /\ stop /\ ~done /\ done' /\ panes' = <<>> /\ zoomed' = None /\ Broadcast(frames)
      /\ chunks' = chunks /\ next_id' = next_id /\ stop' = stop
  BY DEF Teardown
<1>2. panes \in Seq(PaneIds)
  BY DEF HubInv, HubKept
<1>3. ToSet(<<>>) = {} /\ <<>> \in Seq(PaneIds) /\ NoRepeats(<<>>)
  BY DEF ToSet, NoRepeats
<1>4. HubKept'
  BY <1>1, <1>3 DEF HubInv, HubKept
<1>5. frames \in Seq(Frames)
  <2>1. \A i \in 1 .. Len(panes) : Exited(panes[i]) \in Frames
    BY <1>2, FrameTypes
  <2> QED BY <1>2, <2>1
<1> HIDE DEF frames
<1>6. ASSUME NEW v \in View, NEW r \in BOOLEAN, Right(v, r, panes, chunks, zoomed, done)
      PROVE  Right(ViewAfter(v, frames), r, panes', chunks', zoomed', done')
  <2> DEFINE u == ViewAfter(v, frames)
  <2>1. ToSet(v.panes) \subseteq ToSet(panes) /\ ~v.replaying
    BY <1>6 DEF Right
  <2>2. u.panes = <<>> /\ u.replaying = v.replaying
    BY <1>2, <2>1, ExitsEmpty DEF frames
  <2> HIDE DEF u
  <2>3. Right(u, r, panes', chunks', zoomed', done')
    BY <1>1, <1>3, <2>1, <2>2 DEF Right
  <2> QED BY <2>3 DEF u
<1>7. PagesKept'
  BY <1>1, <1>5, <1>6, BroadcastKeeps DEF HubInv
<1> QED BY <1>4, <1>7 DEF HubInv

----------------------------------------------------------------------------
(* A page's own steps *)

\* A step of one page's.
LEMMA OnePageKeeps ==
    ASSUME HubInv, UNCHANGED hub, NEW pg \in Pages, NEW d \in Page, Tidy(d),
           d.listed => Right(FinalOf(d), d.replayed, panes, chunks, zoomed, done),
           pages' = [pages EXCEPT ![pg] = d]
    PROVE  HubInv'
<1>1. /\ panes' = panes /\ chunks' = chunks /\ zoomed' = zoomed /\ next_id' = next_id
      /\ stop' = stop /\ done' = done
  BY DEF hub
<1>2. HubKept'
  BY <1>1 DEF HubInv, HubKept
<1>3. pages \in [Pages -> Page]
  BY DEF HubInv, PagesKept
<1>4. pages' \in [Pages -> Page] /\ pages'[pg] = d /\ \A q \in Pages \ {pg} : pages'[q] = pages[q]
  BY <1>3
<1>5. ASSUME NEW q \in Pages
      PROVE  /\ Tidy(pages'[q])
             /\ pages'[q].listed =>
                   Right(FinalOf(pages'[q]), pages'[q].replayed, panes', chunks', zoomed', done')
  <2>1. CASE q = pg
    BY <1>1, <1>4, <2>1
  <2>2. CASE q # pg
    <3>1. pages'[q] = pages[q]
      BY <1>4, <2>2
    <3>2. /\ Tidy(pages[q])
          /\ pages[q].listed =>
                Right(FinalOf(pages[q]), pages[q].replayed, panes, chunks, zoomed, done)
      BY DEF HubInv, PagesKept
    <3> QED BY <1>1, <3>1, <3>2
  <2> QED BY <2>1, <2>2
<1>6. PagesKept'
  BY <1>4, <1>5 DEF PagesKept
<1> QED BY <1>2, <1>6 DEF HubInv

\* connect, second critical section: what was held follows the replay.
LEMMA OpenKeeps ==
    ASSUME HubInv, NEW pg \in Pages, ConnectOpen(pg)
    PROVE  HubInv'
<1> DEFINE b == pages[pg]
           c == [b EXCEPT !.phase = "live", !.queue = b.snapshot, !.snapshot = <<>>, !.held = <<>>]
           d == QueueAll(c, b.held)
<1>1. b.phase = "snapped" /\ pages' = [pages EXCEPT ![pg] = d] /\ UNCHANGED hub
  BY DEF ConnectOpen
<1>2. b \in Page /\ Tidy(b) /\ (b.listed => Right(FinalOf(b), b.replayed, panes, chunks, zoomed, done))
  BY DEF HubInv, PagesKept
<1> HIDE DEF b
<1>3. /\ b.snapshot \in Seq(Frames) /\ b.held \in Seq(Frames) /\ <<>> \in Seq(Frames)
      /\ b.queue = <<>> /\ Len(b.snapshot) =< Depth + 1
  BY <1>1, <1>2 DEF Page, Tidy
<1>4. /\ c \in Page /\ c.phase = "live" /\ c.queue = b.snapshot /\ c.snapshot = <<>> /\ c.held = <<>>
      /\ c.listed = b.listed /\ c.view = b.view /\ c.replayed = b.replayed
  BY <1>2, <1>3 DEF Page
<1> HIDE DEF c
<1>5. Tidy(c)
  <2>1. Len(c.held) = 0
    BY <1>4
  <2> QED BY <1>3, <1>4, <2>1, DepthAssumption DEF Tidy, Within
<1>6. /\ d \in Page /\ (d.listed => c.listed /\ Grown(c, d, b.held)) /\ (Within(c) => Within(d))
      /\ \E k \in 0 .. Len(b.held) : Grown(c, d, SubSeq(b.held, 1, k))
  BY <1>3, <1>4, QueueFacts
<1> HIDE DEF d
<1>7. Tidy(d)
  <2>1. PICK k \in 0 .. Len(b.held) : Grown(c, d, SubSeq(b.held, 1, k))
    BY <1>6
  <2>2. SubSeq(b.held, 1, k) \in Seq(Frames) /\ Within(d)
    BY <1>3, <1>5, <1>6 DEF Tidy
  <2> QED BY <1>4, <1>5, <1>6, <2>1, <2>2, GrownTidy
<1>8. ASSUME d.listed PROVE Right(FinalOf(d), d.replayed, panes, chunks, zoomed, done)
  <2>1. Grown(c, d, b.held) /\ b.listed
    BY <1>4, <1>6, <1>8
  <2>2. Coming(d) = Coming(c) \o b.held
    BY <1>3, <1>4, <1>5, <1>6, <2>1, GrownComing
  <2>3. Coming(c) = b.snapshot /\ Coming(b) = b.snapshot \o b.held
    <3>1. <<>> \o b.snapshot = b.snapshot /\ b.snapshot \o <<>> = b.snapshot
      BY <1>3
    <3> QED BY <1>3, <1>4, <3>1 DEF Coming
  <2>4. d.view = b.view /\ d.replayed = b.replayed
    BY <1>4, <2>1 DEF Grown
  <2>5. FinalOf(d) = FinalOf(b)
    BY <2>2, <2>3, <2>4 DEF FinalOf
  <2> QED BY <1>2, <2>1, <2>4, <2>5
<1> QED BY <1>1, <1>6, <1>7, <1>8, OnePageKeeps

\* A page handles a frame: what it ends up with is the same.
LEMMA DeliverKeeps ==
    ASSUME HubInv, NEW pg \in Pages, Deliver(pg)
    PROVE  HubInv'
<1> DEFINE c == pages[pg]
           d == [c EXCEPT !.view = HandleMessage(@, Head(c.queue)), !.queue = Tail(@)]
<1>1. c \in Page /\ Tidy(c) /\ (c.listed => Right(FinalOf(c), c.replayed, panes, chunks, zoomed, done))
  BY DEF HubInv, PagesKept
<1>2. c.phase = "live" /\ c.queue # <<>> /\ UNCHANGED hub
  BY DEF Deliver
<1>3. pages' = [pages EXCEPT ![pg] = d]
  BY <1>1 DEF Deliver, HubInv, PagesKept, Page
<1> HIDE DEF c
<1>4. /\ c.queue \in Seq(Frames) /\ c.view \in View /\ Head(c.queue) \in Frames
      /\ Tail(c.queue) \in Seq(Frames) /\ Len(Tail(c.queue)) = Len(c.queue) - 1 /\ Len(c.queue) \in Nat
  BY <1>1, <1>2 DEF Page
<1>5. HandleMessage(c.view, Head(c.queue)) \in View
  BY <1>4, HandleType
<1>6. /\ d \in Page /\ d.view = HandleMessage(c.view, Head(c.queue)) /\ d.queue = Tail(c.queue)
      /\ d.phase = "live" /\ d.listed = c.listed /\ d.snapshot = c.snapshot /\ d.held = c.held
      /\ d.replayed = c.replayed
  BY <1>1, <1>2, <1>4, <1>5 DEF Page
<1> HIDE DEF d
<1>7. Tidy(d)
  BY <1>1, <1>2, <1>4, <1>6, DepthAssumption DEF Tidy, Within
<1>8. FinalOf(d) = FinalOf(c)
  <2>1. c.snapshot = <<>> /\ c.held = <<>>
    BY <1>1, <1>2 DEF Tidy
  <2>2. <<>> \o c.queue = c.queue /\ c.queue \o <<>> = c.queue
    BY <1>4
  <2>3. <<>> \o Tail(c.queue) = Tail(c.queue) /\ Tail(c.queue) \o <<>> = Tail(c.queue)
    BY <1>4
  <2>4. Coming(c) = c.queue /\ Coming(d) = Tail(c.queue)
    BY <1>6, <2>1, <2>2, <2>3 DEF Coming
  <2> QED BY <1>2, <1>4, <1>6, <2>4, AfterHead DEF FinalOf
<1> QED BY <1>1, <1>2, <1>3, <1>6, <1>7, <1>8, OnePageKeeps

\* A socket that is gone is not listed.
LEMMA CloseKeeps ==
    ASSUME HubInv, NEW pg \in Pages, SocketCloses(pg)
    PROVE  HubInv'
<1> DEFINE c == pages[pg]
           d == [c EXCEPT !.phase = "down", !.listed = FALSE, !.queue = <<>>, !.held = <<>>]
<1>1. c \in Page /\ UNCHANGED hub /\ <<>> \in Seq(Frames) /\ Len(<<>>) = 0
  BY DEF HubInv, PagesKept, SocketCloses
<1>2. pages' = [pages EXCEPT ![pg] = d]
  BY <1>1 DEF SocketCloses, HubInv, PagesKept, Page
<1>3. d \in Page /\ ~d.listed /\ d.phase = "down" /\ d.queue = <<>> /\ d.held = <<>>
  BY <1>1 DEF Page
<1> HIDE DEF c, d
<1>4. Tidy(d)
  BY <1>1, <1>3, DepthAssumption DEF Tidy, Within
<1> QED BY <1>1, <1>2, <1>3, <1>4, OnePageKeeps

----------------------------------------------------------------------------
(* A page is replayed to *)

\* Two queues in one.
LEMMA Joined ==
    ASSUME NEW a \in Seq(Frames), NEW b \in Seq(Frames)
    PROVE  a \o b \in Seq(Frames) /\ Len(a \o b) = Len(a) + Len(b)
OBVIOUS

\* The frames that replay a list of panes and what each recorded.
Replays(list, ch, frames) ==
    /\ Len(frames) = Len(list)
    /\ \A i \in 1 .. Len(list) : frames[i] = Created(list[i], ch[list[i]])

\* The replayed panes are a page's order, and it shows what they recorded.
LEMMA ReplayedPanes ==
    ASSUME NEW list \in Seq(PaneIds), NoRepeats(list), NEW ch \in [PaneIds -> Nat],
           NEW w \in View, w.replaying, w.order = <<>>,
           NEW frames \in Seq(Frames), Replays(list, ch, frames),
           NEW u, u = ViewAfter(w, frames)
    PROVE  /\ u \in View /\ u.replaying /\ u.order = list
           /\ u.zoomed = w.zoomed /\ u.zoom_said = w.zoom_said
           /\ \A i \in 1 .. Len(list) : u.shown[list[i]] = ch[list[i]]
<1> DEFINE n == Len(list)
<1>1. n \in Nat /\ \A i \in 1 .. n : list[i] \in PaneIds /\ ch[list[i]] \in Nat
  OBVIOUS
<1>3. PICK run \in [0 .. n -> View] : u = run[n] /\ run[0] = w /\ Follows(n, frames, run)
  BY ViewPath DEF Replays
<1> DEFINE Stage(x, i) ==
              /\ x.replaying /\ x.zoomed = w.zoomed /\ x.zoom_said = w.zoom_said
              /\ Len(x.order) = i
              /\ \A j \in 1 .. i : x.order[j] = list[j] /\ x.shown[list[j]] = ch[list[j]]
           Good == {i \in 0 .. n : Stage(run[i], i)}
<1>4. 0 \in Good
  <2>1. Len(w.order) = 0 /\ 0 \in 0 .. n
    BY <1>1
  <2>2. Stage(w, 0)
    BY <2>1
  <2> HIDE DEF Stage
  <2> QED BY <1>3, <2>1, <2>2
<1> HIDE DEF Stage
<1>5. ASSUME NEW i \in 1 .. n, i - 1 \in Good PROVE i \in Good
  <2> DEFINE b == run[i - 1]
             d == run[i]
             p == list[i]
  <2>1. b \in View /\ p \in PaneIds /\ ch[p] \in Nat /\ i \in 0 .. n /\ Stage(b, i - 1)
    BY <1>1, <1>3, <1>5 DEF Good
  <2>2. d = HandleMessage(b, Created(p, ch[p])) /\ Created(p, ch[p]) \in Frames
    BY <1>3, <2>1, FrameTypes DEF Follows, Replays
  <2>3. /\ b.order \in Seq(PaneIds) /\ b.shown \in [PaneIds -> Nat] /\ b.replaying
        /\ b.zoomed = w.zoomed /\ b.zoom_said = w.zoom_said /\ Len(b.order) = i - 1
        /\ \A j \in 1 .. (i - 1) : b.order[j] = list[j] /\ b.shown[list[j]] = ch[list[j]]
    BY <2>1 DEF View, Stage
  <2> HIDE DEF b, d
  <2>4. d = ViewAfter(b, <<Created(p, ch[p])>>)
    BY <2>1, <2>2, AfterOne
  <2>5. /\ d.shown = [b.shown EXCEPT ![p] = ch[p]]
        /\ d.order = (IF b.replaying /\ p \notin ToSet(b.order) THEN Append(b.order, p) ELSE b.order)
        /\ d.zoomed = b.zoomed /\ d.replaying = b.replaying /\ d.zoom_said = b.zoom_said
    BY <2>1, <2>4, AfterCreated
  <2>6. p \notin ToSet(b.order)
    <3>1. \A j \in 1 .. (i - 1) : list[j] # p
      BY <1>1 DEF NoRepeats
    <3>2. ToSet(b.order) = {b.order[j] : j \in 1 .. Len(b.order)}
      BY <2>3, ListEntries
    <3>3. ASSUME p \in ToSet(b.order) PROVE FALSE
      <4>1. PICK j \in 1 .. Len(b.order) : b.order[j] = p
        BY <3>2, <3>3
      <4> QED BY <2>3, <3>1, <4>1
    <3> QED BY <3>3
  <2>7. d.order = Append(b.order, p)
    BY <2>3, <2>5, <2>6
  <2>8. /\ Len(d.order) = i /\ d.order[i] = p /\ \A j \in 1 .. (i - 1) : d.order[j] = b.order[j]
    BY <1>1, <2>3, <2>7
  <2>9. ASSUME NEW j \in 1 .. i PROVE d.order[j] = list[j] /\ d.shown[list[j]] = ch[list[j]]
    <3>1. CASE j = i
      BY <2>1, <2>3, <2>5, <2>8, <3>1
    <3>2. CASE j # i
      <4>1. j \in 1 .. (i - 1) /\ list[j] \in PaneIds
        BY <1>1, <3>2
      <4>2. d.order[j] = list[j] /\ b.shown[list[j]] = ch[list[j]]
        BY <2>3, <2>8, <4>1
      <4> DEFINE q == list[j]
      <4>3. q \in PaneIds /\ b.shown[q] = ch[q]
        BY <4>1, <4>2
      <4> HIDE DEF q, p
      <4>4. d.shown[q] = ch[q]
        BY <2>1, <2>3, <2>5, <4>3
      <4> QED BY <4>2, <4>4 DEF q
    <3> QED BY <3>1, <3>2
  <2>10. Stage(d, i)
    BY <2>3, <2>5, <2>8, <2>9 DEF Stage
  <2> QED BY <2>1, <2>10 DEF d
<1> HIDE DEF Good
<1>6. \A i \in 0 .. n : i \in Good
  BY <1>1, <1>4, <1>5, LoopInduction
<1>7. n \in 0 .. n
  BY <1>1
<1>8. u \in View /\ Stage(u, n)
  BY <1>3, <1>6, <1>7 DEF Good
<1>9. /\ u.replaying /\ u.zoomed = w.zoomed /\ u.zoom_said = w.zoom_said
      /\ u.order \in Seq(PaneIds) /\ Len(u.order) = n
      /\ \A j \in 1 .. n : u.order[j] = list[j] /\ u.shown[list[j]] = ch[list[j]]
  BY <1>8 DEF Stage, View
<1>10. u.order = list
  <2> DEFINE l == u.order
  <2>1. l \in Seq(PaneIds) /\ Len(l) = Len(list) /\ \A j \in 1 .. Len(list) : l[j] = list[j]
    BY <1>9
  <2> HIDE DEF l
  <2>2. l = list
    BY <2>1
  <2> QED BY <2>2 DEF l
<1> QED BY <1>8, <1>9, <1>10

\* The end of a replay.
LEMMA AfterComplete ==
    ASSUME NEW v \in View, v.replaying, NEW u, u = ViewAfter(v, <<Complete>>)
    PROVE  /\ u \in View /\ ~u.replaying /\ u.panes = v.order /\ u.shown = v.shown
           /\ u.zoomed = IF v.zoom_said THEN v.zoomed ELSE None
<1>1. Complete \in Frames /\ <<Complete>> \in Seq(Frames)
  BY FrameTypes
<1>2. u = HandleMessage(v, Complete) /\ u \in View
  BY <1>1, AfterOne, AfterType
<1>3. u = OnReplayComplete(v)
  BY <1>2, Handled, Zenon
<1> QED BY <1>2, <1>3 DEF View, OnReplayComplete

\* The start of a replay.
LEMMA AfterHello ==
    ASSUME NEW v \in View, NEW u, u = ViewAfter(v, <<Hello>>)
    PROVE  /\ u \in View /\ u.replaying /\ u.order = <<>> /\ ~u.zoom_said
<1>1. Hello \in Frames /\ <<Hello>> \in Seq(Frames)
  BY FrameTypes
<1>2. u = HandleMessage(v, Hello) /\ u \in View
  BY <1>1, AfterOne, AfterType
<1>3. u = [v EXCEPT !.replaying = TRUE, !.order = <<>>, !.zoom_said = FALSE]
  BY <1>2, Handled, Zenon
<1> QED BY <1>2, <1>3 DEF View

\* Whatever a page kept, a replay leaves it with the hub's panes and zoom.
LEMMA ReplayIsRight ==
    ASSUME HubKept, ~done, NEW v \in View, NEW s, s = <<Hello>> \o Replay \o <<Complete>>
    PROVE  /\ s \in Seq(Frames) /\ Len(s) =< Depth + 1
           /\ Right(ViewAfter(v, s), TRUE, panes, chunks, zoomed, done)
<1> DEFINE zs == IF zoomed = None THEN <<>> ELSE <<Zoomed(zoomed)>>
           cs == [i \in 1 .. Len(panes) |-> Created(panes[i], chunks[panes[i]])]
           v1 == ViewAfter(v, <<Hello>>)
           v2 == ViewAfter(v1, zs)
           v3 == ViewAfter(v2, cs)
           v4 == ViewAfter(v3, <<Complete>>)
<1>1. /\ panes \in Seq(PaneIds) /\ NoRepeats(panes) /\ chunks \in [PaneIds -> Nat]
      /\ zoomed \in PaneIds \cup {None} /\ Len(panes) \in Nat /\ Len(panes) =< MaxPaneIds
  BY ListLengths DEF HubKept
<1>2. Replay = zs \o cs
  BY DEF Replay
<1>3. /\ <<Hello>> \in Seq(Frames) /\ Len(<<Hello>>) = 1
      /\ <<Complete>> \in Seq(Frames) /\ Len(<<Complete>>) = 1
  BY FrameTypes
<1>4. zs \in Seq(Frames) /\ Len(zs) \in {0, 1}
  BY <1>1, FrameTypes
<1>5. v1 \in View /\ v1.replaying /\ v1.order = <<>> /\ ~v1.zoom_said
  BY AfterHello
<1> HIDE DEF v1
<1>6. /\ v2 \in View /\ v2.replaying /\ v2.order = <<>>
      /\ (v2.zoom_said => v2.zoomed = zoomed) /\ (~v2.zoom_said => zoomed = None)
  <2>1. CASE zoomed = None
    <3>1. v2 = v1
      BY <1>5, <2>1, AfterNone
    <3> HIDE DEF v2
    <3> QED BY <1>5, <2>1, <3>1
  <2>2. CASE zoomed # None
    <3>1. v2 = ViewAfter(v1, <<Zoomed(zoomed)>>)
      BY <2>2
    <3> HIDE DEF v2
    <3> QED BY <1>1, <1>5, <3>1, AfterZoomed
  <2> QED BY <2>1, <2>2
<1> HIDE DEF v2, zs
<1>7. /\ cs \in Seq(Frames) /\ Len(cs) = Len(panes) /\ v3 \in View /\ v3.replaying /\ v3.order = panes
      /\ v3.zoomed = v2.zoomed /\ v3.zoom_said = v2.zoom_said
      /\ \A i \in 1 .. Len(panes) : v3.shown[panes[i]] = chunks[panes[i]]
  <2>1. \A i \in 1 .. Len(panes) : Created(panes[i], chunks[panes[i]]) \in Frames
    BY <1>1, FrameTypes
  <2>2. cs \in Seq(Frames) /\ Len(cs) = Len(panes)
    BY <1>1, <2>1
  <2>3. \A i \in 1 .. Len(panes) : cs[i] = Created(panes[i], chunks[panes[i]])
    OBVIOUS
  <2>4. v3 = ViewAfter(v2, cs) /\ Replays(panes, chunks, cs)
    BY <2>2, <2>3 DEF Replays
  <2> HIDE DEF cs, v3
  <2>5. /\ v3 \in View /\ v3.replaying /\ v3.order = panes
        /\ v3.zoomed = v2.zoomed /\ v3.zoom_said = v2.zoom_said
        /\ \A i \in 1 .. Len(panes) : v3.shown[panes[i]] = chunks[panes[i]]
    <3>1. /\ panes \in Seq(PaneIds) /\ NoRepeats(panes) /\ chunks \in [PaneIds -> Nat]
          /\ v2 \in View /\ v2.replaying /\ v2.order = <<>> /\ cs \in Seq(Frames)
          /\ Replays(panes, chunks, cs) /\ v3 = ViewAfter(v2, cs)
      BY <1>1, <1>6, <2>2, <2>4
    <3> QED BY ONLY <3>1, ReplayedPanes
  <2> QED BY <2>2, <2>5
<1> HIDE DEF v3, cs
<1>8. /\ v4 \in View /\ ~v4.replaying /\ v4.panes = v3.order /\ v4.shown = v3.shown
      /\ v4.zoomed = IF v3.zoom_said THEN v3.zoomed ELSE None
  BY <1>7, AfterComplete
<1> HIDE DEF v4
<1>9. Right(v4, TRUE, panes, chunks, zoomed, done)
  BY <1>1, <1>6, <1>7, <1>8 DEF Right
<1>10. s \in Seq(Frames) /\ Len(s) = 2 + Len(zs) + Len(cs)
  <2> DEFINE h == <<Hello>>
             e == <<Complete>>
             m == zs \o cs
  <2>1. h \in Seq(Frames) /\ Len(h) = 1 /\ e \in Seq(Frames) /\ Len(e) = 1 /\ s = (h \o m) \o e
    BY <1>2, <1>3
  <2>2. zs \in Seq(Frames) /\ cs \in Seq(Frames)
    BY <1>4, <1>7
  <2>3. m \in Seq(Frames) /\ Len(m) = Len(zs) + Len(cs)
    BY <2>2, Joined, Zenon
  <2> HIDE DEF h, e, m
  <2>4. h \o m \in Seq(Frames) /\ Len(h \o m) = Len(h) + Len(m)
    BY <2>1, <2>3, Joined, Zenon
  <2>5. (h \o m) \o e \in Seq(Frames) /\ Len((h \o m) \o e) = Len(h \o m) + Len(e)
    BY <2>1, <2>4, Joined, Zenon
  <2>6. Len(zs) \in Nat /\ Len(cs) \in Nat
    BY <2>2
  <2>7. Len((h \o m) \o e) = 2 + Len(zs) + Len(cs)
    BY <2>1, <2>3, <2>4, <2>5, <2>6
  <2> QED BY <2>1, <2>5, <2>7, Zenon
<1>11. ViewAfter(v, s) = v4
  <2>1. zs \o cs \in Seq(Frames) /\ <<Hello>> \o (zs \o cs) \in Seq(Frames)
    BY <1>3, <1>4, <1>7
  <2>2. ViewAfter(v, s) = ViewAfter(ViewAfter(v, <<Hello>> \o (zs \o cs)), <<Complete>>)
    BY <1>2, <1>3, <2>1, AfterBoth
  <2>3. ViewAfter(v, <<Hello>> \o (zs \o cs)) = ViewAfter(v1, zs \o cs)
    BY <1>3, <2>1, AfterBoth DEF v1
  <2>4. ViewAfter(v1, zs \o cs) = v3
    BY <1>4, <1>5, <1>7, AfterBoth DEF v2, v3
  <2> QED BY <2>2, <2>3, <2>4 DEF v4
<1>12. Len(s) =< Depth + 1
  <2>1. Len(s) = 2 + Len(zs) + Len(panes) /\ Len(zs) \in {0, 1}
    BY <1>4, <1>7, <1>10, Zenon
  <2> DEFINE k == Len(zs)
             l == Len(panes)
  <2>2. Len(s) = 2 + k + l /\ k \in {0, 1} /\ l \in Nat /\ l =< MaxPaneIds
    BY <1>1, <2>1
  <2> HIDE DEF k, l
  <2> QED BY <2>2, DepthAssumption
<1> QED BY <1>9, <1>10, <1>11, <1>12

\* A stopped hub replays nothing, and the page drops what it kept.
LEMMA NothingReplayed ==
    ASSUME NEW v \in View, NEW s, s = <<Hello>> \o <<>> \o <<Complete>>
    PROVE  /\ s \in Seq(Frames) /\ Len(s) =< Depth + 1
           /\ Right(ViewAfter(v, s), FALSE, panes, chunks, zoomed, done)
<1> DEFINE v1 == ViewAfter(v, <<Hello>>)
           v2 == ViewAfter(v1, <<Complete>>)
<1>1. <<Hello>> \in Seq(Frames) /\ <<Complete>> \in Seq(Frames) /\ <<Hello>> \o <<>> = <<Hello>>
  BY FrameTypes
<1>2. s = <<Hello>> \o <<Complete>> /\ s \in Seq(Frames) /\ Len(s) = 2
  BY <1>1
<1>3. ViewAfter(v, s) = v2
  BY <1>1, <1>2, AfterBoth
<1>4. v1 \in View /\ v1.replaying /\ v1.order = <<>> /\ ~v1.zoom_said
  BY AfterHello
<1> HIDE DEF v1
<1>5. ~v2.replaying /\ v2.panes = <<>> /\ v2.zoomed = None
  BY <1>4, AfterComplete
<1> HIDE DEF v2
<1>6. ToSet(<<>>) = {}
  BY DEF ToSet
<1>7. Right(v2, FALSE, panes, chunks, zoomed, done)
  BY <1>5, <1>6 DEF Right
<1>8. Len(s) =< Depth + 1
  BY <1>2, DepthAssumption
<1> QED BY <1>2, <1>3, <1>7, <1>8

\* connect, first critical section.
LEMMA SnapshotKeeps ==
    ASSUME HubInv, NEW pg \in Pages, ConnectSnapshot(pg)
    PROVE  HubInv'
<1> DEFINE c == pages[pg]
           s == <<Hello>> \o (IF stop THEN <<>> ELSE Replay) \o <<Complete>>
           v == [c.view EXCEPT !.replaying = FALSE, !.order = <<>>, !.shown = [p \in PaneIds |-> 0]]
           d == [c EXCEPT !.phase = "snapped", !.listed = TRUE, !.replayed = ~stop,
                          !.connects = @ + 1, !.snapshot = s, !.held = <<>>, !.queue = <<>>, !.view = v]
<1>1. pages' = [pages EXCEPT ![pg] = d] /\ UNCHANGED hub
  BY Zenon DEF ConnectSnapshot
<1>2. c \in Page /\ HubKept
  BY DEF HubInv, PagesKept
<1>3. v \in View
  <2>1. c.view \in View /\ [p \in PaneIds |-> 0] \in [PaneIds -> Nat] /\ <<>> \in Seq(PaneIds)
    BY <1>2 DEF Page
  <2> QED BY <2>1 DEF View
<1> HIDE DEF v, c
<1>4. s \in Seq(Frames) /\ Len(s) =< Depth + 1 /\ Right(ViewAfter(v, s), ~stop, panes, chunks, zoomed, done)
  <2>1. CASE stop
    <3>1. s = <<Hello>> \o <<>> \o <<Complete>> /\ (~stop) = FALSE
      BY <2>1
    <3> HIDE DEF s
    <3> QED BY <1>3, <3>1, NothingReplayed
  <2>2. CASE ~stop
    <3>1. s = <<Hello>> \o Replay \o <<Complete>> /\ (~stop) = TRUE /\ ~done
      BY <1>2, <2>2 DEF HubKept
    <3> HIDE DEF s
    <3> QED BY <1>2, <1>3, <3>1, ReplayIsRight
  <2> QED BY <2>1, <2>2
<1> HIDE DEF s
<1>5. /\ d \in Page /\ d.phase = "snapped" /\ d.queue = <<>> /\ d.held = <<>> /\ d.snapshot = s
      /\ d.view = v /\ d.replayed = ~stop
  <2> DEFINE t == ~stop
  <2>1. t \in BOOLEAN /\ <<>> \in Seq(Frames) /\ c.connects + 1 \in Nat
    BY <1>2 DEF Page
  <2> HIDE DEF t
  <2>2. d = [c EXCEPT !.phase = "snapped", !.listed = TRUE, !.replayed = t, !.connects = @ + 1,
                      !.snapshot = s, !.held = <<>>, !.queue = <<>>, !.view = v]
    BY Zenon DEF t
  <2> HIDE DEF d
  <2>3. /\ d \in Page /\ d.phase = "snapped" /\ d.queue = <<>> /\ d.held = <<>> /\ d.snapshot = s
        /\ d.view = v /\ d.replayed = t
    BY <1>2, <1>3, <1>4, <2>1, <2>2 DEF Page
  <2> QED BY <2>3 DEF t
<1> HIDE DEF d
<1>6. Tidy(d)
  <2>1. Len(<<>>) = 0
    OBVIOUS
  <2> QED BY <1>4, <1>5, <2>1, DepthAssumption DEF Tidy, Within
<1>7. FinalOf(d) = ViewAfter(v, s)
  <2>1. s \o <<>> = s
    BY <1>4
  <2> QED BY <1>5, <2>1 DEF FinalOf, Coming
<1> QED BY <1>1, <1>4, <1>5, <1>6, <1>7, OnePageKeeps

----------------------------------------------------------------------------
(* The invariant is inductive *)

\* Nothing is open and nobody is connected.
LEMMA InitHub == Init => HubInv
<1> SUFFICES ASSUME Init PROVE HubInv
  OBVIOUS
<1>1. /\ panes = <<>> /\ zoomed = None /\ next_id = 1 /\ chunks = [p \in PaneIds |-> 0]
      /\ done = FALSE /\ pages = [pg \in Pages |-> NewPage]
  BY DEF Init
<1>2. HubKept
  <2>1. <<>> \in Seq(PaneIds) /\ NoRepeats(<<>>) /\ ToSet(<<>>) = {}
    BY DEF NoRepeats, ToSet
  <2> QED BY <1>1, <2>1 DEF HubKept
<1>3. NewPage \in Page /\ Tidy(NewPage) /\ ~NewPage.listed
  <2>1. NewView \in View
    BY DEF NewView, View, None
  <2>2. <<>> \in Seq(Frames) /\ Len(<<>>) = 0
    OBVIOUS
  <2>3. NewPage \in Page
    BY <2>1, <2>2 DEF NewPage, Page
  <2>4. Tidy(NewPage) /\ ~NewPage.listed
    BY <2>2, DepthAssumption DEF Tidy, Within, NewPage
  <2> QED BY <2>3, <2>4
<1>4. PagesKept
  BY <1>1, <1>3 DEF PagesKept
<1> QED BY <1>2, <1>4 DEF HubInv

\* Steps that neither the panes nor the pages see.
LEMMA QuietKeeps ==
    ASSUME HubInv, UNCHANGED <<panes, chunks, zoomed, next_id, done, pages>>, stop' = stop \/ stop'
    PROVE  HubInv'
<1>1. HubKept'
  BY DEF HubInv, HubKept
<1>2. PagesKept'
  BY DEF HubInv, PagesKept
<1> QED BY <1>1, <1>2 DEF HubInv

\* Every step of the hub, of a connection and of a page keeps the invariant.
LEMMA NextKeepsHub == HubInv /\ [Next]_vars => HubInv'
<1> SUFFICES ASSUME HubInv, [Next]_vars PROVE HubInv'
  OBVIOUS
<1>1. CASE RegisterPane
  BY <1>1, RegisterKeeps
<1>2. ASSUME NEW p \in PaneIds, RecordAndBroadcast(p) PROVE HubInv'
  BY <1>2, RecordKeeps
<1>3. ASSUME NEW p \in PaneIds, PaneExits(p) PROVE HubInv'
  BY <1>3, RemoveKeeps DEF PaneExits
<1>4. ASSUME NEW p \in PaneIds, QueueClose(p) PROVE HubInv'
  BY <1>4, QuietKeeps DEF QueueClose
<1>5. ASSUME NEW p \in PaneIds, TakeClose(p) PROVE HubInv'
  <2>1. CASE p \in ToSet(panes)
    BY <1>5, <2>1, RemoveKeeps DEF TakeClose
  <2>2. CASE p \notin ToSet(panes)
    BY <1>5, <2>2, QuietKeeps DEF TakeClose
  <2> QED BY <2>1, <2>2
<1>6. ASSUME NEW order \in Orders, ReorderPanes(order) PROVE HubInv'
  BY <1>6, ReorderKeeps
<1>7. ASSUME NEW p \in PaneIds \cup {None}, SetZoom(p) PROVE HubInv'
  BY <1>7, ZoomKeeps
<1>8. CASE Stop
  BY <1>8, QuietKeeps DEF Stop
<1>9. CASE Teardown
  BY <1>9, TeardownKeeps
<1>10. ASSUME NEW pg \in Pages, ConnectSnapshot(pg) PROVE HubInv'
  BY <1>10, SnapshotKeeps
<1>11. ASSUME NEW pg \in Pages, ConnectOpen(pg) PROVE HubInv'
  BY <1>11, OpenKeeps
<1>12. ASSUME NEW pg \in Pages, Deliver(pg) PROVE HubInv'
  BY <1>12, DeliverKeeps
<1>13. ASSUME NEW pg \in Pages, SocketCloses(pg) PROVE HubInv'
  BY <1>13, CloseKeeps
<1>14. CASE UNCHANGED vars
  BY <1>14, QuietKeeps DEF vars, hub
<1> QED BY <1>1, <1>2, <1>3, <1>4, <1>5, <1>6, <1>7, <1>8, <1>9, <1>10, <1>11, <1>12, <1>13, <1>14 DEF Next

\* At every moment the hub's panes are distinct and its zoom one of them, every
\* queue is within its bound, and a listed page has, on its screen or on its way
\* to it, what the hub has.
THEOREM HubInductive == Spec => []HubInv
<1>1. Init => HubInv
  BY InitHub
<1>2. HubInv /\ [Next]_vars => HubInv'
  BY NextKeepsHub
<1> QED BY <1>1, <1>2, PTL DEF Spec

\* Pages converge on the hub: the replay and the broadcasts behind its gate give
\* a page each pane and each chunk once (hub_connect.rs, hub_panes.rs).
THEOREM PagesAgree == Spec => []PagesConverge
<1>1. HubInv => PagesConverge
  <2> SUFFICES ASSUME HubInv PROVE PagesConverge
    OBVIOUS
  <2>1. ASSUME NEW pg \in Pages
        PROVE  /\ Len(pages[pg].queue) <= Depth + 1 /\ Len(pages[pg].held) <= Depth
               /\ pages[pg].listed /\ (pages[pg].replayed \/ done) =>
                    /\ FinalView(pg).panes = panes
                    /\ \A i \in DOMAIN panes : FinalView(pg).shown[panes[i]] = chunks[panes[i]]
                    /\ ~done => FinalView(pg).zoomed = zoomed
    <3> DEFINE c == pages[pg]
               v == FinalView(pg)
    <3>1. /\ c \in Page /\ Tidy(c)
          /\ c.listed => Right(v, c.replayed, panes, chunks, zoomed, done)
      BY DEF HubInv, PagesKept, FinalView, FinalOf, Coming
    <3>2. c.view \in View /\ Coming(c) \in Seq(Frames)
      BY <3>1 DEF Page, Coming
    <3>3. v.panes \in Seq(PaneIds)
      <4>1. v = ViewAfter(c.view, Coming(c))
        BY DEF FinalView, Coming
      <4>2. v \in View
        BY <3>2, <4>1, AfterType
      <4> QED BY <4>2 DEF View
    <3>4. panes \in Seq(PaneIds) /\ (done => panes = <<>>)
      BY DEF HubInv, HubKept
    <3> HIDE DEF c, v
    <3>5. ASSUME c.listed, c.replayed \/ done
          PROVE  /\ v.panes = panes /\ (~done => v.zoomed = zoomed)
                 /\ \A i \in DOMAIN panes : v.shown[panes[i]] = chunks[panes[i]]
      <4>1. CASE c.replayed
        BY <3>1, <3>5, <4>1 DEF Right
      <4>2. CASE ~c.replayed
        <5>1. done /\ panes = <<>> /\ ToSet(v.panes) \subseteq ToSet(panes)
          BY <3>1, <3>4, <3>5, <4>2 DEF Right
        <5>2. ToSet(v.panes) \subseteq {}
          <6>1. ToSet(<<>>) = {}
            BY DEF ToSet
          <6> QED BY <5>1, <6>1
        <5>3. v.panes = <<>>
          BY <3>3, <5>2, EmptyList
        <5>4. DOMAIN panes = {}
          BY <5>1
        <5> QED BY <5>1, <5>3, <5>4
      <4> QED BY <4>1, <4>2
    <3>6. Len(c.queue) <= Depth + 1 /\ Len(c.held) <= Depth
      BY <3>1 DEF Tidy, Within
    <3> QED BY <3>5, <3>6 DEF c, v
  <2>2. zoomed = None \/ zoomed \in ToSet(panes)
    BY DEF HubInv, HubKept
  <2> QED BY <2>1, <2>2 DEF PagesConverge
<1>2. Spec => []HubInv
  BY HubInductive
<1> QED BY <1>1, <1>2, PTL

----------------------------------------------------------------------------
(* No page misses a pane *)

\* The first k frames of a queue.
First(s, k) == SubSeq(s, 1, k)

\* A page that a new pane will not be hidden from.
Unzoomed(v) == v.replaying \/ v.zoomed = None

\* A pane is created for a page only while it is replayed to, or not zoomed.
Calm(v, s) ==
    \A i \in 1 .. Len(s) : s[i].kind = "created" =>
        Unzoomed(ViewAfter(v, First(s, i - 1)))

\* No page that is connected is zoomed where a pane is created for it.
PagesCalm ==
    \A pg \in Pages : pages[pg].phase # "down" => Calm(pages[pg].view, Coming(pages[pg]))

\* Frames of which none creates a pane.
Uncreating(s) == \A i \in 1 .. Len(s) : s[i].kind # "created"

\* Frames that create nothing hide nothing.
LEMMA CalmQuiet ==
    ASSUME NEW v, NEW s, Uncreating(s)
    PROVE  Calm(v, s)
BY DEF Calm, Uncreating

\* The first frames of two queues in one.
LEMMA FirstFacts ==
    ASSUME NEW s \in Seq(Frames), NEW t \in Seq(Frames)
    PROVE  /\ Len(s \o t) = Len(s) + Len(t)
           /\ \A k \in 0 .. Len(s) : First(s \o t, k) = First(s, k) /\ First(s, k) \in Seq(Frames)
           /\ \A i \in 1 .. Len(s) : (s \o t)[i] = s[i]
           /\ \A k \in 0 .. Len(t) : First(s \o t, Len(s) + k) = s \o First(t, k)
           /\ \A i \in 1 .. Len(t) : (s \o t)[Len(s) + i] = t[i]
<1>1. Len(s \o t) = Len(s) + Len(t) /\ Len(s) \in Nat /\ Len(t) \in Nat
  OBVIOUS
<1>2. ASSUME NEW k \in 0 .. Len(s) PROVE First(s \o t, k) = First(s, k) /\ First(s, k) \in Seq(Frames)
  BY DEF First
<1>3. ASSUME NEW k \in 0 .. Len(t) PROVE First(s \o t, Len(s) + k) = s \o First(t, k)
  BY DEF First
<1> QED BY <1>1, <1>2, <1>3

\* A queue is its first frames and the others.
LEMMA Splits ==
    ASSUME NEW s \in Seq(Frames), NEW k \in 0 .. Len(s)
    PROVE  \E rest \in Seq(Frames) : First(s, k) \in Seq(Frames) /\ s = First(s, k) \o rest
<1>1. SubSeq(s, 1, k) \in Seq(Frames) /\ SubSeq(s, k + 1, Len(s)) \in Seq(Frames) /\ Len(s) \in Nat
  OBVIOUS
<1>2. 1 \in 1 .. Len(s) + 1 /\ k \in 1 - 1 .. Len(s) /\ Len(s) \in k .. Len(s)
  BY <1>1
<1>3. SubSeq(s, 1, k) \o SubSeq(s, k + 1, Len(s)) = SubSeq(s, 1, Len(s))
  BY <1>2, ConcatAdjacentSubSeq
<1>4. SubSeq(s, 1, Len(s)) = s
  BY SubSeqFull
<1> QED BY <1>1, <1>3, <1>4 DEF First

\* Two queues in one are calm when each is, from where it starts.
LEMMA CalmJoins ==
    ASSUME NEW v \in View, NEW s \in Seq(Frames), NEW t \in Seq(Frames)
    PROVE  Calm(v, s \o t) <=> Calm(v, s) /\ Calm(ViewAfter(v, s), t)
<1> DEFINE a == s \o t
           m == Len(s)
           n == Len(t)
           w == ViewAfter(v, s)
<1>1. m \in Nat /\ n \in Nat /\ Len(a) = m + n
  OBVIOUS
<1>2. \A i \in 1 .. m : a[i] = s[i] /\ First(a, i - 1) = First(s, i - 1)
  <2>1. \A i \in 1 .. m : a[i] = s[i]
    BY FirstFacts
  <2>2. ASSUME NEW i \in 1 .. m PROVE First(a, i - 1) = First(s, i - 1)
    <3>1. i - 1 \in 0 .. m
      BY <1>1
    <3> QED BY <3>1, FirstFacts
  <2> QED BY <2>1, <2>2
<1>3. \A i \in 1 .. n : a[m + i] = t[i] /\ ViewAfter(v, First(a, m + i - 1)) = ViewAfter(w, First(t, i - 1))
  <2>1. \A i \in 1 .. n : a[m + i] = t[i]
    BY FirstFacts
  <2>2. ASSUME NEW i \in 1 .. n PROVE ViewAfter(v, First(a, m + i - 1)) = ViewAfter(w, First(t, i - 1))
    <3>1. i - 1 \in 0 .. n /\ m + (i - 1) = m + i - 1
      BY <1>1
    <3>2. First(a, m + (i - 1)) = s \o First(t, i - 1)
      BY <3>1, FirstFacts
    <3>3. First(t, i - 1) \in Seq(Frames)
      BY <3>1, FirstFacts
    <3>4. ViewAfter(v, s \o First(t, i - 1)) = ViewAfter(w, First(t, i - 1))
      BY <3>3, AfterBoth
    <3> QED BY <3>1, <3>2, <3>4
  <2> QED BY <2>1, <2>2
<1> HIDE DEF a, m, n, w
<1>4. ASSUME Calm(v, a) PROVE Calm(v, s)
  BY <1>1, <1>2, <1>4 DEF Calm, m
<1>5. ASSUME Calm(v, a) PROVE Calm(w, t)
  <2>1. ASSUME NEW i \in 1 .. n, t[i].kind = "created"
        PROVE  Unzoomed(ViewAfter(w, First(t, i - 1)))
    <3> DEFINE k == m + i
    <3>1. /\ k \in 1 .. Len(a) /\ a[k].kind = "created"
          /\ ViewAfter(v, First(a, k - 1)) = ViewAfter(w, First(t, i - 1))
      BY <1>1, <1>3, <2>1
    <3> HIDE DEF k
    <3>2. Unzoomed(ViewAfter(v, First(a, k - 1)))
      BY <1>5, <3>1 DEF Calm
    <3> QED BY <3>1, <3>2
  <2> QED BY <2>1 DEF Calm, n
<1>6. ASSUME Calm(v, s), Calm(w, t) PROVE Calm(v, a)
  <2>1. ASSUME NEW i \in 1 .. Len(a), a[i].kind = "created"
        PROVE  Unzoomed(ViewAfter(v, First(a, i - 1)))
    <3>1. CASE i \in 1 .. m
      BY <1>2, <1>6, <2>1, <3>1 DEF Calm, m
    <3>2. CASE i \notin 1 .. m
      <4> DEFINE j == i - m
      <4>1. j \in 1 .. n /\ i = m + j
        BY <1>1, <3>2
      <4> HIDE DEF j
      <4>2. t[j].kind = "created"
        BY <1>3, <2>1, <4>1
      <4>3. Unzoomed(ViewAfter(w, First(t, j - 1)))
        BY <1>6, <4>1, <4>2 DEF Calm, n
      <4>4. ViewAfter(v, First(a, i - 1)) = ViewAfter(w, First(t, j - 1))
        <5>1. ViewAfter(v, First(a, m + j - 1)) = ViewAfter(w, First(t, j - 1))
          <6>1. j \in 1 .. n
            BY <4>1
          <6> QED BY ONLY <1>3, <6>1
        <5>2. i - 1 = m + j - 1
          BY <1>1, <4>1
        <5> QED BY <5>1, <5>2
      <4> QED BY <4>3, <4>4
    <3> QED BY <3>1, <3>2
  <2> QED BY <2>1 DEF Calm
<1> QED BY <1>4, <1>5, <1>6 DEF a, w

\* What does not complete a replay leaves it under way.
LEMMA StaysReplaying ==
    ASSUME NEW v \in View, v.replaying, NEW s \in Seq(Frames),
           \A i \in 1 .. Len(s) : s[i].kind # "replay_complete"
    PROVE  ViewAfter(v, s).replaying
<1> DEFINE n == Len(s)
<1>1. n \in Nat
  OBVIOUS
<1>2. PICK run \in [0 .. n -> View] : ViewAfter(v, s) = run[n] /\ run[0] = v /\ Follows(n, s, run)
  BY ViewPath
<1> DEFINE Good == {i \in 0 .. n : run[i].replaying}
<1>3. 0 \in Good
  BY <1>1, <1>2
<1>4. ASSUME NEW i \in 1 .. n, i - 1 \in Good PROVE i \in Good
  <2> DEFINE b == run[i - 1]
             f == s[i]
  <2>1. b \in View /\ b.replaying /\ f \in Frames /\ f.kind # "replay_complete" /\ i \in 0 .. n
    BY <1>1, <1>2, <1>4
  <2>2. run[i] = HandleMessage(b, f)
    BY <1>2 DEF Follows
  <2> HIDE DEF b, f
  <2>3. HandleMessage(b, f).replaying
    <3>1. f.kind \in {"hello", "created", "exited", "reordered", "zoomed", "output"}
      BY <2>1 DEF Frames
    <3> QED BY <2>1, <3>1 DEF HandleMessage, OnCreated, View
  <2> QED BY <2>1, <2>2, <2>3
<1> HIDE DEF Good
<1>5. \A i \in 0 .. n : i \in Good
  BY <1>1, <1>3, <1>4, LoopInduction
<1> QED BY <1>1, <1>2, <1>5 DEF Good

\* A replay hides nothing: it is corrected when it completes.
LEMMA CalmReplaying ==
    ASSUME NEW v \in View, v.replaying, NEW s \in Seq(Frames),
           \A i \in 1 .. Len(s) : s[i].kind # "replay_complete"
    PROVE  Calm(v, s)
<1> SUFFICES ASSUME NEW i \in 1 .. Len(s) PROVE ViewAfter(v, First(s, i - 1)).replaying
  BY DEF Calm, Unzoomed
<1>1. First(s, i - 1) \in Seq(Frames) /\ Len(First(s, i - 1)) = i - 1
  BY DEF First
<1>2. \A j \in 1 .. (i - 1) : First(s, i - 1)[j] = s[j]
  BY DEF First
<1>3. \A j \in 1 .. (i - 1) : j \in 1 .. Len(s)
  OBVIOUS
<1>4. \A j \in 1 .. Len(First(s, i - 1)) : First(s, i - 1)[j].kind # "replay_complete"
  BY <1>1, <1>2, <1>3
<1> QED BY <1>1, <1>4, StaysReplaying

----------------------------------------------------------------------------
(* What a broadcast and a replay queue *)

\* A page's view is not a broadcast's to change; what it queues may make no
\* page miss a pane.
LEMMA BroadcastCalm ==
    ASSUME PagesKept, PagesCalm, NEW frames \in Seq(Frames), Broadcast(frames),
           \A v \in View, r \in BOOLEAN :
              Right(v, r, panes, chunks, zoomed, done) => Calm(v, frames)
    PROVE  PagesCalm' /\ \A pg \in Pages : pages'[pg].view = pages[pg].view
<1>1. pages' = [pg \in Pages |-> QueueAll(pages[pg], frames)]
  BY DEF Broadcast
<1>2. ASSUME NEW pg \in Pages
      PROVE  /\ pages'[pg].phase # "down" => Calm(pages'[pg].view, Coming(pages'[pg]))
             /\ pages'[pg].view = pages[pg].view
  <2> DEFINE c == pages[pg]
             d == QueueAll(c, frames)
  <2>1. pages'[pg] = d
    BY <1>1
  <2>2. /\ c \in Page /\ Tidy(c) /\ (c.phase # "down" => Calm(c.view, Coming(c)))
        /\ (c.listed => Right(FinalOf(c), c.replayed, panes, chunks, zoomed, done))
    BY DEF PagesKept, PagesCalm
  <2> HIDE DEF c, d
  <2>3. /\ d \in Page /\ (~c.listed => d = c)
        /\ \E k \in 0 .. Len(frames) : Grown(c, d, SubSeq(frames, 1, k))
    BY <2>2, QueueFacts DEF d
  <2>4. PICK k \in 0 .. Len(frames) : Grown(c, d, First(frames, k))
    BY <2>3 DEF First
  <2> DEFINE fs == First(frames, k)
  <2>5. PICK rest \in Seq(Frames) : fs \in Seq(Frames) /\ frames = fs \o rest
    BY Splits
  <2> HIDE DEF fs
  <2>6. d.view = c.view /\ d.phase = c.phase /\ c.view \in View
    BY <2>2, <2>4 DEF Grown, Page
  <2>7. ASSUME d.phase # "down", c.listed PROVE Calm(d.view, Coming(d))
    <3>1. Coming(d) = Coming(c) \o fs /\ Coming(c) \in Seq(Frames)
      BY <2>2, <2>3, <2>4, <2>5, <2>6, <2>7, GrownComing DEF fs
    <3>2. FinalOf(c) \in View /\ c.replayed \in BOOLEAN
      BY <2>2, <2>6, <3>1, AfterType DEF FinalOf, Page
    <3>3. Calm(FinalOf(c), frames)
      BY <2>2, <2>7, <3>2
    <3>4. Calm(FinalOf(c), fs)
      BY <2>5, <3>2, <3>3, CalmJoins
    <3>5. Calm(c.view, Coming(c) \o fs)
      BY <2>2, <2>5, <2>6, <2>7, <3>1, <3>4, CalmJoins DEF FinalOf
    <3> QED BY <2>6, <3>1, <3>5
  <2>8. ASSUME d.phase # "down" PROVE Calm(d.view, Coming(d))
    <3>1. CASE c.listed
      BY <2>7, <2>8, <3>1
    <3>2. CASE ~c.listed
      BY <2>2, <2>3, <2>8, <3>2
    <3> QED BY <3>1, <3>2
  <2> QED BY <2>1, <2>6, <2>8 DEF c
<1> QED BY <1>2 DEF PagesCalm

\* A step of one page's.
LEMMA OnePageCalm ==
    ASSUME PagesCalm, pages \in [Pages -> Page], NEW pg \in Pages, NEW d,
           d.phase # "down" => Calm(d.view, Coming(d)), pages' = [pages EXCEPT ![pg] = d]
    PROVE  PagesCalm'
<1>1. pages'[pg] = d /\ \A q \in Pages \ {pg} : pages'[q] = pages[q]
  OBVIOUS
<1>2. ASSUME NEW q \in Pages, pages'[q].phase # "down" PROVE Calm(pages'[q].view, Coming(pages'[q]))
  <2>1. CASE q = pg
    BY <1>1, <1>2, <2>1
  <2>2. CASE q # pg
    BY <1>1, <1>2, <2>2 DEF PagesCalm
  <2> QED BY <2>1, <2>2
<1> QED BY <1>2 DEF PagesCalm

\* What a step other than a delivery leaves of a page's panes.
Settled == \A pg \in Pages : pages'[pg].view.panes = pages[pg].view.panes

\* The frames that create nothing.
LEMMA UncreatingOnes ==
    /\ \A p : Uncreating(<<Output(p)>>) /\ Uncreating(<<Zoomed(p)>>) /\ Uncreating(<<Reordered(p)>>)
    /\ \A p \in PaneIds, q \in PaneIds \cup {None} :
          Uncreating(<<Exited(p)>> \o <<Zoomed(q)>>) /\ Uncreating(<<Exited(p)>> \o <<>>)
    /\ Uncreating(<<Hello>>) /\ Uncreating(<<Complete>>) /\ Uncreating(<<>>)
<1>1. \A p : Uncreating(<<Output(p)>>) /\ Uncreating(<<Zoomed(p)>>) /\ Uncreating(<<Reordered(p)>>)
  BY DEF Uncreating, Output, Zoomed, Reordered, Frame
<1>2. ASSUME NEW p \in PaneIds, NEW q \in PaneIds \cup {None}
      PROVE  Uncreating(<<Exited(p)>> \o <<Zoomed(q)>>) /\ Uncreating(<<Exited(p)>> \o <<>>)
  <2>1. /\ Exited(p) \in Frames /\ Zoomed(q) \in Frames
        /\ Exited(p).kind # "created" /\ Zoomed(q).kind # "created"
    BY FrameTypes DEF Exited, Zoomed, Frame
  <2> DEFINE x == Exited(p)
             y == Zoomed(q)
  <2> HIDE DEF x, y
  <2>2. x \in Frames /\ y \in Frames /\ x.kind # "created" /\ y.kind # "created"
    BY <2>1 DEF x, y
  <2>3. Uncreating(<<x>> \o <<y>>) /\ Uncreating(<<x>> \o <<>>)
    BY <2>2 DEF Uncreating
  <2> QED BY <2>3 DEF x, y
<1>3. Uncreating(<<Hello>>) /\ Uncreating(<<Complete>>) /\ Uncreating(<<>>)
  BY DEF Uncreating, Hello, Complete, Frame
<1> QED BY <1>1, <1>2, <1>3

\* A broadcast that creates nothing.
LEMMA QuietBroadcast ==
    ASSUME HubInv, PagesCalm, NEW frames \in Seq(Frames), Broadcast(frames), Uncreating(frames)
    PROVE  PagesCalm' /\ Settled
<1>1. \A v \in View, r \in BOOLEAN :
         Right(v, r, panes, chunks, zoomed, done) => Calm(v, frames)
  BY CalmQuiet
<1> QED BY <1>1, BroadcastCalm DEF HubInv, Settled

\* register_pane clears the zoom of every listed page first.
LEMMA RegisterCalm ==
    ASSUME HubInv, PagesCalm, RegisterPane
    PROVE  PagesCalm' /\ Settled
<1> DEFINE id == next_id
<1>1. id \in PaneIds /\ ~done /\ Broadcast(CreatedFrames(id))
  BY DEF RegisterPane, HubInv, HubKept, PaneIds
<1> HIDE DEF id
<1>2. ZoomCleared \in Seq(Frames) /\ <<Created(id, 0)>> \in Seq(Frames) /\ CreatedFrames(id) \in Seq(Frames)
  <2>1. Zoomed(None) \in Frames /\ Created(id, 0) \in Frames
    BY <1>1, FrameTypes
  <2>2. ZoomCleared \in Seq(Frames)
    BY <2>1 DEF ZoomCleared
  <2> QED BY <2>1, <2>2 DEF CreatedFrames
<1>3. ASSUME NEW v \in View, NEW r \in BOOLEAN, Right(v, r, panes, chunks, zoomed, done)
      PROVE  Calm(v, CreatedFrames(id))
  <2> DEFINE w == ViewAfter(v, ZoomCleared)
  <2>1. Calm(v, ZoomCleared)
    <3>1. Uncreating(ZoomCleared)
      BY UncreatingOnes DEF ZoomCleared
    <3> QED BY <3>1, CalmQuiet
  <2>2. w \in View /\ w.zoomed = None
    <3>1. CASE zoomed = None
      <4>1. w = v
        BY <3>1, AfterNone DEF ZoomCleared
      <4>2. v.zoomed = None
        BY <1>1, <1>3, <3>1 DEF Right
      <4> QED BY <4>1, <4>2
    <3>2. CASE zoomed # None
      <4>1. w = ViewAfter(v, <<Zoomed(None)>>) /\ None \in PaneIds \cup {None}
        BY <3>2 DEF ZoomCleared
      <4> HIDE DEF w
      <4> QED BY <4>1, AfterZoomed
    <3> QED BY <3>1, <3>2
  <2> HIDE DEF w
  <2>3. Calm(w, <<Created(id, 0)>>)
    <3> DEFINE s == <<Created(id, 0)>>
    <3>1. Len(s) = 1 /\ First(s, 0) = <<>>
      BY DEF First
    <3> HIDE DEF s
    <3>2. ASSUME NEW i \in 1 .. Len(s) PROVE Unzoomed(ViewAfter(w, First(s, i - 1)))
      <4>1. First(s, i - 1) = <<>>
        BY <3>1
      <4>2. ViewAfter(w, <<>>) = w
        BY <2>2, AfterNone
      <4> QED BY <2>2, <4>1, <4>2 DEF Unzoomed
    <3>3. Calm(w, s)
      BY <3>2 DEF Calm
    <3> QED BY <3>3 DEF s
  <2> QED BY <1>2, <2>1, <2>3, CalmJoins DEF w, CreatedFrames
<1> QED BY <1>1, <1>2, <1>3, BroadcastCalm DEF HubInv, Settled

\* connect, first critical section.
LEMMA SnapshotCalm ==
    ASSUME HubInv, PagesCalm, NEW pg \in Pages, ConnectSnapshot(pg)
    PROVE  PagesCalm' /\ Settled
<1> DEFINE c == pages[pg]
           mid == IF stop THEN <<>> ELSE Replay
           s == <<Hello>> \o mid \o <<Complete>>
           v == [c.view EXCEPT !.replaying = FALSE, !.order = <<>>, !.shown = [p \in PaneIds |-> 0]]
           d == [c EXCEPT !.phase = "snapped", !.listed = TRUE, !.replayed = ~stop,
                          !.connects = @ + 1, !.snapshot = s, !.held = <<>>, !.queue = <<>>, !.view = v]
<1>1. pages' = [pages EXCEPT ![pg] = d]
  BY Zenon DEF ConnectSnapshot
<1>2. c \in Page /\ HubKept /\ pages \in [Pages -> Page]
  BY DEF HubInv, PagesKept
<1>3. v \in View /\ v.panes = c.view.panes
  <2>1. c.view \in View /\ [p \in PaneIds |-> 0] \in [PaneIds -> Nat] /\ <<>> \in Seq(PaneIds)
    BY <1>2 DEF Page
  <2> QED BY <2>1 DEF View
<1> HIDE DEF v, c
<1>4. mid \in Seq(Frames) /\ \A i \in 1 .. Len(mid) : mid[i].kind # "replay_complete"
  <2>1. CASE stop
    BY <2>1
  <2>2. CASE ~stop
    <3> DEFINE zs == IF zoomed = None THEN <<>> ELSE <<Zoomed(zoomed)>>
               cs == [i \in 1 .. Len(panes) |-> Created(panes[i], chunks[panes[i]])]
    <3>1. panes \in Seq(PaneIds) /\ chunks \in [PaneIds -> Nat] /\ zoomed \in PaneIds \cup {None}
      BY <1>2 DEF HubKept
    <3>2. zs \in Seq(Frames) /\ \A i \in 1 .. Len(zs) : zs[i].kind # "replay_complete"
      BY <3>1, FrameTypes DEF Zoomed, Frame
    <3>3. cs \in Seq(Frames) /\ \A i \in 1 .. Len(cs) : cs[i].kind # "replay_complete"
      <4>1. \A i \in 1 .. Len(panes) : Created(panes[i], chunks[panes[i]]) \in Frames
        BY <3>1, FrameTypes
      <4>2. \A i \in 1 .. Len(panes) : Created(panes[i], chunks[panes[i]]).kind = "created"
        BY DEF Created, Frame
      <4> QED BY <3>1, <4>1, <4>2
    <3>4. mid = zs \o cs
      BY <2>2 DEF Replay
    <3> HIDE DEF zs, cs, mid
    <3>5. zs \o cs \in Seq(Frames) /\ \A i \in 1 .. Len(zs \o cs) : (zs \o cs)[i].kind # "replay_complete"
      BY <3>2, <3>3
    <3> QED BY <3>4, <3>5
  <2> QED BY <2>1, <2>2
<1> HIDE DEF mid
<1>5. Calm(v, s)
  <2> DEFINE h == <<Hello>>
             e == <<Complete>>
             w == ViewAfter(v, h)
  <2>1. h \in Seq(Frames) /\ e \in Seq(Frames) /\ Calm(v, h) /\ \A x : Calm(x, e)
    BY FrameTypes, UncreatingOnes, CalmQuiet
  <2>2. w \in View /\ w.replaying
    BY <1>3, AfterHello
  <2>3. Calm(w, mid)
    BY <1>4, <2>2, CalmReplaying
  <2> HIDE DEF h, e
  <2>4. h \o mid \in Seq(Frames)
    BY <1>4, <2>1, Joined
  <2>5. Calm(v, h \o mid)
    BY <1>3, <1>4, <2>1, <2>3, CalmJoins
  <2>6. Calm(v, (h \o mid) \o e)
    BY <1>3, <2>1, <2>4, <2>5, CalmJoins
  <2> QED BY <2>6 DEF h, e
<1> HIDE DEF s
<1>6. d.queue = <<>> /\ d.held = <<>> /\ d.snapshot = s /\ d.view = v
  BY <1>2 DEF Page
<1> HIDE DEF d
<1>7. s \in Seq(Frames)
  <2>1. <<Hello>> \in Seq(Frames) /\ <<Complete>> \in Seq(Frames)
    BY FrameTypes
  <2>2. <<Hello>> \o mid \in Seq(Frames)
    BY <1>4, <2>1, Joined
  <2> QED BY <2>1, <2>2, Joined DEF s
<1>8. Coming(d) = s
  <2>1. s \o <<>> = s
    BY <1>7
  <2> QED BY <1>6, <2>1 DEF Coming
<1>9. PagesCalm'
  BY <1>1, <1>2, <1>5, <1>6, <1>8, OnePageCalm
<1>10. Settled
  BY <1>1, <1>2, <1>3, <1>6 DEF Settled, c
<1> QED BY <1>9, <1>10

\* connect, second critical section: some first frames of what was held.
LEMMA OpenCalm ==
    ASSUME HubInv, PagesCalm, NEW pg \in Pages, ConnectOpen(pg)
    PROVE  PagesCalm' /\ Settled
<1> DEFINE b == pages[pg]
           c == [b EXCEPT !.phase = "live", !.queue = b.snapshot, !.snapshot = <<>>, !.held = <<>>]
           d == QueueAll(c, b.held)
<1>1. b.phase = "snapped" /\ pages' = [pages EXCEPT ![pg] = d]
  BY DEF ConnectOpen
<1>2. b \in Page /\ Tidy(b) /\ Calm(b.view, Coming(b)) /\ pages \in [Pages -> Page]
  BY <1>1 DEF HubInv, PagesKept, PagesCalm
<1> HIDE DEF b
<1>3. /\ b.snapshot \in Seq(Frames) /\ b.held \in Seq(Frames) /\ <<>> \in Seq(Frames)
      /\ b.queue = <<>> /\ Len(b.snapshot) =< Depth + 1 /\ b.view \in View
  BY <1>1, <1>2 DEF Page, Tidy
<1>4. /\ c \in Page /\ c.phase = "live" /\ c.queue = b.snapshot /\ c.snapshot = <<>> /\ c.held = <<>>
      /\ c.view = b.view
  BY <1>2, <1>3 DEF Page
<1> HIDE DEF c
<1>5. Tidy(c)
  <2>1. Len(c.held) = 0
    BY <1>4
  <2> QED BY <1>3, <1>4, <2>1, DepthAssumption DEF Tidy, Within
<1>6. d \in Page /\ \E k \in 0 .. Len(b.held) : Grown(c, d, SubSeq(b.held, 1, k))
  BY <1>3, <1>4, QueueFacts
<1> HIDE DEF d
<1>7. PICK k \in 0 .. Len(b.held) : Grown(c, d, First(b.held, k))
  BY <1>6 DEF First
<1> DEFINE fs == First(b.held, k)
<1>8. PICK rest \in Seq(Frames) : fs \in Seq(Frames) /\ b.held = fs \o rest
  BY <1>3, Splits
<1> HIDE DEF fs
<1>9. Coming(d) = b.snapshot \o fs /\ Coming(b) = b.snapshot \o b.held /\ d.view = b.view
  <2>1. Coming(d) = Coming(c) \o fs
    BY <1>4, <1>5, <1>6, <1>7, <1>8, GrownComing DEF fs
  <2>2. <<>> \o b.snapshot = b.snapshot /\ b.snapshot \o <<>> = b.snapshot
    BY <1>3
  <2> QED BY <1>3, <1>4, <1>7, <2>1, <2>2 DEF Coming, Grown
<1>10. Calm(b.view, b.snapshot \o fs)
  <2>1. b.snapshot \o (fs \o rest) = (b.snapshot \o fs) \o rest
    BY <1>3, <1>8, Regroup
  <2>2. Calm(b.view, (b.snapshot \o fs) \o rest) /\ b.snapshot \o fs \in Seq(Frames)
    BY <1>2, <1>3, <1>8, <1>9, <2>1, Joined
  <2> QED BY <1>3, <1>8, <2>2, CalmJoins
<1>11. PagesCalm'
  BY <1>1, <1>2, <1>9, <1>10, OnePageCalm
<1>12. Settled
  BY <1>1, <1>2, <1>9 DEF Settled, b
<1> QED BY <1>11, <1>12

----------------------------------------------------------------------------
(* A delivery *)

\* What handling one frame may do to a page's panes and its zoom.
LEMMA OnlyUnzoomed ==
    ASSUME NEW v \in View, NEW f \in Frames, f.kind = "created" => Unzoomed(v), ~v.replaying,
           NEW u, u = HandleMessage(v, f), Len(u.panes) > Len(v.panes)
    PROVE  u.zoomed = None
<1>1. v.panes \in Seq(PaneIds)
  BY DEF View
<1>2. f.kind \in {"hello", "replay_complete", "created", "exited", "reordered", "zoomed", "output"}
  BY DEF Frames
<1>3. CASE f.kind \in {"hello", "replay_complete", "zoomed", "output"}
  <2>1. u.panes = v.panes
    BY <1>3 DEF HandleMessage, OnReplayComplete, View
  <2> QED BY <1>1, <2>1
<1>4. CASE f.kind = "exited"
  <2>1. u.panes = Without(v.panes, f.pane)
    BY <1>4 DEF HandleMessage, View
  <2>2. Len(u.panes) =< Len(v.panes) /\ u.panes \in Seq(PaneIds)
    BY <1>1, <2>1, WithoutFacts
  <2> QED BY <1>1, <2>2
<1>5. CASE f.kind = "reordered"
  <2>1. u.panes = CanonicalOrder(v.panes, f.data) /\ f.data \in Seq(PaneIds)
    BY <1>5 DEF HandleMessage, View, Frames
  <2>2. u.panes \in Seq(PaneIds) /\ NoRepeats(u.panes) /\ ToSet(u.panes) = ToSet(v.panes)
    BY <1>1, <2>1, CanonicalFacts
  <2>3. Len(u.panes) =< Len(v.panes)
    BY <1>1, <2>2, ListLengths
  <2> QED BY <1>1, <2>2, <2>3
<1>6. CASE f.kind = "created"
  <2>1. u.zoomed = v.zoomed
    BY <1>6 DEF HandleMessage, OnCreated, View
  <2> QED BY <1>6, <2>1 DEF Unzoomed
<1> QED BY <1>2, <1>3, <1>4, <1>5, <1>6

\* A page that is given a pane while it is not replayed to shows no zoom.
NotHidden ==
    \A pg \in Pages :
        ~pages[pg].view.replaying /\ Len(pages'[pg].view.panes) > Len(pages[pg].view.panes)
            => pages'[pg].view.zoomed = None

\* A page whose panes stay is shown none.
LEMMA SettledShows ==
    ASSUME PagesKept, Settled
    PROVE  NotHidden
<1> SUFFICES ASSUME NEW pg \in Pages PROVE ~(Len(pages'[pg].view.panes) > Len(pages[pg].view.panes))
  BY DEF NotHidden
<1>1. pages'[pg].view.panes = pages[pg].view.panes /\ pages[pg].view.panes \in Seq(PaneIds)
  BY DEF Settled, PagesKept, Page, View
<1> QED BY <1>1

\* The only step that shows a page a pane.
LEMMA DeliverCalm ==
    ASSUME HubInv, PagesCalm, NEW pg \in Pages, Deliver(pg)
    PROVE  PagesCalm' /\ NotHidden
<1> DEFINE c == pages[pg]
           d == [c EXCEPT !.view = HandleMessage(@, Head(c.queue)), !.queue = Tail(@)]
<1>1. c \in Page /\ Tidy(c) /\ pages \in [Pages -> Page]
  BY DEF HubInv, PagesKept
<1>2. c.phase = "live" /\ c.queue # <<>> /\ Calm(c.view, Coming(c))
  BY DEF Deliver, PagesCalm
<1>3. pages' = [pages EXCEPT ![pg] = d]
  BY <1>1 DEF Deliver, Page
<1> HIDE DEF c
<1> DEFINE v == c.view
           s == c.queue
           f == Head(s)
           t == Tail(s)
           u == HandleMessage(v, f)
<1>4. s \in Seq(Frames) /\ s # <<>> /\ v \in View /\ c.snapshot = <<>> /\ c.held = <<>>
  BY <1>1, <1>2 DEF Page, Tidy
<1>5. d.view = u /\ d.queue = t /\ d.snapshot = <<>> /\ d.held = <<>>
  BY <1>1, <1>4 DEF Page
<1> HIDE DEF d
<1>6. Coming(c) = s /\ Coming(d) = t
  <2>1. Tail(s) \in Seq(Frames)
    BY <1>4
  <2> HIDE DEF s, t
  <2>2. <<>> \o s = s /\ s \o <<>> = s
    BY <1>4
  <2>3. t \in Seq(Frames)
    BY <2>1 DEF t
  <2>4. <<>> \o t = t /\ t \o <<>> = t
    BY <2>3
  <2> QED BY <1>4, <1>5, <2>2, <2>4 DEF Coming, s
<1> HIDE DEF v, s
<1>7. /\ f \in Frames /\ t \in Seq(Frames) /\ <<f>> \in Seq(Frames) /\ s = <<f>> \o t
      /\ Len(s) \in Nat /\ 1 \in 1 .. Len(s) /\ s[1] = f /\ First(s, 0) = <<>>
  BY <1>4 DEF First
<1> HIDE DEF f, t, u
<1>8. Calm(v, s)
  BY <1>2, <1>6 DEF v
<1>9. f.kind = "created" => Unzoomed(v)
  <2>1. f.kind = "created" => Unzoomed(ViewAfter(v, First(s, 1 - 1)))
    BY <1>7, <1>8 DEF Calm
  <2>2. ViewAfter(v, <<>>) = v
    BY <1>4, AfterNone
  <2>3. 1 - 1 = 0
    OBVIOUS
  <2> QED BY <1>7, <2>1, <2>2, <2>3
<1>10. Calm(u, t)
  <2>1. Calm(v, <<f>> \o t)
    BY <1>7, <1>8
  <2>2. Calm(ViewAfter(v, <<f>>), t)
    BY <1>4, <1>7, <2>1, CalmJoins
  <2>3. ViewAfter(v, <<f>>) = u
    BY <1>4, <1>7, AfterOne DEF u
  <2> QED BY <2>2, <2>3
<1>11. PagesCalm'
  BY <1>1, <1>3, <1>5, <1>6, <1>10, OnePageCalm
<1>12. ASSUME NEW q \in Pages, ~pages[q].view.replaying, Len(pages'[q].view.panes) > Len(pages[q].view.panes)
       PROVE  pages'[q].view.zoomed = None
  <2>1. CASE q = pg
    <3>1. pages'[q].view = u /\ pages[q].view = v
      BY <1>1, <1>3, <1>5, <2>1 DEF c, v
    <3>2. ~v.replaying /\ Len(u.panes) > Len(v.panes) /\ u = HandleMessage(v, f)
      BY <1>12, <3>1 DEF u
    <3>3. u.zoomed = None
      BY <1>4, <1>7, <1>9, <3>2, OnlyUnzoomed
    <3> QED BY <3>1, <3>3
  <2>2. CASE q # pg
    <3>1. pages'[q] = pages[q] /\ pages[q].view.panes \in Seq(PaneIds)
      BY <1>1, <1>3, <2>2 DEF Page, View
    <3> QED BY <1>12, <3>1
  <2> QED BY <2>1, <2>2
<1>13. NotHidden
  BY <1>12 DEF NotHidden
<1> QED BY <1>11, <1>13

\* A pane that leaves creates none.
LEMMA RemoveCalm ==
    ASSUME HubInv, PagesCalm, NEW p \in PaneIds, RemovePaneAndAnnounce(p)
    PROVE  PagesCalm' /\ Settled
<1> DEFINE frames == <<Exited(p)>> \o IF zoomed' # zoomed THEN <<Zoomed(None)>> ELSE <<>>
<1>1. Broadcast(frames)
  BY DEF RemovePaneAndAnnounce
<1>2. frames \in Seq(Frames)
  BY FrameTypes
<1>3. Uncreating(frames)
  BY UncreatingOnes
<1> HIDE DEF frames
<1> QED BY <1>1, <1>2, <1>3, QuietBroadcast

\* Nor do all of them.
LEMMA TeardownCalm ==
    ASSUME HubInv, PagesCalm, Teardown
    PROVE  PagesCalm' /\ Settled
<1> DEFINE frames == [i \in 1 .. Len(panes) |-> Exited(panes[i])]
<1>1. Broadcast(frames) /\ panes \in Seq(PaneIds)
  BY DEF Teardown, HubInv, HubKept
<1>2. \A i \in 1 .. Len(panes) : Exited(panes[i]) \in Frames /\ Exited(panes[i]).kind # "created"
  BY <1>1, FrameTypes DEF Exited, Frame
<1>3. frames \in Seq(Frames) /\ Uncreating(frames)
  BY <1>1, <1>2 DEF Uncreating
<1> HIDE DEF frames
<1> QED BY <1>1, <1>3, QuietBroadcast

\* Every step keeps what is on its way calm, and shows no page a hidden pane.
LEMMA NextCalm ==
    ASSUME HubInv, PagesCalm, [Next]_vars
    PROVE  PagesCalm' /\ NotHidden
<1>0. PagesKept
  BY DEF HubInv
<1>1. CASE RegisterPane
  BY <1>0, <1>1, RegisterCalm, SettledShows
<1>2. ASSUME NEW p \in PaneIds, RecordAndBroadcast(p) PROVE PagesCalm' /\ NotHidden
  <2>1. Broadcast(<<Output(p)>>) /\ <<Output(p)>> \in Seq(Frames)
    BY <1>2, FrameTypes DEF RecordAndBroadcast
  <2>2. Uncreating(<<Output(p)>>)
    BY UncreatingOnes, Zenon
  <2> QED BY <1>0, <2>1, <2>2, QuietBroadcast, SettledShows
<1>3. ASSUME NEW p \in PaneIds, RemovePaneAndAnnounce(p) PROVE PagesCalm' /\ NotHidden
  BY <1>0, <1>3, RemoveCalm, SettledShows
<1>4. ASSUME NEW order \in Orders, ReorderPanes(order) PROVE PagesCalm' /\ NotHidden
  <2> DEFINE target == CanonicalOrder(panes, order)
  <2>1. Broadcast(<<Reordered(target)>>) /\ target = panes'
    BY <1>4 DEF ReorderPanes
  <2>2. panes' \in Seq(PaneIds)
    BY <1>4, ReorderKeeps DEF HubInv, HubKept
  <2> HIDE DEF target
  <2>3. <<Reordered(target)>> \in Seq(Frames)
    BY <2>1, <2>2, FrameTypes
  <2>4. Uncreating(<<Reordered(target)>>)
    BY UncreatingOnes, Zenon
  <2> QED BY <1>0, <2>1, <2>3, <2>4, QuietBroadcast, SettledShows
<1>5. ASSUME NEW p \in PaneIds \cup {None}, SetZoom(p) PROVE PagesCalm' /\ NotHidden
  <2>1. Broadcast(<<Zoomed(p)>>) /\ <<Zoomed(p)>> \in Seq(Frames)
    BY <1>5, FrameTypes DEF SetZoom
  <2>2. Uncreating(<<Zoomed(p)>>)
    BY UncreatingOnes, Zenon
  <2> QED BY <1>0, <2>1, <2>2, QuietBroadcast, SettledShows
<1>6. CASE Teardown
  BY <1>0, <1>6, TeardownCalm, SettledShows
<1>7. ASSUME NEW pg \in Pages, ConnectSnapshot(pg) PROVE PagesCalm' /\ NotHidden
  BY <1>0, <1>7, SnapshotCalm, SettledShows
<1>8. ASSUME NEW pg \in Pages, ConnectOpen(pg) PROVE PagesCalm' /\ NotHidden
  BY <1>0, <1>8, OpenCalm, SettledShows
<1>9. ASSUME NEW pg \in Pages, Deliver(pg) PROVE PagesCalm' /\ NotHidden
  BY <1>9, DeliverCalm
<1>10. ASSUME NEW pg \in Pages, SocketCloses(pg) PROVE PagesCalm' /\ NotHidden
  <2> DEFINE c == pages[pg]
             d == [c EXCEPT !.phase = "down", !.listed = FALSE, !.queue = <<>>, !.held = <<>>]
  <2>1. c \in Page /\ pages \in [Pages -> Page]
    BY <1>0 DEF PagesKept
  <2>2. pages' = [pages EXCEPT ![pg] = d]
    BY <1>10, <2>1 DEF SocketCloses, Page
  <2>3. d.phase = "down" /\ d.view = c.view
    BY <2>1 DEF Page
  <2> HIDE DEF d
  <2>4. PagesCalm'
    BY <2>1, <2>2, <2>3, OnePageCalm
  <2>5. Settled
    BY <2>1, <2>2, <2>3 DEF Settled
  <2> QED BY <1>0, <2>4, <2>5, SettledShows
<1>11. CASE pages' = pages
  <2>1. PagesCalm' /\ Settled
    BY <1>11 DEF PagesCalm, Settled
  <2> QED BY <1>0, <2>1, SettledShows
<1>12. ASSUME NEW p \in PaneIds, PaneExits(p) PROVE PagesCalm' /\ NotHidden
  BY <1>3, <1>12 DEF PaneExits
<1>13. ASSUME NEW p \in PaneIds, TakeClose(p) PROVE PagesCalm' /\ NotHidden
  BY <1>3, <1>11, <1>13 DEF TakeClose
<1>14. ASSUME NEW p \in PaneIds, QueueClose(p) PROVE PagesCalm' /\ NotHidden
  BY <1>11, <1>14 DEF QueueClose
<1>15. CASE Stop
  BY <1>11, <1>15 DEF Stop
<1>16. CASE UNCHANGED vars
  BY <1>11, <1>16 DEF vars
<1> QED BY <1>1, <1>2, <1>4, <1>5, <1>6, <1>7, <1>8, <1>9, <1>10, <1>12, <1>13, <1>14, <1>15, <1>16 DEF Next

\* No page is shown a pane that has just been opened while it is zoomed past it
\* (register_pane announces the end of the zoom first), even a page that was cut
\* off and still handles what is left of its queue.
THEOREM PanesAreShown == Spec => NewPaneNotHidden
<1>1. Init => PagesCalm
  BY DEF Init, PagesCalm, NewPage
<1>2. HubInv /\ PagesCalm /\ [Next]_vars => PagesCalm'
  BY NextCalm
<1>3. HubInv /\ PagesCalm /\ [Next]_vars => [NotHidden]_vars
  BY NextCalm
<1>4. Spec => []HubInv
  BY HubInductive
<1>5. Spec => [][NotHidden]_vars
  BY <1>1, <1>2, <1>3, <1>4, PTL DEF Spec
<1> QED BY <1>5, PTL DEF NewPaneNotHidden, NotHidden

==============================================================================
