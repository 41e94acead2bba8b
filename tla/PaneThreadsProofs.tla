------------------------- MODULE PaneThreadsProofs --------------------------
(***************************************************************************)
(* A pane and its threads, for any limits. First its input queue: the      *)
(* counters, the order of the input and the writer's sleep. Then           *)
(* the hub worker: a worker parked without a deadline has nothing to do,   *)
(* so the cap on its wait is never what makes it see its work. Last, the   *)
(* whole pane implements each of its halves, and what is proved of each    *)
(* half holds of the pane.                                                 *)
(***************************************************************************)
EXTENDS PaneThreads, SequenceTheorems, WellFoundedInduction, TLAPS

----------------------------------------------------------------------------
(* The input queue. *)

\* The types the argument needs: all but the counters'.
QueueType ==
    /\ queue \in Seq(Size) /\ inflight \in Seq(Size)
    /\ accepted \in Seq(Size) /\ delivered \in Seq(Size)
    /\ writer \in {"check", "waiting", "writing", "done"}

\* The writer holds one message exactly while it writes.
HoldsOne ==
    /\ writer = "writing" => Len(inflight) = 1
    /\ writer # "writing" => inflight = <<>>

\* A queue that was closed or failed stays empty.
EmptyWhenShut == closed \/ failure => queue = <<>>

IInv == /\ QueueType /\ HoldsOne /\ EmptyWhenShut
        /\ MessagesExact /\ InOrder /\ SleepsIdle

\* What a queue that was cut short has delivered starts what was accepted.
IsStart(s, t) == Len(s) <= Len(t) /\ s = SubSeq(t, 1, Len(s))

\* The head of a start is a start.
LEMMA StartOfConcat ==
    ASSUME NEW S, NEW s \in Seq(S), NEW t \in Seq(S), NEW a \in Seq(S),
           IsStart(s \o t, a)
    PROVE  IsStart(s, a)
<1>1. Len(s \o t) = Len(s) + Len(t) /\ Len(s) \in Nat /\ Len(t) \in Nat /\ Len(a) \in Nat
  BY ConcatProperties, LenProperties
<1>2. Len(s) <= Len(a)
  BY <1>1 DEF IsStart
<1>3. SubSeq(a, 1, Len(s)) \in Seq(S) /\ Len(SubSeq(a, 1, Len(s))) = Len(s)
  BY <1>1, <1>2
<1>4. ASSUME NEW i \in 1 .. Len(s) PROVE s[i] = SubSeq(a, 1, Len(s))[i]
  <2>1. s[i] = (s \o t)[i]
    BY <1>1, ConcatProperties
  <2>2. (s \o t)[i] = a[i]
    BY <1>1, <1>4 DEF IsStart
  <2>3. SubSeq(a, 1, Len(s))[i] = a[i]
    BY <1>1, <1>2, <1>4
  <2> QED BY <2>1, <2>2, <2>3
<1>5. s = SubSeq(a, 1, Len(s))
  BY <1>3, <1>4, SeqEqual
<1> QED BY <1>2, <1>5 DEF IsStart

\* The same for a start in three parts.
LEMMA StartOfStart ==
    ASSUME NEW S, NEW s \in Seq(S), NEW t \in Seq(S), NEW u \in Seq(S), NEW a \in Seq(S),
           IsStart((s \o t) \o u, a)
    PROVE  IsStart(s, a)
<1>1. s \o t \in Seq(S)
  BY ConcatProperties
<1> QED BY <1>1, StartOfConcat

\* A fresh queue is empty and counts nothing.
LEMMA InitIInv == IQInit => IInv
BY DEF IQInit, IInv, QueueType, HoldsOne, EmptyWhenShut, MessagesExact, InOrder, SleepsIdle

\* enqueue counts the message it appends, and wakes the writer.
LEMMA EnqueueKeeps == ASSUME IInv, NEW n \in Size, Enqueue(n) PROVE IInv'
<1>1. QueueType' /\ EmptyWhenShut'
  BY DEF IInv, QueueType, EmptyWhenShut, Enqueue, Notified, flags
<1>2. HoldsOne'
  BY DEF IInv, HoldsOne, Enqueue, Notified
<1>3. MessagesExact'
  BY DEF IInv, QueueType, MessagesExact, Enqueue
<1>4. InOrder'
  <2>1. (delivered \o inflight) \o queue = accepted
    BY DEF IInv, InOrder, Enqueue
  <2>2. delivered \o inflight \in Seq(Size) /\ queue \in Seq(Size) /\ <<n>> \in Seq(Size)
    BY DEF IInv, QueueType
  <2>3. (delivered \o inflight) \o (queue \o <<n>>) = ((delivered \o inflight) \o queue) \o <<n>>
    BY <2>2, ConcatAssociative
  <2>4. queue' = queue \o <<n>> /\ accepted' = accepted \o <<n>>
    BY AppendIsConcat DEF IInv, QueueType, Enqueue
  <2>5. (delivered' \o inflight') \o queue' = accepted'
    BY <2>1, <2>3, <2>4 DEF Enqueue
  <2>6. accepted' \in Seq(Size)
    BY DEF IInv, QueueType, Enqueue
  <2>7. accepted' = SubSeq(accepted', 1, Len(accepted')) /\ Len(accepted') <= Len(accepted')
    BY <2>6, SubSeqFull, LenProperties
  <2> QED BY <2>5, <2>7 DEF InOrder
<1>5. SleepsIdle'
  BY DEF IInv, SleepsIdle, Enqueue, Notified
<1> QED BY <1>1, <1>2, <1>3, <1>4, <1>5 DEF IInv

\* close takes from the counters exactly what it drops from the queue.
LEMMA CloseKeeps == ASSUME IInv, Close PROVE IInv'
<1>1. QueueType' /\ EmptyWhenShut'
  BY DEF IInv, QueueType, EmptyWhenShut, Close, DropQueued, Notified, history
<1>2. HoldsOne'
  BY DEF IInv, HoldsOne, Close, Notified
<1>3. MessagesExact'
  BY DEF IInv, QueueType, MessagesExact, Close, DropQueued
<1>4. InOrder'
  <2>1. /\ queue' = <<>> /\ inflight' = inflight /\ closed'
        /\ accepted' = accepted /\ delivered' = delivered
    BY DEF Close, DropQueued, history
  <2>2. /\ delivered \o inflight \in Seq(Size) /\ queue \in Seq(Size)
        /\ accepted \in Seq(Size)
    BY DEF IInv, QueueType
  <2>3. IsStart(delivered \o inflight, accepted)
    BY <2>2, StartOfConcat DEF IInv, InOrder, IsStart
  <2>4. (delivered' \o inflight') \o queue' = delivered \o inflight
    BY <2>1, <2>2, ConcatEmptySeq
  <2> QED BY <2>1, <2>3, <2>4 DEF InOrder, IsStart
<1>5. SleepsIdle'
  BY DEF IInv, SleepsIdle, Close, DropQueued, Notified
<1> QED BY <1>1, <1>2, <1>3, <1>4, <1>5 DEF IInv

\* The message the writer takes stays counted while it is written.
LEMMA TakeKeeps == ASSUME IInv, Take PROVE IInv'
<1>1. QueueType' /\ EmptyWhenShut'
  BY DEF IInv, QueueType, EmptyWhenShut, Take, flags, history
<1>2. HoldsOne'
  BY DEF IInv, HoldsOne, Take
<1>3. MessagesExact'
  BY DEF IInv, QueueType, HoldsOne, MessagesExact, Take, counters
<1>4. InOrder'
  <2>1. inflight = <<>> /\ queue = <<Head(queue)>> \o Tail(queue)
    BY DEF IInv, QueueType, HoldsOne, Take
  <2>2. delivered \in Seq(Size) /\ inflight' \in Seq(Size) /\ queue' \in Seq(Size)
    BY <1>1 DEF IInv, QueueType
  <2>3. delivered \o inflight = delivered
    BY <2>1, <2>2, ConcatEmptySeq
  <2>4. (delivered \o inflight') \o queue' = delivered \o (inflight' \o queue')
    BY <2>2, ConcatAssociative
  <2>5. inflight' \o queue' = queue /\ delivered' = delivered
    BY <2>1 DEF Take, history
  <2>6. (delivered \o inflight) \o queue = (delivered' \o inflight') \o queue'
    BY <2>3, <2>4, <2>5
  <2> QED BY <2>6 DEF IInv, InOrder, Take, flags, history
<1>5. SleepsIdle'
  BY DEF IInv, SleepsIdle, Take
<1> QED BY <1>1, <1>2, <1>3, <1>4, <1>5 DEF IInv

\* A message written whole is the next one of those accepted.
LEMMA WriteDoneKeeps == ASSUME IInv, WriteDone PROVE IInv'
<1>1. QueueType' /\ EmptyWhenShut'
  BY DEF IInv, QueueType, EmptyWhenShut, WriteDone, flags
<1>2. HoldsOne'
  BY DEF IInv, HoldsOne, WriteDone
<1>3. MessagesExact'
  <2>1. pendingMessages' = pendingMessages - 1 /\ queue' = queue /\ inflight' = <<>>
    BY DEF WriteDone
  <2>2. Len(inflight) = 1 /\ queue \in Seq(Size) /\ pendingMessages = Len(queue) + Len(inflight)
    BY DEF IInv, QueueType, HoldsOne, MessagesExact, WriteDone
  <2>3. Len(queue) \in Nat /\ Len(<<>>) = 0
    BY <2>2
  <2> QED BY <2>1, <2>2, <2>3 DEF MessagesExact
<1>4. InOrder'
  <2>1. delivered' \o inflight' = delivered \o inflight
    BY <1>1, ConcatEmptySeq DEF QueueType, WriteDone
  <2>2. queue' = queue /\ accepted' = accepted /\ closed' = closed /\ failure' = failure
    BY DEF WriteDone, flags
  <2> QED BY <2>1, <2>2 DEF IInv, InOrder
<1>5. SleepsIdle'
  BY DEF IInv, SleepsIdle, WriteDone
<1> QED BY <1>1, <1>2, <1>3, <1>4, <1>5 DEF IInv

\* A failed write drops its message and the queue, each counted once.
LEMMA WriteFailsKeeps == ASSUME IInv, WriteFails PROVE IInv'
<1>1. QueueType' /\ EmptyWhenShut'
  BY DEF IInv, QueueType, EmptyWhenShut, WriteFails, history
<1>2. HoldsOne'
  BY DEF IInv, HoldsOne, WriteFails
<1>3. MessagesExact'
  <2>1. /\ pendingMessages' = pendingMessages - 1 - Len(queue)
        /\ queue' = <<>> /\ inflight' = <<>>
    BY DEF WriteFails
  <2>2. Len(inflight) = 1 /\ queue \in Seq(Size) /\ pendingMessages = Len(queue) + Len(inflight)
    BY DEF IInv, QueueType, HoldsOne, MessagesExact, WriteFails
  <2>3. Len(queue) \in Nat /\ Len(<<>>) = 0
    BY <2>2
  <2> QED BY <2>1, <2>2, <2>3 DEF MessagesExact
<1>4. InOrder'
  <2>1. /\ queue' = <<>> /\ inflight' = <<>> /\ failure'
        /\ accepted' = accepted /\ delivered' = delivered
    BY DEF WriteFails, history
  <2>2. /\ delivered \in Seq(Size) /\ inflight \in Seq(Size) /\ queue \in Seq(Size)
        /\ accepted \in Seq(Size)
    BY DEF IInv, QueueType
  <2>3. IsStart(delivered, accepted)
    BY <2>2, StartOfStart DEF IInv, InOrder, IsStart
  <2>4. (delivered' \o inflight') \o queue' = delivered
    BY <2>1, <2>2, ConcatEmptySeq
  <2> QED BY <2>1, <2>3, <2>4 DEF InOrder, IsStart
<1>5. SleepsIdle'
  BY DEF IInv, SleepsIdle, WriteFails
<1> QED BY <1>1, <1>2, <1>3, <1>4, <1>5 DEF IInv

\* Every step of the queue keeps the invariant.
LEMMA IQNextKeeps == IInv /\ [IQNext]_iqvars => IInv'
<1> SUFFICES ASSUME IInv, [IQNext]_iqvars PROVE IInv'
  OBVIOUS
<1> USE DEF IInv, QueueType, HoldsOne, EmptyWhenShut, MessagesExact, InOrder, SleepsIdle
<1>1. CASE \E n \in Size : Enqueue(n)
  BY <1>1, EnqueueKeeps
<1>2. CASE Close
  BY <1>2, CloseKeeps
<1>3. CASE Stop
  BY <1>3 DEF Stop, counters, flags, history
<1>4. CASE Wait
  BY <1>4 DEF Wait, counters, flags, history
<1>5. CASE Take
  BY <1>5, TakeKeeps
<1>6. CASE WriteDone
  BY <1>6, WriteDoneKeeps
<1>7. CASE WriteFails
  BY <1>7, WriteFailsKeeps
<1>8. CASE UNCHANGED iqvars
  BY <1>8 DEF iqvars, counters, flags, history
<1> QED BY <1>1, <1>2, <1>3, <1>4, <1>5, <1>6, <1>7, <1>8 DEF IQNext

\* The invariant holds throughout.
LEMMA IQInvariant == IQSpec => []IInv
BY InitIInv, IQNextKeeps, PTL DEF IQSpec

\* Input is delivered in the order it was accepted, without a gap or a repeat.
THEOREM InputInOrder == IQSpec => []InOrder
<1>1. IInv => InOrder
  BY DEF IInv
<1> QED BY <1>1, IQInvariant, PTL

\* The writer thread sleeps only while the queue is open and empty.
THEOREM WriterSleepsIdle == IQSpec => []SleepsIdle
<1>1. IInv => SleepsIdle
  BY DEF IInv
<1> QED BY <1>1, IQInvariant, PTL

----------------------------------------------------------------------------
(* Sums of sizes. *)

\* A set of naturals that is not empty has a least element.
LEMMA LeastOf ==
    ASSUME NEW T, T \subseteq Nat, T # {}
    PROVE  \E x \in T : \A y \in T : x =< y
<1> DEFINE R == OpToRel(<, Nat)
<1>1. IsWellFoundedOn(R, Nat)
  BY NatLessThanWellFounded
<1>2. \A x, y \in Nat : y < x => <<y, x>> \in R
  BY DEF OpToRel
<1> HIDE DEF R
<1>3. PICK x \in T : \A y \in T : ~ (<<y, x>> \in R)
  BY <1>1, WFMin
<1>4. ASSUME NEW y \in T PROVE x =< y
  <2>1. x \in Nat /\ y \in Nat
    OBVIOUS
  <2>2. ~(y < x)
    BY <1>2, <1>3, <2>1
  <2> QED BY <2>1, <2>2
<1> QED BY <1>4

\* What holds of the empty sequence and is kept by one more size holds of all.
LEMMA SizesInduction ==
    ASSUME NEW G, <<>> \in G,
           \A s \in Seq(Size), n \in Size : s \in G => Append(s, n) \in G
    PROVE  \A s \in Seq(Size) : s \in G
<1> SUFFICES ASSUME NEW z \in Seq(Size), z \notin G PROVE FALSE
  OBVIOUS
<1> DEFINE B == {s \in Seq(Size) : s \notin G}
           T == {Len(s) : s \in B}
<1>1. T \subseteq Nat /\ T # {}
  OBVIOUS
<1>2. PICK n \in T : \A m \in T : n =< m
  BY <1>1, LeastOf
<1>3. PICK s \in B : n = Len(s)
  OBVIOUS
<1>4. s \in Seq(Size) /\ s # <<>>
  OBVIOUS
<1>5. PICK t \in Seq(Size), e \in Size : s = Append(t, e)
  BY <1>4, SequenceEmptyOrAppend
<1>6. Len(t) < Len(s) /\ Len(t) \in Nat
  BY <1>5
<1>7. t \in G
  BY <1>2, <1>3, <1>6
<1> QED BY <1>3, <1>5, <1>7

\* The running totals of a sequence, and the last of them.
Totals(s, f) == f = [n \in 0 .. Len(s) |-> IF n = 0 THEN 0 ELSE f[n - 1] + s[n]]

LEMMA BytesIs == ASSUME NEW s \in Seq(Size) PROVE Bytes(s) = (CHOOSE f : Totals(s, f))[Len(s)]
BY Zenon DEF Bytes, Totals

LEMMA OneTotals ==
    ASSUME NEW s \in Seq(Size), NEW f, NEW g, Totals(s, f), Totals(s, g)
    PROVE  f = g
<1> DEFINE T == {n \in 0 .. Len(s) : f[n] # g[n]}
<1>1. /\ f = [n \in 0 .. Len(s) |-> f[n]] /\ g = [n \in 0 .. Len(s) |-> g[n]]
      /\ f[0] = 0 /\ g[0] = 0
      /\ \A n \in 1 .. Len(s) : f[n] = f[n - 1] + s[n] /\ g[n] = g[n - 1] + s[n]
  BY DEF Totals
<1>2. CASE T = {}
  BY <1>1, <1>2
<1>3. CASE T # {}
  <2> T \subseteq Nat
    OBVIOUS
  <2>1. PICK n \in T : \A m \in T : n =< m
    BY <1>3, LeastOf
  <2>2. n \in 1 .. Len(s) /\ n - 1 \in 0 .. Len(s) /\ n - 1 \notin T
    BY <1>1, <2>1
  <2> QED BY <1>1, <2>1, <2>2
<1> QED BY <1>2, <1>3

\* The totals of a sequence go on to those of the sequence with one more.
LEMMA TotalsGrow ==
    ASSUME NEW s \in Seq(Size), NEW e \in Size, NEW f, Totals(s, f)
    PROVE  \E g : Totals(Append(s, e), g) /\ g[Len(s) + 1] = f[Len(s)] + e
<1> DEFINE n == Len(s)
           more == Append(s, e)
           g == [i \in 0 .. n + 1 |-> IF i = n + 1 THEN f[n] + e ELSE f[i]]
<1>1. n \in Nat /\ Len(more) = n + 1 /\ more[n + 1] = e /\ \A i \in 1 .. n : more[i] = s[i]
  OBVIOUS
<1>2. f[0] = 0 /\ \A i \in 1 .. n : f[i] = f[i - 1] + s[i]
  BY DEF Totals
<1> HIDE DEF n, more
<1>3. /\ DOMAIN g = 0 .. n + 1 /\ g[0] = 0 /\ g[n + 1] = f[n] + e
      /\ \A i \in 0 .. n : g[i] = f[i]
  BY <1>1, <1>2
<1>4. g = [i \in 0 .. n + 1 |-> g[i]]
  OBVIOUS
<1> HIDE DEF g
<1>5. ASSUME NEW i \in 0 .. n + 1 PROVE g[i] = IF i = 0 THEN 0 ELSE g[i - 1] + more[i]
  <2>1. CASE i = 0
    BY <1>3, <2>1
  <2>2. CASE i = n + 1
    <3>1. i # 0 /\ i - 1 = n /\ n \in 0 .. n
      BY <1>1, <2>2
    <3> QED BY <1>1, <1>3, <2>2, <3>1
  <2>3. CASE i \in 1 .. n
    <3>1. i # 0 /\ i - 1 \in 0 .. n /\ i \in 0 .. n
      BY <1>1, <2>3
    <3> QED BY <1>1, <1>2, <1>3, <2>3, <3>1
  <2> QED BY <1>1, <2>1, <2>2, <2>3
<1>6. Totals(more, g)
  BY <1>1, <1>4, <1>5 DEF Totals
<1> QED BY <1>3, <1>6 DEF n, more

LEMMA TotalsExist == ASSUME NEW s \in Seq(Size) PROVE \E f : Totals(s, f)
<1> DEFINE G == {t \in Seq(Size) : \E f : Totals(t, f)}
<1>1. <<>> \in G
  <2> DEFINE f == [n \in 0 .. 0 |-> 0]
  <2>1. Totals(<<>>, f)
    BY DEF Totals
  <2> HIDE DEF f
  <2> QED BY <2>1
<1>2. ASSUME NEW t \in Seq(Size), NEW e \in Size, t \in G PROVE Append(t, e) \in G
  <2>1. PICK f : Totals(t, f)
    BY <1>2
  <2>2. Append(t, e) \in Seq(Size)
    OBVIOUS
  <2> QED BY <2>1, <2>2, TotalsGrow
<1> HIDE DEF G
<1>3. s \in G
  BY <1>1, <1>2, SizesInduction
<1> QED BY <1>3 DEF G

LEMMA NoBytes == Bytes(<<>>) = 0
<1> DEFINE f == CHOOSE g : Totals(<<>>, g)
<1>1. <<>> \in Seq(Size) /\ Len(<<>>) = 0
  OBVIOUS
<1>2. Totals(<<>>, f) /\ Bytes(<<>>) = f[0]
  BY <1>1, TotalsExist, BytesIs
<1> HIDE DEF f
<1> QED BY <1>1, <1>2 DEF Totals

LEMMA MoreBytes ==
    ASSUME NEW s \in Seq(Size), NEW e \in Size
    PROVE  Bytes(Append(s, e)) = Bytes(s) + e
<1> DEFINE f == CHOOSE g : Totals(s, g)
           h == CHOOSE g : Totals(Append(s, e), g)
<1>1. Append(s, e) \in Seq(Size) /\ Len(Append(s, e)) = Len(s) + 1
  OBVIOUS
<1>2. Totals(s, f) /\ Totals(Append(s, e), h)
  BY <1>1, TotalsExist
<1>3. Bytes(s) = f[Len(s)] /\ Bytes(Append(s, e)) = h[Len(s) + 1]
  BY <1>1, BytesIs
<1> HIDE DEF f, h
<1>4. PICK g : Totals(Append(s, e), g) /\ g[Len(s) + 1] = f[Len(s)] + e
  BY <1>2, TotalsGrow
<1>5. g = h
  BY <1>1, <1>2, <1>4, OneTotals
<1> QED BY <1>3, <1>4, <1>5

\* A sum of sizes is a natural, and what is taken from the front leaves the rest.
LEMMA BytesNat == \A s \in Seq(Size) : Bytes(s) \in Nat
<1> DEFINE G == {s \in Seq(Size) : Bytes(s) \in Nat}
<1>1. <<>> \in G
  BY NoBytes
<1>2. ASSUME NEW s \in Seq(Size), NEW e \in Size, s \in G PROVE Append(s, e) \in G
  <2>1. Append(s, e) \in Seq(Size) /\ e \in Nat
    BY DEF Size
  <2> QED BY <1>2, <2>1, MoreBytes
<1> HIDE DEF G
<1>3. \A s \in Seq(Size) : s \in G
  BY <1>1, <1>2, SizesInduction
<1> QED BY <1>3 DEF G

LEMMA HeadBytes ==
    ASSUME NEW q \in Seq(Size), q # <<>>
    PROVE  Bytes(q) = Head(q) + Bytes(Tail(q)) /\ Bytes(<<Head(q)>>) = Head(q)
<1> DEFINE G == {s \in Seq(Size) : s # <<>> => Bytes(s) = Head(s) + Bytes(Tail(s))}
<1>1. \A e \in Size : Bytes(<<e>>) = e
  <2> TAKE e \in Size
  <2>1. <<e>> = Append(<<>>, e) /\ <<>> \in Seq(Size)
    OBVIOUS
  <2>2. e \in Nat
    BY InputAssumption DEF Size
  <2>3. Bytes(Append(<<>>, e)) = 0 + e
    BY <2>1, NoBytes, MoreBytes
  <2> QED BY <2>1, <2>2, <2>3
<1>2. <<>> \in G
  OBVIOUS
<1>3. ASSUME NEW s \in Seq(Size), NEW e \in Size, s \in G PROVE Append(s, e) \in G
  <2>1. Append(s, e) \in Seq(Size) /\ e \in Nat
    BY DEF Size
  <2>2. CASE s = <<>>
    <3>1. Append(s, e) = <<e>> /\ Head(<<e>>) = e /\ Tail(<<e>>) = <<>>
      BY <2>2
    <3> QED BY <1>1, <2>1, <3>1, NoBytes
  <2>3. CASE s # <<>>
    <3>1. /\ Head(Append(s, e)) = Head(s) /\ Tail(Append(s, e)) = Append(Tail(s), e)
          /\ Tail(s) \in Seq(Size) /\ Head(s) \in Size
      BY <2>3, HeadTailAppend
    <3>2. Bytes(s) = Head(s) + Bytes(Tail(s))
      BY <1>3, <2>3
    <3>3. Bytes(Append(s, e)) = Bytes(s) + e /\ Bytes(Append(Tail(s), e)) = Bytes(Tail(s)) + e
      BY <3>1, MoreBytes
    <3>4. Head(s) \in Nat
      BY <3>1, InputAssumption DEF Size
    <3>5. Bytes(Tail(s)) \in Nat
      BY <3>1, BytesNat
    <3>6. Bytes(Append(s, e)) = Head(s) + Bytes(Append(Tail(s), e))
      BY <2>1, <3>2, <3>3, <3>4, <3>5
    <3> QED BY <2>1, <3>1, <3>6
  <2> QED BY <2>2, <2>3
<1> HIDE DEF G
<1>4. q \in G
  BY <1>2, <1>3, SizesInduction
<1>5. Head(q) \in Size
  OBVIOUS
<1> QED BY <1>1, <1>4, <1>5 DEF G

----------------------------------------------------------------------------
(* The byte counter. *)

\* Every step of the queue keeps the byte counter exact and within its limit.
LEMMA BytesKeep == IInv /\ BytesExact /\ [IQNext]_iqvars => BytesExact'
<1> SUFFICES ASSUME IInv, BytesExact, [IQNext]_iqvars PROVE BytesExact'
  OBVIOUS
<1> DEFINE q == Bytes(queue)
           w == Bytes(inflight)
<1>1. /\ queue \in Seq(Size) /\ inflight \in Seq(Size) /\ Len(queue) \in Nat
      /\ Len(inflight) \in Nat /\ q \in Nat /\ w \in Nat /\ Bytes(<<>>) = 0
      /\ ByteLimit \in Nat /\ MessageLimit \in Nat
  BY InputAssumption, BytesNat, NoBytes DEF IInv, QueueType
<1>2. /\ pendingBytes = q + w /\ pendingBytes =< ByteLimit
      /\ pendingMessages = Len(queue) + Len(inflight) /\ pendingMessages =< MessageLimit
  BY DEF IInv, MessagesExact, BytesExact
<1>3. /\ writer = "writing" => inflight # <<>> /\ inflight = <<Head(inflight)>>
      /\ writer # "writing" => inflight = <<>>
  BY <1>1 DEF IInv, HoldsOne
<1>4. inflight # <<>> => Bytes(<<Head(inflight)>>) = Head(inflight) /\ Head(inflight) \in Nat
  BY <1>1, HeadBytes DEF Size
<1>5. ASSUME NEW n \in Size, Enqueue(n) PROVE BytesExact'
  <2>1. /\ queue' = Append(queue, n) /\ inflight' = inflight /\ n \in Nat
        /\ pendingBytes' = pendingBytes + n /\ pendingMessages' = pendingMessages + 1
        /\ pendingMessages < MessageLimit /\ pendingBytes + n <= ByteLimit
    BY <1>5 DEF Enqueue, Fits, Size
  <2>2. Bytes(queue') = q + n /\ Bytes(inflight') = w
    BY <1>1, <2>1, MoreBytes
  <2> HIDE DEF q, w
  <2> QED BY <1>1, <1>2, <2>1, <2>2 DEF BytesExact
<1>6. CASE Close
  <2>1. /\ queue' = <<>> /\ inflight' = inflight /\ pendingBytes' = pendingBytes - q
        /\ pendingMessages' = pendingMessages - Len(queue)
    BY <1>6 DEF Close, DropQueued
  <2>2. Bytes(queue') = 0 /\ Bytes(inflight') = w
    BY <1>1, <2>1
  <2> HIDE DEF q, w
  <2> QED BY <1>1, <1>2, <2>1, <2>2 DEF BytesExact
<1>7. CASE Take
  <2>1. /\ inflight = <<>> /\ queue # <<>> /\ inflight' = <<Head(queue)>> /\ queue' = Tail(queue)
        /\ pendingBytes' = pendingBytes /\ pendingMessages' = pendingMessages
    BY <1>3, <1>7 DEF Take, counters
  <2>2. q = Bytes(inflight') + Bytes(queue') /\ w = 0
    BY <1>1, <2>1, HeadBytes
  <2>3. queue' \in Seq(Size) /\ inflight' \in Seq(Size) /\ Bytes(queue') \in Nat
        /\ Bytes(inflight') \in Nat
    <3>1. queue' \in Seq(Size) /\ inflight' \in Seq(Size)
      BY <1>1, <2>1
    <3> QED BY <3>1, BytesNat
  <2> HIDE DEF q, w
  <2> QED BY <1>1, <1>2, <2>1, <2>2, <2>3 DEF BytesExact
<1>8. CASE WriteDone
  <2>1. /\ inflight # <<>> /\ inflight = <<Head(inflight)>> /\ queue' = queue /\ inflight' = <<>>
        /\ pendingBytes' = pendingBytes - Head(inflight) /\ pendingMessages' = pendingMessages - 1
    BY <1>3, <1>8 DEF WriteDone
  <2>2. w = Head(inflight) /\ Bytes(inflight') = 0 /\ Bytes(queue') = q
    BY <1>1, <1>4, <2>1
  <2>3. Len(inflight) = 1 /\ Head(inflight) \in Nat
    BY <1>4, <2>1
  <2> HIDE DEF q, w
  <2>4. pendingBytes' = q /\ pendingMessages' = Len(queue)
    BY <1>1, <1>2, <2>1, <2>2, <2>3
  <2> QED BY <1>1, <1>2, <2>1, <2>2, <2>3, <2>4 DEF BytesExact
<1>9. CASE WriteFails
  <2>1. /\ inflight # <<>> /\ inflight = <<Head(inflight)>> /\ queue' = <<>> /\ inflight' = <<>>
        /\ pendingBytes' = pendingBytes - Head(inflight) - q
        /\ pendingMessages' = pendingMessages - 1 - Len(queue)
    BY <1>3, <1>9 DEF WriteFails
  <2>2. w = Head(inflight) /\ Bytes(inflight') = 0 /\ Bytes(queue') = 0
    BY <1>1, <1>4, <2>1
  <2>3. Len(inflight) = 1 /\ Head(inflight) \in Nat
    BY <1>4, <2>1
  <2> HIDE DEF q, w
  <2>4. pendingBytes' = 0 /\ pendingMessages' = 0
    BY <1>1, <1>2, <2>1, <2>2, <2>3
  <2> QED BY <1>1, <2>2, <2>4 DEF BytesExact
<1>10. CASE Stop \/ Wait \/ UNCHANGED iqvars
  <2>1. UNCHANGED <<queue, inflight, pendingBytes, pendingMessages>>
    BY <1>10 DEF Stop, Wait, iqvars, counters
  <2> QED BY <2>1 DEF BytesExact
<1> QED BY <1>5, <1>6, <1>7, <1>8, <1>9, <1>10 DEF IQNext

\* Both counters are exact on every path out of the queue (enqueue, close, a
\* finished and a failed write): taking from them never wraps, and what is held
\* for a program that does not read stays within both limits.
THEOREM CountersAreExact == IQSpec => []CountersExact
<1>1. IQInit => BytesExact
  BY NoBytes, InputAssumption DEF IQInit, BytesExact
<1>2. IInv /\ BytesExact => CountersExact
  BY DEF IInv, CountersExact
<1> QED BY <1>1, <1>2, IQInvariant, BytesKeep, PTL DEF IQSpec

----------------------------------------------------------------------------
(* The worker, its reader and its waiter. *)

Events == {"output", "child", "eof"}
WindowType == [left : Nat, used : 0 .. Budget]
ExitType == [phase : {"running", "draining", "reported"}, left : Nat]

\* The types the argument needs.
WType ==
    /\ commands \in Nat /\ submitting \in Nat /\ inbox \in Nat
    /\ channel \in Seq(Events)
    /\ window \in WindowType
    /\ exit \in ExitType
    /\ deadline \in Nat \cup {None}
    /\ stopping \in {"no", "set", "yes"}

\* Work that is queued has been signalled, will be signalled by its producer,
\* or is still ahead of the worker in this pass.
CommandsSeen ==
    commands > 0 => submitting > 0 \/ signal \/ worker \in {"top", "commands", "ended"}
ClosesSeen ==
    closing => submitting > 0 \/ signal \/ worker \in {"top", "ended"}
StopSeen == stopping = "yes" => signal \/ worker \in {"top", "ended"}
InboxSeen ==
    inbox > 0 => \/ pump = "wake" \/ signal \/ capped
                 \/ worker \in {"top", "commands", "drain", "plugins", "ended"}
ChannelSeen ==
    channel # <<>> => \/ reader \in {"wake", "signing"} \/ waiter = "wake" \/ signal
                      \/ window.used >= Budget
                      \/ worker \in {"top", "commands", "drain", "ended"}

\* A destroyed pane has no events and no phase that waits on a clock.
DroppedIsOver == dropped => channel = <<>> /\ exit.phase = "reported"

\* What was signalled in an earlier pass and is not done is on a deadline.
DeadlineKept ==
    worker = "parked" /\ deadline = None =>
        /\ ~capped
        /\ ~dropped => window.used < Budget /\ exit.phase # "draining"

\* The waiter waits as long as the child lives.
ChildWaited == "child" \in writers => waiter = "waiting"

WInv == /\ WType /\ CommandsSeen /\ ClosesSeen /\ StopSeen /\ InboxSeen /\ ChannelSeen
        /\ DroppedIsOver /\ DeadlineKept /\ ChildWaited

----------------------------------------------------------------------------
(* Producers *)

\* A producer that has queued something is one that will signal it.
LEMMA QueueingKeeps ==
    ASSUME WInv, Submit \/ QueueClose \/ SetStop \/ PluginSends
    PROVE  WInv'
<1> USE DEF WInv, WType, CommandsSeen, ClosesSeen, StopSeen, InboxSeen, ChannelSeen, DroppedIsOver,
            DeadlineKept, ChildWaited, passing, people, plugin, threads, pane
<1>1. CASE Submit
  BY <1>1 DEF Submit
<1>2. CASE SetStop
  BY <1>2 DEF SetStop
<1>3. CASE PluginSends
  BY <1>3 DEF PluginSends
<1>4. CASE QueueClose
  BY <1>4 DEF QueueClose
<1> QED BY <1>1, <1>2, <1>3, <1>4

\* A signal is pending until the worker's next wait takes it.
LEMMA SignalsKeep == ASSUME WInv, Signals PROVE WInv'
<1> USE DEF WInv, WType, CommandsSeen, ClosesSeen, StopSeen, InboxSeen, ChannelSeen, DroppedIsOver,
            DeadlineKept, ChildWaited, passing, people, plugin, threads, pane
<1>1. CASE SubmitterWakes
  BY <1>1 DEF SubmitterWakes
<1>2. CASE StopWakes
  BY <1>2 DEF StopWakes
<1>3. CASE PumpWakes
  BY <1>3 DEF PumpWakes
<1>4. CASE ReaderWakes
  BY <1>4 DEF ReaderWakes
<1>5. CASE WaiterWakes
  BY <1>5 DEF WaiterWakes
<1> QED BY <1>1, <1>2, <1>3, <1>4, <1>5 DEF Signals

\* An event put on the channel leaves its sender about to signal, unless the
\* receiver is gone and the channel stays empty.
LEMMA PutKeeps ==
    ASSUME WInv, NEW e \in Events, Put(e),
           dropped \/ reader' \in {"wake", "signing"} \/ waiter' = "wake",
           "child" \in writers => waiter' = "waiting",
           UNCHANGED <<passing, people, plugin, dropped, window, exit, writers>>
    PROVE  WInv'
<1>1. channel' \in Seq(Events) /\ (dropped => channel' = <<>>)
  BY DEF WInv, WType, DroppedIsOver, Put
<1>2. ChannelSeen' /\ DroppedIsOver' /\ WType'
  BY <1>1 DEF WInv, WType, ChannelSeen, DroppedIsOver, passing, people, plugin
<1> QED BY <1>2 DEF WInv, CommandsSeen, ClosesSeen, StopSeen, InboxSeen, DeadlineKept, ChildWaited, passing,
                    people, plugin

\* The reader and the waiter change nothing else unless they put an event.
LEMMA ThreadsKeep ==
    ASSUME WInv, Sends \/ ReadChunk \/ ReadEof \/ ChildEnds \/ BackgroundEnds
    PROVE  WInv'
<1>1. CASE SendBlocked
  BY <1>1, PutKeeps DEF SendBlocked, Events, WInv, ChildWaited
<1>2. CASE SendEof
  BY <1>2, PutKeeps DEF SendEof, Events, WInv, ChildWaited
<1>3. CASE SendChildExited
  BY <1>3, PutKeeps DEF SendChildExited, Events, WInv, ChildWaited
<1>4. CASE ReadChunk /\ Room
  BY <1>4, PutKeeps DEF ReadChunk, Events, WInv, ChildWaited
<1>5. CASE ReadChunk /\ ~Room
  BY <1>5 DEF ReadChunk, WInv, WType, CommandsSeen, ClosesSeen, StopSeen, InboxSeen, ChannelSeen,
              DroppedIsOver, DeadlineKept, ChildWaited, passing, people, plugin
<1>6. CASE ReadEof
  BY <1>6 DEF ReadEof, WInv, WType, CommandsSeen, ClosesSeen, StopSeen, InboxSeen, ChannelSeen,
              DroppedIsOver, DeadlineKept, ChildWaited, passing, people, plugin, pane
<1>7. CASE ChildEnds
  BY <1>7 DEF ChildEnds, WInv, WType, CommandsSeen, ClosesSeen, StopSeen, InboxSeen, ChannelSeen,
              DroppedIsOver, DeadlineKept, ChildWaited, passing, people, plugin, pane
<1>8. CASE BackgroundEnds
  BY <1>8 DEF BackgroundEnds, WInv, WType, CommandsSeen, ClosesSeen, StopSeen, InboxSeen, ChannelSeen,
              DroppedIsOver, DeadlineKept, ChildWaited, passing, people, plugin, pane
<1> QED BY <1>1, <1>2, <1>3, <1>4, <1>5, <1>6, <1>7, <1>8 DEF Sends

----------------------------------------------------------------------------
(* The worker *)

\* Taking the panes to close destroys the pane with everything it owed.
LEMMA ClosesKeep == ASSUME WInv, TakePendingCloses PROVE WInv'
<1>1. /\ worker' = "commands" /\ closing' = FALSE /\ stopping' = "no"
      /\ UNCHANGED <<signal, deadline, commands, submitting, inbox, pump, capped, reader>>
  BY DEF TakePendingCloses, plugin
<1>2. CASE closing /\ ~dropped
  <2>1. /\ channel' = <<>> /\ exit' = Reported /\ window' = NoWindow
        /\ "child" \notin writers'
    BY <1>2 DEF TakePendingCloses, DestroyPane
  <2>2. WType'
    BY <1>1, <2>1, LimitAssumption
       DEF WInv, WType, Reported, NoWindow, ExitType, WindowType
  <2> QED BY <1>1, <2>1, <2>2 DEF WInv, CommandsSeen, ClosesSeen, StopSeen, InboxSeen,
             ChannelSeen, DroppedIsOver, DeadlineKept, ChildWaited, Reported
<1>3. CASE ~(closing /\ ~dropped)
  <2>1. UNCHANGED <<channel, dropped, window, exit, writers, waiter>>
    BY <1>3 DEF TakePendingCloses, pane
  <2> QED BY <1>1, <2>1 DEF WInv, WType, CommandsSeen, ClosesSeen, StopSeen, InboxSeen,
             ChannelSeen, DroppedIsOver, DeadlineKept, ChildWaited
<1> QED BY <1>2, <1>3

\* The worker leaves the commands only when there are none.
LEMMA CommandsKeep == ASSUME WInv, TakeCommand \/ CommandsTaken PROVE WInv'
<1>1. CASE TakeCommand
  BY <1>1 DEF TakeCommand, WInv, WType, CommandsSeen, ClosesSeen, StopSeen, InboxSeen,
              ChannelSeen, DroppedIsOver, DeadlineKept, ChildWaited, passing, plugin, threads, pane
<1>2. CASE CommandsTaken
  BY <1>2 DEF CommandsTaken, WInv, WType, CommandsSeen, ClosesSeen, StopSeen, InboxSeen,
              ChannelSeen, DroppedIsOver, DeadlineKept, ChildWaited, people, plugin, threads, pane
<1> QED BY <1>1, <1>2

\* A worker that ends owes nobody a look.
LEMMA EndKeeps == ASSUME WInv, End PROVE WInv'
<1>1. /\ worker' = "ended" /\ channel' = <<>> /\ exit' = Reported /\ window' = NoWindow
      /\ "child" \notin writers'
      /\ UNCHANGED <<signal, deadline, commands, closing, submitting, stopping, inbox, pump, capped>>
  BY DEF End, DestroyPane, people, plugin
<1>2. WType'
  BY <1>1, LimitAssumption DEF WInv, WType, Reported, NoWindow, ExitType, WindowType
<1> QED BY <1>1, <1>2 DEF CommandsSeen, ClosesSeen, StopSeen, InboxSeen, ChannelSeen,
           DroppedIsOver, DeadlineKept, ChildWaited, Reported, WInv

\* A drain that leaves events behind and does not report the pane has spent
\* its window's budget.
LEMMA DrainSpends ==
    ASSUME WType
    PROVE  /\ CurrentWindow \in WindowType
           /\ Len(Drained) \in Nat /\ Len(Drained) <= Len(channel)
           /\ CurrentWindow.used + Len(Drained) <= Budget
           /\ SubSeq(channel, Len(Drained) + 1, Len(channel)) \in Seq(Events)
           /\ "eof" \notin ToSet(Drained) /\ Len(Drained) < Len(channel)
                => CurrentWindow.used + Len(Drained) = Budget
<1> DEFINE allowed == Budget - CurrentWindow.used
           n == IF Len(channel) < allowed THEN Len(channel) ELSE allowed
<1>1. CurrentWindow \in WindowType
  BY LimitAssumption DEF WType, CurrentWindow, WindowType
<1>2. CurrentWindow.used \in 0 .. Budget /\ Budget \in Nat
  BY <1>1, LimitAssumption DEF WindowType
<1>3. channel \in Seq(Events) /\ Len(channel) \in Nat
  BY DEF WType
<1>4. n \in Nat /\ n <= Len(channel) /\ n <= allowed
  BY <1>2, <1>3
<1>5. PICK k \in 0 .. n : /\ Drained = SubSeq(channel, 1, k)
                          /\ k = n \/ (k > 0 /\ channel[k] = "eof")
  <2>1. CASE \E i \in 1 .. n : channel[i] = "eof"
    <3> DEFINE at == CHOOSE i \in 1 .. n : channel[i] = "eof"
    <3>1. at \in 1 .. n /\ channel[at] = "eof"
      BY <2>1
    <3>2. Drained = SubSeq(channel, 1, at)
      BY <2>1 DEF Drained, TakenOf
    <3> HIDE DEF at, n
    <3>3. at \in 0 .. n /\ at > 0
      BY <1>4, <3>1
    <3> QED BY <3>1, <3>2, <3>3
  <2>2. CASE ~ \E i \in 1 .. n : channel[i] = "eof"
    <3>1. Drained = SubSeq(channel, 1, n)
      BY <2>2 DEF Drained, TakenOf
    <3> QED BY <1>4, <3>1
  <2> QED BY <2>1, <2>2
<1>6. k \in Nat /\ k <= Len(channel) /\ Len(Drained) = k /\ Drained \in Seq(Events)
  BY <1>3, <1>4, <1>5
<1>7. SubSeq(channel, Len(Drained) + 1, Len(channel)) \in Seq(Events)
  BY <1>3, <1>6
<1>8. k > 0 /\ channel[k] = "eof" => "eof" \in ToSet(Drained)
  <2> SUFFICES ASSUME k > 0, channel[k] = "eof" PROVE "eof" \in ToSet(Drained)
    OBVIOUS
  <2>1. k \in DOMAIN Drained /\ Drained[k] = "eof"
    BY <1>3, <1>5, <1>6
  <2> QED BY <2>1 DEF ToSet
<1> QED BY <1>1, <1>2, <1>3, <1>4, <1>5, <1>6, <1>7, <1>8

\* What the drain leaves in the channel is left by a spent window.
LEMMA DrainKeeps == ASSUME WInv, DrainQueued PROVE WInv'
<1>1. /\ worker = "drain" /\ worker' = "plugins"
      /\ UNCHANGED <<signal, deadline, commands, closing, submitting, stopping, inbox, pump, capped, reader>>
  BY DEF DrainQueued, people, plugin
<1>2. CASE dropped
  <2>1. UNCHANGED <<channel, dropped, window, exit, writers, waiter>>
    BY <1>2 DEF DrainQueued, pane
  <2> QED BY <1>1, <1>2, <2>1 DEF WInv, WType, CommandsSeen, ClosesSeen, StopSeen, InboxSeen, ChannelSeen,
             DroppedIsOver, DeadlineKept, ChildWaited
<1>3. CASE ~dropped /\ exit' = Reported
  <2>1. channel' = <<>> /\ window' = NoWindow /\ "child" \notin writers'
    BY <1>3 DEF DrainQueued, DestroyPane
  <2>2. WType'
    BY <1>1, <1>3, <2>1, LimitAssumption
       DEF WInv, WType, Reported, NoWindow, ExitType, WindowType
  <2> QED BY <1>1, <1>3, <2>1, <2>2 DEF WInv, CommandsSeen, ClosesSeen, StopSeen, InboxSeen, ChannelSeen,
             DroppedIsOver, DeadlineKept, ChildWaited, Reported
<1>4. CASE ~dropped /\ exit' # Reported
  <2>1. /\ exit' = ExitAfter(Drained)
        /\ channel' = SubSeq(channel, Len(Drained) + 1, Len(channel))
        /\ window' = [CurrentWindow EXCEPT !.used = @ + Len(Drained)]
        /\ UNCHANGED <<dropped, writers, waiter>>
    BY <1>4 DEF DrainQueued
  <2>2. "eof" \notin ToSet(Drained)
    BY <1>4, <2>1 DEF ExitAfter
  <2>3. exit' \in ExitType
    BY <2>1, LimitAssumption DEF WInv, WType, ExitAfter, Reported, Draining, ExitType
  <2>4. window' \in WindowType /\ window'.used = CurrentWindow.used + Len(Drained)
    <3> DEFINE cw == CurrentWindow
               spent == Len(Drained)
    <3>1. /\ cw \in WindowType /\ spent \in Nat
          /\ cw.used + spent <= Budget
      BY DrainSpends DEF WInv
    <3>2. window' = [cw EXCEPT !.used = cw.used + spent]
      BY <2>1
    <3> HIDE DEF cw, spent
    <3>3. cw.used + spent \in 0 .. Budget
      BY <3>1, LimitAssumption DEF WindowType
    <3>4. window' \in WindowType /\ window'.used = cw.used + spent
      BY <3>1, <3>2, <3>3 DEF WindowType
    <3> QED BY <3>4 DEF cw, spent
  <2>5. channel' \in Seq(Events)
    BY <2>1, DrainSpends DEF WInv
  <2>6. channel' # <<>> => Len(Drained) < Len(channel)
    BY <2>1, DrainSpends DEF WInv, WType
  <2>7. channel' # <<>> => window'.used >= Budget
    BY <2>2, <2>4, <2>6, DrainSpends, LimitAssumption DEF WInv
  <2>8. WType'
    BY <1>1, <2>3, <2>4, <2>5 DEF WInv, WType
  <2> QED BY <1>1, <1>4, <2>1, <2>7, <2>8 DEF WInv, CommandsSeen, ClosesSeen, StopSeen, InboxSeen,
             ChannelSeen, DroppedIsOver, DeadlineKept, ChildWaited
<1> QED BY <1>2, <1>3, <1>4

\* What the dispatch leaves in the inbox is left by the plugin's cap.
LEMMA DispatchKeeps == ASSUME WInv, DispatchPluginCommands PROVE WInv'
<1>1. PICK n \in Nat : /\ n = IF inbox < PluginBudget THEN inbox ELSE PluginBudget
                       /\ inbox' = inbox - n /\ capped' = Capped(n)
  BY LimitAssumption DEF DispatchPluginCommands, WInv, WType
<1>2. inbox' \in Nat /\ (inbox' > 0 => n = PluginBudget)
  BY <1>1, LimitAssumption DEF WInv, WType
<1>3. n = PluginBudget => capped'
  BY <1>1, Zenon DEF Capped
<1> QED BY <1>2, <1>3 DEF DispatchPluginCommands, WInv, WType, CommandsSeen, ClosesSeen, StopSeen, InboxSeen,
           ChannelSeen, DroppedIsOver, DeadlineKept, ChildWaited, people, threads, pane

\* The earliest of the deadlines there are is a deadline.
LEMMA ParkKeeps == ASSUME WInv, Park PROVE WInv'
<1>1. Pace \in Nat /\ exit.left \in Nat /\ window.left \in Nat
  BY LimitAssumption DEF WInv, WType, ExitType, WindowType
<1>2. Deadlines \subseteq Nat
  BY <1>1 DEF Deadlines
<1>3. Deadlines # {} => \E d \in Deadlines : \A e \in Deadlines : d <= e
  BY <1>1 DEF Deadlines
<1>4. deadline' \in Nat \cup {None} /\ (deadline' = None => Deadlines = {})
  <2>1. CASE Deadlines = {}
    BY <2>1 DEF Park
  <2>2. CASE Deadlines # {}
    <3> DEFINE first == CHOOSE d \in Deadlines : \A e \in Deadlines : d <= e
    <3>1. first \in Deadlines
      BY <1>3, <2>2
    <3>2. deadline' = first
      BY <2>2 DEF Park
    <3> HIDE DEF first
    <3> QED BY <1>2, <2>2, <3>1, <3>2 DEF None
  <2> QED BY <2>1, <2>2
<1>5. Deadlines = {} => /\ ~capped
                        /\ ~dropped => ~(window.used >= Budget) /\ exit.phase # "draining"
  BY DEF Deadlines
<1>6. ~(window.used >= Budget) => window.used < Budget
  BY LimitAssumption DEF WInv, WType, WindowType
<1>7. /\ worker' = "parked"
      /\ UNCHANGED <<signal, people, plugin, threads, pane>>
  BY DEF Park
<1>8. DeadlineKept'
  BY <1>4, <1>5, <1>6, <1>7 DEF DeadlineKept, plugin, pane
<1> QED BY <1>4, <1>7, <1>8 DEF Park, WInv, WType, CommandsSeen, ClosesSeen, StopSeen, InboxSeen, ChannelSeen,
           DroppedIsOver, ChildWaited, people, plugin, threads, pane

\* A worker that wakes begins a pass, before everything that is queued.
LEMMA WakesKeeps == ASSUME WInv, Wakes PROVE WInv'
BY DEF Wakes, WInv, WType, CommandsSeen, ClosesSeen, StopSeen, InboxSeen, ChannelSeen, DroppedIsOver,
       DeadlineKept, ChildWaited, people, plugin, threads, pane

\* Time spends a window and a grace no faster than the parked wait.
LEMMA TickKeeps == ASSUME WInv, Tick PROVE WInv'
<1> DEFINE Less(m) == IF m > 0 THEN m - 1 ELSE m
<1>1. deadline' = Less(deadline) /\ deadline \in Nat \cup {None}
  BY DEF Tick, WInv, WType
<1>2. deadline' \in Nat \cup {None} /\ (deadline' = None => deadline = None)
  BY <1>1 DEF None
<1>3. window' \in WindowType /\ window'.used = window.used
  <2>1. window' = [window EXCEPT !.left = Less(window.left)]
    BY DEF Tick
  <2> QED BY <2>1 DEF WInv, WType, WindowType
<1>4. exit' \in ExitType /\ exit'.phase = exit.phase
  <2>1. exit' = [exit EXCEPT !.left = Less(exit.left)]
    BY DEF Tick
  <2> QED BY <2>1 DEF WInv, WType, ExitType
<1>5. UNCHANGED <<worker, signal, people, plugin, threads, channel, dropped>>
  BY DEF Tick
<1> QED BY <1>2, <1>3, <1>4, <1>5 DEF WInv, WType, CommandsSeen, ClosesSeen, StopSeen, InboxSeen, ChannelSeen,
           DroppedIsOver, DeadlineKept, ChildWaited, people, plugin, threads

\* Every step of the worker and of its producers keeps the invariant.
LEMMA NextKeeps == WInv /\ [Next]_vars => WInv'
<1> SUFFICES ASSUME WInv, [Next]_vars PROVE WInv'
  OBVIOUS
<1>1. CASE Pass
  BY <1>1, ClosesKeep, CommandsKeep, EndKeeps, DrainKeeps, DispatchKeeps, ParkKeeps, WakesKeeps DEF Pass
<1>2. CASE UNCHANGED vars
  BY <1>2 DEF vars, WInv, WType, CommandsSeen, ClosesSeen, StopSeen, InboxSeen, ChannelSeen, DroppedIsOver,
              DeadlineKept, ChildWaited, passing, people, plugin, threads, pane
<1> QED BY <1>1, <1>2, QueueingKeeps, SignalsKeep, ThreadsKeep, TickKeeps DEF Next

----------------------------------------------------------------------------
\* A worker parked without a deadline has nothing to do that nobody is about
\* to signal: the wake signal, the drain windows, the exit grace and the
\* plugins' pace together lose no wake-up.
THEOREM NoWakeupIsLost == Spec => []NoLostWakeup
<1>1. Init => WInv
  BY LimitAssumption
     DEF Init, WInv, WType, CommandsSeen, ClosesSeen, StopSeen, InboxSeen, ChannelSeen, DroppedIsOver,
         DeadlineKept, ChildWaited, Running, NoWindow, WindowType, ExitType, None
<1>2. WInv => NoLostWakeup
  <2> SUFFICES ASSUME WInv, worker = "parked", ~signal, deadline = None
               PROVE  /\ commands > 0 \/ closing => submitting > 0
                      /\ stopping # "set" => stopping = "no"
                      /\ inbox > 0 => pump = "wake"
                      /\ channel # <<>> => reader \in {"wake", "signing"} \/ waiter = "wake"
                      /\ exit.phase # "draining"
    BY DEF NoLostWakeup
  <2> QED BY LimitAssumption DEF WInv, WType, WindowType, CommandsSeen, ClosesSeen, StopSeen, InboxSeen,
             ChannelSeen, DroppedIsOver, DeadlineKept
<1> QED BY <1>1, <1>2, NextKeeps, PTL DEF Spec

----------------------------------------------------------------------------
(* The whole pane: every step of it is a step, or a stutter, of each half. *)

\* An input command is a command to the worker and a message to the queue; the
\* drop of the pane is the queue's close.
LEMMA StepsMap == [PTNext]_ptvars => [Next]_vars /\ [IQNext]_iqvars
<1> SUFFICES ASSUME [PTNext]_ptvars PROVE [Next]_vars /\ [IQNext]_iqvars
  OBVIOUS
<1>1. CASE Next /\ DropInput
  <2>1. Close \/ UNCHANGED iqvars
    BY <1>1 DEF DropInput
  <2> QED BY <1>1, <2>1 DEF IQNext
<1>2. CASE \E n \in Size : SendInput(n)
  <2>1. PICK n \in Size : SendInput(n)
    BY <1>2
  <2>2. TakeCommand /\ Enqueue(n)
    BY <2>1 DEF SendInput
  <2>3. Next /\ IQNext
    BY <2>2 DEF Next, Pass, IQNext
  <2> QED BY <2>3
<1>3. CASE WriterStep /\ UNCHANGED vars
  BY <1>3 DEF WriterStep, WriteReturns, IQNext
<1>4. CASE UNCHANGED ptvars
  BY <1>4 DEF ptvars
<1> QED BY <1>1, <1>2, <1>3, <1>4 DEF PTNext

\* The pane with all its threads implements the worker's specification and the
\* input queue's.
THEOREM PaneImplementsItsHalves == PTSpec => Spec /\ IQSpec
<1>1. PTInit => Init /\ IQInit
  BY DEF PTInit
<1> QED BY <1>1, StepsMap, PTL DEF PTSpec, Spec, IQSpec

\* So no wake-up of the worker is lost, the input counters are exact and input
\* stays in order when the three threads, the commands and the pane's end
\* interleave.
THEOREM PaneIsSound == PTSpec => [](NoLostWakeup /\ CountersExact /\ InOrder)
BY PaneImplementsItsHalves, NoWakeupIsLost, CountersAreExact, InputInOrder, PTL
=============================================================================
