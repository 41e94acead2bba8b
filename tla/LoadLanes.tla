----------------------------- MODULE LoadLanes ------------------------------
(***************************************************************************)
(* What a project relies on when it asks for something to be read from git *)
(* in the background: one request per lane, the newest; replies in the     *)
(* order the requests were taken up; a request that was replaced may still *)
(* be answered if it had been taken up, and is otherwise forgotten; the    *)
(* newest request of a lane is answered unless it is withdrawn or the      *)
(* project is closed. GitLoads implements it, GitViews builds on it.       *)
(***************************************************************************)
EXTENDS Naturals, Sequences

CONSTANTS Lanes      \* lanes are numbered as LoadLane::index numbers them

VARIABLES
    asked,     \* per lane, the generation waiting to be taken up, or 0
    newest,    \* per lane, the generation of the last request or withdrawal
    inHand,    \* what has been taken up: [lane, gen], or Nothing
    replies,   \* replies not yet fetched
    closed     \* the project was closed

llvars == <<asked, newest, inHand, replies, closed>>

Nothing == [lane |-> 0, gen |-> 0]

LLInit ==
    /\ asked = [l \in Lanes |-> 0]
    /\ newest = [l \in Lanes |-> 0]
    /\ inHand = Nothing
    /\ replies = <<>>
    /\ closed = FALSE

\* GitLoadWorker::submit, Pending::replace.
Ask(l, gen) ==
    /\ gen > newest[l]
    /\ asked' = IF closed THEN asked ELSE [asked EXCEPT ![l] = gen]
    /\ newest' = IF closed THEN newest ELSE [newest EXCEPT ![l] = gen]
    /\ UNCHANGED <<inHand, replies, closed>>

\* GitLoadWorker::cancel.
Withdraw(l, gen) ==
    /\ gen > newest[l]
    /\ asked' = [asked EXCEPT ![l] = 0]
    /\ newest' = [newest EXCEPT ![l] = gen]
    /\ UNCHANGED <<inHand, replies, closed>>

TakeUp(l) ==
    /\ inHand = Nothing
    /\ asked[l] # 0
    /\ inHand' = [lane |-> l, gen |-> asked[l]]
    /\ asked' = [asked EXCEPT ![l] = 0]
    /\ UNCHANGED <<newest, replies, closed>>

\* What was taken up is dropped only when it is no longer the newest.
Drop ==
    /\ inHand # Nothing
    /\ closed \/ newest[inHand.lane] # inHand.gen
    /\ inHand' = Nothing
    /\ UNCHANGED <<asked, newest, replies, closed>>

Reply ==
    /\ inHand # Nothing
    /\ inHand' = Nothing
    /\ replies' = IF closed THEN replies ELSE Append(replies, inHand)
    /\ UNCHANGED <<asked, newest, closed>>

Fetch ==
    /\ replies # <<>>
    /\ replies' = Tail(replies)
    /\ UNCHANGED <<asked, newest, inHand, closed>>

CloseProject ==
    /\ ~closed
    /\ closed' = TRUE
    /\ UNCHANGED <<asked, newest, inHand, replies>>

LLNext ==
    \/ \E l \in Lanes : TakeUp(l) \/ Ask(l, newest'[l]) \/ Withdraw(l, newest'[l])
    \/ Drop \/ Reply \/ Fetch \/ CloseProject

LLSafety == LLInit /\ [][LLNext]_llvars

\* The newest request of a lane is waiting or in hand.
Outstanding(l) ==
    ~closed /\ (asked[l] # 0 \/ (inHand # Nothing /\ inHand = [lane |-> l, gen |-> newest[l]]))

\* It does not stay so.
NewestAnswered == \A l \in Lanes : []<>~Outstanding(l)

LLSpec == LLSafety /\ NewestAnswered
=============================================================================
