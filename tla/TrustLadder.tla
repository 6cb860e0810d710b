---------------------------- MODULE TrustLadder -----------------------------
(***************************************************************************)
(* The trust ladder: the "approved N times in a row" badge of one category *)
(* of one org, counted from the action_queue rows of that category.  The   *)
(* rows carry no time of decision, so the count goes by the time of        *)
(* creation, while owners decide in any order and may decide again.        *)
(***************************************************************************)
EXTENDS Naturals, Sequences, FiniteSets

CONSTANTS
    MaxRows,        \* bound: rows ever created
    MaxDecisions    \* bound: decisions ever made

VARIABLES
    statuses,   \* statuses of the rows, by creation time
    decisions   \* history: the decisions, by the time they were made

ladder == <<statuses, decisions>>

\* The statuses that count as decided.
Decided == {"approved", "executed", "rejected"}
Verdict == {"approved", "rejected"}

LadderInit == statuses = <<>> /\ decisions = <<>>

-----------------------------------------------------------------------------
\* Mutant of Counted: pending rows take part in the count.
CountedWithPending(rows) == DOMAIN rows

\* The rows of the query.
Counted(rows) == {i \in DOMAIN rows : rows[i] \in Decided}

\* Mutant of AfterLastRejection: an executed action ends the streak.
AfterLastUnapproved(s, among) ==
    {i \in among : \A j \in among : j >= i => s[j] = "approved"}

\* Of these places of a sequence, those the loop meets before a rejected one,
\* from the newest on.
AfterLastRejection(s, among) ==
    {i \in among : \A j \in among : j >= i => s[j] # "rejected"}

count_consecutive_approvals == Cardinality(AfterLastRejection(statuses, Counted(statuses)))

-----------------------------------------------------------------------------
NewRow ==
    /\ Len(statuses) < MaxRows
    /\ statuses' = Append(statuses, "pending")
    /\ UNCHANGED decisions

\* Approving and rejecting write the status, whatever it was.
Decide(i, v) ==
    /\ Len(decisions) < MaxDecisions
    /\ statuses' = [statuses EXCEPT ![i] = v]
    /\ decisions' = Append(decisions, [row |-> i, verdict |-> v])

\* The send step of an approved vendor order marks the row executed, whatever
\* was decided since the approval.
Execute(i) ==
    /\ \E k \in DOMAIN decisions : decisions[k] = [row |-> i, verdict |-> "approved"]
    /\ statuses' = [statuses EXCEPT ![i] = "executed"]
    /\ UNCHANGED decisions

LadderNext ==
    \/ NewRow
    \/ \E i \in DOMAIN statuses : (\E v \in Verdict : Decide(i, v)) \/ Execute(i)

LadderSpec == LadderInit /\ [][LadderNext]_ladder

-----------------------------------------------------------------------------
(* Properties *)

Verdicts == [k \in DOMAIN decisions |-> decisions[k].verdict]

\* Each action was decided once, and older actions before newer ones.
DecidedInOrder ==
    \A j, k \in DOMAIN decisions : j < k => decisions[j].row < decisions[k].row

\* When the owner works through the queue from the oldest action to the newest,
\* the badge is the number of approvals since the last rejection, with any
\* number of actions still pending in between.
AgreesInOrder ==
    DecidedInOrder =>
        count_consecutive_approvals = Cardinality(AfterLastRejection(Verdicts, DOMAIN Verdicts))

\* Whatever the order: approving an action, or executing an approved one, never
\* shortens the streak, rejecting one never lengthens it, and a new action
\* leaves it alone.
StreakMoves ==
    [][ /\ \A i \in DOMAIN statuses : Decide(i, "rejected") =>
                count_consecutive_approvals' <= count_consecutive_approvals
        /\ \A i \in DOMAIN statuses : Decide(i, "approved") \/ Execute(i) =>
                count_consecutive_approvals' >= count_consecutive_approvals
        /\ NewRow => count_consecutive_approvals' = count_consecutive_approvals
      ]_ladder

-----------------------------------------------------------------------------
(* The inductive invariant behind the first: a row is pending until it is    *)
(* decided, and while the decisions come in order a row says rejected exactly*)
(* if its decision does.                                                     *)
LadderTypeOK ==
    /\ statuses \in Seq(Decided \cup {"pending"})
    /\ decisions \in Seq([row : Nat, verdict : Verdict])
    /\ \A k \in DOMAIN decisions : decisions[k].row \in DOMAIN statuses

LadderInv ==
    /\ LadderTypeOK
    /\ \A i \in DOMAIN statuses :
          statuses[i] # "pending" <=> \E k \in DOMAIN decisions : decisions[k].row = i
    /\ DecidedInOrder =>
          \A k \in DOMAIN decisions :
            statuses[decisions[k].row] = "rejected" <=> decisions[k].verdict = "rejected"
=============================================================================
