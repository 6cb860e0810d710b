-------------------------- MODULE WorkflowTriggers --------------------------
(***************************************************************************)
(* The three built-in triggers that turn a finished planning run into      *)
(* Action Queue rows, for the runs of one org (every query is by org_id).  *)
(*                                                                         *)
(* The planning routes are coroutines of one event loop: between two       *)
(* awaits an evaluation has the loop to itself, and the only await is the  *)
(* LLM call that words a vendor message.  Owners' decisions come from      *)
(* synchronous routes, in other threads, between any two statements.       *)
(***************************************************************************)
EXTENDS Naturals, FiniteSets

CONSTANTS
    Runs,           \* planning runs whose response is evaluated
    Ingredients,    \* names of ingredients
    Plans,          \* what the triggers read in the plans' responses
    Picked,         \* ingredients an owner may draft a message about
    Owner,          \* author of a draft made from the vendor picker
    Free,           \* no evaluation has the event loop
    NoIngredient    \* the row is not about one ingredient

ASSUME DistinctAssumption ==
    /\ Owner \notin Runs
    /\ Free \notin Runs
    /\ NoIngredient \notin Ingredients

\* What the triggers read in a plan's response.
Plan == [critical : SUBSET Ingredients,     \* critical shortages
         spoiling : BOOLEAN,                \* an overstock item is a spoilage risk
         contested : BOOLEAN]               \* a busy night and two deals nearby
NoPlan == [critical |-> {}, spoiling |-> FALSE, contested |-> FALSE]

ASSUME InputAssumption == Plans \subseteq Plan /\ Picked \subseteq Ingredients

VARIABLES
    pending,    \* rows of the queue that are pending
    decided,    \* rows that have been approved or rejected
    run,        \* the evaluations
    loop,       \* the evaluation that has the event loop
    overlaps    \* history: pairs of runs that were both past the check for a
                \* pending restock alert and before its creation

vars == <<pending, decided, run, loop, overlaps>>

Restock == "restock_alert"
Draft == "whatsapp_vendor_order"
Overstock == "overstock_alert"
Pricing == "pricing_promo_review"
Categories == {Restock, Draft, Overstock, Pricing}

\* A row is known by what it is about and by the run that created it: a run
\* creates one of each.
Row == [category : Categories, by : Runs \cup {Owner},
        ingredient : Ingredients \cup {NoIngredient}]
Rows == pending \cup decided
RowOf(c, r) == [category |-> c, by |-> r, ingredient |-> NoIngredient]
DraftOf(i, r) == [category |-> Draft, by |-> r, ingredient |-> i]

\* Where an evaluation stands; "clear" follows a check that found nothing.
Stages == {"waiting", "shortages", "asking", "asked", "overstock", "overstock clear",
           "pricing", "pricing clear", "done", "failed"}
Ended == {"done", "failed"}
Started == Stages \ ({"waiting"} \cup Ended)

Evaluation == [at : Stages, plan : Plan,
               todo : SUBSET Ingredients,               \* shortages still to handle
               item : Ingredients \cup {NoIngredient},  \* the draft being worded
               reachable : SUBSET Ingredients,          \* history: a vendor was found
               saw : SUBSET Categories]                 \* history: found pending

TypeOK ==
    /\ pending \subseteq Row /\ decided \subseteq Row
    /\ run \in [Runs -> Evaluation]
    /\ loop \in Runs \cup {Free}
    /\ overlaps \subseteq {{r, s} : r, s \in Runs}

Init ==
    /\ pending = {} /\ decided = {}
    /\ run = [r \in Runs |-> [at |-> "waiting", plan |-> NoPlan, todo |-> {},
                              item |-> NoIngredient, reachable |-> {}, saw |-> {}]]
    /\ loop = Free
    /\ overlaps = {}

-----------------------------------------------------------------------------

HasPending(c) == \E row \in pending : row.category = c

\* Insert a pending row; each insert is committed on its own.
CreateAction(row) == pending' = pending \cup {row} /\ UNCHANGED decided

\* Mutant of Begin: an alert that is already pending is not looked for.
BeginUnchecked(r, plan) ==
    /\ run[r].at = "waiting" /\ loop = Free
    /\ LET raise == Cardinality(plan.critical) >= 2 IN
       /\ run' = [run EXCEPT ![r].at = IF raise THEN "shortages" ELSE "overstock",
                             ![r].plan = plan,
                             ![r].todo = IF raise THEN plan.critical ELSE {}]
       /\ overlaps' = IF raise
                      THEN overlaps \cup {{r, s} : s \in {q \in Runs : run[q].at = "asking"}}
                      ELSE overlaps
    /\ loop' = r
    /\ UNCHANGED <<pending, decided>>

-----------------------------------------------------------------------------
(* Trigger 1: two or more critical shortages *)

\* A run's response is there: unless a restock alert is pending, two critical
\* shortages get their drafts and an alert.
Begin(r, plan) ==
    /\ run[r].at = "waiting" /\ loop = Free
    /\ LET raise == ~HasPending(Restock) /\ Cardinality(plan.critical) >= 2 IN
       /\ run' = [run EXCEPT
            ![r].at = IF raise THEN "shortages" ELSE "overstock",
            ![r].plan = plan,
            ![r].todo = IF raise THEN plan.critical ELSE {},
            ![r].saw = IF HasPending(Restock) THEN {Restock} ELSE {}]
       /\ overlaps' = IF raise
                      THEN overlaps \cup {{r, s} : s \in {q \in Runs : run[q].at = "asking"}}
                      ELSE overlaps
    /\ loop' = r
    /\ UNCHANGED <<pending, decided>>

\* No vendor to message, or the lookup failed: the shortage is only listed.
FindNoVendor(r, i) ==
    /\ loop = r /\ run[r].at = "shortages" /\ i \in run[r].todo
    /\ run' = [run EXCEPT ![r].todo = @ \ {i}]
    /\ UNCHANGED <<pending, decided, loop, overlaps>>

\* There is a vendor: the message is worded by the LLM, which gives up the loop.
AskLLM(r, i) ==
    /\ loop = r /\ run[r].at = "shortages" /\ i \in run[r].todo
    /\ run' = [run EXCEPT ![r].at = "asking", ![r].item = i, ![r].reachable = @ \cup {i}]
    /\ loop' = Free
    /\ UNCHANGED <<pending, decided, overlaps>>

\* Mutant of Answer: no draft when the call fails.
AnswerOrGiveUp(r) ==
    /\ loop = Free /\ run[r].at = "asking"
    /\ \/ run' = [run EXCEPT ![r].at = "asked"]
       \/ run' = [run EXCEPT ![r].at = "shortages", ![r].todo = @ \ {run[r].item},
                             ![r].item = NoIngredient]
    /\ loop' = r
    /\ UNCHANGED <<pending, decided, overlaps>>

\* The answer or, when the call fails, the template.
Answer(r) ==
    /\ loop = Free /\ run[r].at = "asking"
    /\ run' = [run EXCEPT ![r].at = "asked"]
    /\ loop' = r
    /\ UNCHANGED <<pending, decided, overlaps>>

CreateDraft(r) ==
    /\ loop = r /\ run[r].at = "asked"
    /\ CreateAction(DraftOf(run[r].item, r))
    /\ run' = [run EXCEPT ![r].at = "shortages", ![r].todo = @ \ {run[r].item},
                          ![r].item = NoIngredient]
    /\ UNCHANGED <<loop, overlaps>>

\* Mutant of CreateAlert: drafts take the place of the alert.
CreateAlertUnlessDrafted(r) ==
    /\ loop = r /\ run[r].at = "shortages" /\ run[r].todo = {}
    /\ IF run[r].reachable = {} THEN CreateAction(RowOf(Restock, r))
       ELSE UNCHANGED <<pending, decided>>
    /\ run' = [run EXCEPT ![r].at = "overstock"]
    /\ UNCHANGED <<loop, overlaps>>

\* The alert comes last, when every shortage has been handled.
CreateAlert(r) ==
    /\ loop = r /\ run[r].at = "shortages" /\ run[r].todo = {}
    /\ CreateAction(RowOf(Restock, r))
    /\ run' = [run EXCEPT ![r].at = "overstock"]
    /\ UNCHANGED <<loop, overlaps>>

-----------------------------------------------------------------------------
(* Triggers 3 and 2, in the order of evaluate_and_queue; neither awaits *)

\* Mutant of CheckOverstock: the loop is given up between check and creation.
CheckOverstockAndYield(r) ==
    /\ loop = r /\ run[r].at = "overstock"
    /\ run' = [run EXCEPT
            ![r].at = IF ~HasPending(Overstock) /\ run[r].plan.spoiling
                      THEN "overstock clear" ELSE "pricing"]
    /\ loop' = Free
    /\ UNCHANGED <<pending, decided, overlaps>>

\* Mutant of CheckOverstock: the evaluation returns when there is no overstock.
CheckOverstockOrReturn(r) ==
    /\ loop = r /\ run[r].at = "overstock"
    /\ LET raise == ~HasPending(Overstock) /\ run[r].plan.spoiling IN
       /\ run' = [run EXCEPT
            ![r].at = IF raise THEN "overstock clear" ELSE "done",
            ![r].saw = IF HasPending(Overstock) THEN @ \cup {Overstock} ELSE @]
       /\ loop' = IF raise THEN r ELSE Free
    /\ UNCHANGED <<pending, decided, overlaps>>

CheckOverstock(r) ==
    /\ loop = r /\ run[r].at = "overstock"
    /\ run' = [run EXCEPT
            ![r].at = IF ~HasPending(Overstock) /\ run[r].plan.spoiling
                      THEN "overstock clear" ELSE "pricing",
            ![r].saw = IF HasPending(Overstock) THEN @ \cup {Overstock} ELSE @]
    /\ UNCHANGED <<pending, decided, loop, overlaps>>

CreateOverstock(r) ==
    /\ loop = r /\ run[r].at = "overstock clear"
    /\ CreateAction(RowOf(Overstock, r))
    /\ run' = [run EXCEPT ![r].at = "pricing"]
    /\ UNCHANGED <<loop, overlaps>>

CheckPricing(r) ==
    /\ loop = r /\ run[r].at = "pricing"
    /\ LET raise == ~HasPending(Pricing) /\ run[r].plan.contested IN
       /\ run' = [run EXCEPT
            ![r].at = IF raise THEN "pricing clear" ELSE "done",
            ![r].saw = IF HasPending(Pricing) THEN @ \cup {Pricing} ELSE @]
       /\ loop' = IF raise THEN r ELSE Free
    /\ UNCHANGED <<pending, decided, overlaps>>

CreatePricing(r) ==
    /\ loop = r /\ run[r].at = "pricing clear"
    /\ CreateAction(RowOf(Pricing, r))
    /\ run' = [run EXCEPT ![r].at = "done"]
    /\ loop' = Free
    /\ UNCHANGED overlaps

-----------------------------------------------------------------------------
\* A statement raises, and the route swallows the exception: what has been
\* committed stays.
Fail(r) ==
    /\ loop = r
    /\ run' = [run EXCEPT ![r].at = "failed"]
    /\ loop' = Free
    /\ UNCHANGED <<pending, decided, overlaps>>

\* The process stops, with every evaluation in it.
Crash ==
    /\ \E r \in Runs : run[r].at \in Started
    /\ run' = [r \in Runs |-> IF run[r].at \in Started THEN [run[r] EXCEPT !.at = "failed"]
                              ELSE run[r]]
    /\ loop' = Free
    /\ UNCHANGED <<pending, decided, overlaps>>

\* The owner approves or rejects a row, from another thread.
Decide(row) ==
    /\ row \in pending
    /\ pending' = pending \ {row}
    /\ decided' = decided \cup {row}
    /\ UNCHANGED <<run, loop, overlaps>>

\* The owner drafts a message with the vendor picker; at most one draft of an
\* owner's per ingredient (bound).
create_vendor_message(i) ==
    /\ loop = Free
    /\ DraftOf(i, Owner) \notin Rows
    /\ CreateAction(DraftOf(i, Owner))
    /\ UNCHANGED <<run, loop, overlaps>>

Step(r) ==
    \/ \E i \in Ingredients : FindNoVendor(r, i) \/ AskLLM(r, i)
    \/ Answer(r) \/ CreateDraft(r) \/ CreateAlert(r)
    \/ CheckOverstock(r) \/ CreateOverstock(r)
    \/ CheckPricing(r) \/ CreatePricing(r)

Next ==
    \/ \E r \in Runs : (\E plan \in Plans : Begin(r, plan)) \/ Step(r) \/ Fail(r)
    \/ Crash
    \/ \E row \in pending : Decide(row)
    \/ \E i \in Picked : create_vendor_message(i)

Spec == Init /\ [][Next]_vars

-----------------------------------------------------------------------------
(* Properties *)

\* However many runs are evaluated, and whatever owners decide meanwhile, at
\* most one overstock warning and at most one pricing review are pending:
\* between _has_pending and create_action there is no await.
OnePending ==
    \A c \in {Overstock, Pricing} : \A x, y \in pending :
        x.category = c /\ y.category = c => x = y

\* Two restock alerts are pending at once only if their runs overlapped: the
\* one that began later did so while the other waited for the LLM.
RestockDuplicatesOverlap ==
    \A r, s \in Runs :
        r # s /\ RowOf(Restock, r) \in pending /\ RowOf(Restock, s) \in pending
            => {r, s} \in overlaps

\* A vendor gets a second draft for an ingredient, while the first is pending,
\* only by two overlapping runs, or after a run that failed before its alert,
\* or after the first run's alert has been decided.
RepeatedDraftsExplained ==
    \A r, s \in Runs, i \in Ingredients :
        r # s /\ DraftOf(i, r) \in pending /\ DraftOf(i, s) \in pending =>
            \/ {r, s} \in overlaps
            \/ \E q \in {r, s} : run[q].at = "failed" /\ RowOf(Restock, q) \notin Rows
            \/ \E q \in {r, s} : RowOf(Restock, q) \in decided

\* An alert never stands alone: each shortage that had a vendor has its draft;
\* and drafts stand without an alert only while their run is at work, or when
\* it failed.
AlertAndDrafts ==
    \A r \in Runs :
        /\ RowOf(Restock, r) \in Rows =>
            \A i \in run[r].reachable : DraftOf(i, r) \in Rows
        /\ run[r].at = "done" /\ run[r].reachable # {} => RowOf(Restock, r) \in Rows

\* An evaluation that ends without failing has left a row for everything its
\* plan calls for, or found one of that category pending.
NothingMissed ==
    \A r \in Runs : run[r].at = "done" =>
        LET raised(c) == RowOf(c, r) \in Rows \/ c \in run[r].saw IN
        /\ Cardinality(run[r].plan.critical) >= 2 => raised(Restock)
        /\ run[r].plan.spoiling => raised(Overstock)
        /\ run[r].plan.contested => raised(Pricing)

-----------------------------------------------------------------------------
(* The inductive invariant *)

\* Only the evaluation that has the loop is between two awaits.
LoopInv ==
    \A r \in Runs : run[r].at \in Started \ {"asking"} => loop = r

\* After a check that found nothing there is still nothing: only the evaluation
\* with the loop creates rows of these categories.
ClearInv ==
    \A r \in Runs :
        /\ run[r].at = "overstock clear" => ~HasPending(Overstock)
        /\ run[r].at = "pricing clear" => ~HasPending(Pricing)

CheckInv == TypeOK /\ LoopInv /\ ClearInv /\ OnePending

\* Between the check for a pending restock alert and its creation, and after.
Handling == {"shortages", "asking", "asked"}
Past == {"overstock", "overstock clear", "pricing", "pricing clear", "done"}

\* A run that handles shortages overlaps with each other one that does, and with
\* each whose alert is pending.
OverlapInv ==
    \A r, s \in Runs :
        r # s /\ run[r].at \in Handling
        /\ (run[s].at \in Handling \/ RowOf(Restock, s) \in pending)
            => {r, s} \in overlaps

\* The drafts and the alert that run r, whose evaluation is e, has among these rows:
\* a draft for each vendor it has found, but for the one being worded, and
\* then an alert.
Drafted(e, r, rows) ==
    /\ e.at = "waiting" => e.reachable = {}
    /\ RowOf(Restock, r) \in rows => e.at \in Past \cup {"failed"}
    /\ e.at \in Handling \/ RowOf(Restock, r) \in rows =>
        \A i \in e.reachable :
            DraftOf(i, r) \in rows \/ (i = e.item /\ e.at \in {"asking", "asked"})
    /\ e.at \in Past /\ e.reachable # {} => RowOf(Restock, r) \in rows
    /\ \A i \in Ingredients : DraftOf(i, r) \in rows =>
        e.at \in Handling \cup {"failed"} \/ RowOf(Restock, r) \in rows

\* What run r has raised of its plan, or found raised, so far.
Raised(e, r, rows) ==
    LET raised(c) == RowOf(c, r) \in rows \/ c \in e.saw IN
    /\ e.at \in Past /\ Cardinality(e.plan.critical) >= 2 => raised(Restock)
    /\ e.at \in {"pricing", "pricing clear", "done"} /\ e.plan.spoiling => raised(Overstock)
    /\ e.at = "done" /\ e.plan.contested => raised(Pricing)

HistoryInv ==
    /\ OverlapInv /\ RestockDuplicatesOverlap /\ RepeatedDraftsExplained
    /\ \A r \in Runs : Drafted(run[r], r, Rows) /\ Raised(run[r], r, Rows)

IInv == CheckInv /\ HistoryInv
=============================================================================
