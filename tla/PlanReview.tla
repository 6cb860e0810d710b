----------------------------- MODULE PlanReview -----------------------------
(***************************************************************************)
(* What a planning run promises, with no graph, channel or agent in sight: *)
(* a draft plan is reviewed before anything else happens to it, a draft    *)
(* that is not approved is redone a bounded number of times, and only a    *)
(* reviewed draft is published, namely the latest one, either approved or  *)
(* after the last attempt.  A run may be abandoned at any time.            *)
(*                                                                         *)
(* PlanningGraph implements this specification.                            *)
(***************************************************************************)
EXTENDS Naturals

CONSTANTS
    MaxDrafts,      \* how often a plan may be drafted
    Verdicts,       \* what a review may say
    None            \* not reviewed yet

VARIABLES
    draft,      \* the number of the latest draft, 0 before the first
    verdict,    \* the verdict on the latest draft
    stage       \* "working", "published" or "abandoned"

vars == <<draft, verdict, stage>>

Init == draft = 0 /\ verdict = None /\ stage = "working"

\* The first draft, or another one after a verdict that was not an approval.
Draft ==
    /\ stage = "working"
    /\ draft = 0 \/ (verdict # None /\ verdict # "approved")
    /\ draft < MaxDrafts
    /\ draft' = draft + 1
    /\ verdict' = None
    /\ UNCHANGED stage

\* One review of each draft.
Review ==
    /\ stage = "working"
    /\ draft > 0 /\ verdict = None
    /\ verdict' \in Verdicts
    /\ UNCHANGED <<draft, stage>>

Publish ==
    /\ stage = "working"
    /\ verdict # None
    /\ verdict = "approved" \/ draft = MaxDrafts
    /\ stage' = "published"
    /\ UNCHANGED <<draft, verdict>>

Abandon ==
    /\ stage = "working"
    /\ stage' = "abandoned"
    /\ UNCHANGED <<draft, verdict>>

Next == Draft \/ Review \/ Publish \/ Abandon

Spec == Init /\ [][Next]_vars
=============================================================================
