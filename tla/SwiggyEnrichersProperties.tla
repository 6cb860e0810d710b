---------------------- MODULE SwiggyEnrichersProperties ----------------------
(* What the enrichers promise of the calls they make and of their results.   *)
EXTENDS SwiggyEnrichers

Results == {job[e].result : e \in {f \in Enrichments : job[f].at = "done"}} \ {None}
Competitor == {x \in Results : x.kind = "competitor"}
Occupancy == {x \in Results : x.kind = "occupancy"}

(* What an enrichment returns was read for the same organization.  When it   *)
(* was read for another cuisine, menu or list of shortages, it comes from    *)
(* the cache, whose key has only the organization and the day, and is no     *)
(* older than its entry may be (competitor.py:117; occupancy.py:114;         *)
(* procurement.py:152).                                                      *)
AnswersExplained ==
  \A e \in Enrichments : job[e].at = "done" /\ job[e].result # None =>
    LET x == job[e].result
    IN  /\ x.kind = job[e].ctx.kind /\ x.ctx.org = job[e].ctx.org
        /\ job[e].fetched => x.ctx = job[e].ctx
        /\ job[e].since - x.at < TTL

(* Sponsored restaurants have no part in any number, nor closed ones in the  *)
(* prices; none counts twice though both pages list it, or one lists it      *)
(* twice, and menus and deals are of competitors that were found             *)
(* (competitor.py:206-228; occupancy.py:251).                                *)
OnlyNeighboursCount ==
  /\ \A e \in Enrichments : job[e].at \in {"found", "menus", "coupons"} =>
       /\ IsInjective(job[e].found)
       /\ job[e].menus \cup job[e].read \subseteq Range(job[e].found)
  /\ \A x \in Competitor : x.from \subseteq Rivals /\ x.menus \cup x.dealing \subseteq x.from
  /\ \A x \in Occupancy : x.from \cup x.dealing \subseteq Unsponsored

-----------------------------------------------------------------------------
(* The inductive invariant behind the first: at which stages an enrichment   *)
(* of each kind may be, and what an entry of the cache is filed under.       *)
StageKind ==
  [competitor |-> "competitor", found |-> "competitor", menus |-> "competitor",
   coupons |-> "competitor", occupancy |-> "occupancy", slots |-> "occupancy",
   procurement |-> "procurement", searching |-> "procurement"]

Fields == {"at", "ctx", "since", "todo", "found", "read", "menus", "calls", "result", "fetched"}

\* The result of job j, if there is one, was read for j or found in the cache.
ResultFits(j) ==
  j.result # None =>
    /\ j.result.kind = j.ctx.kind /\ j.result.ctx.org = j.ctx.org
    /\ j.fetched => j.result.ctx = j.ctx
    /\ j.result.at \in Nat /\ j.since - j.result.at < TTL

JobFits(j) ==
  j # NoJob =>
    /\ DOMAIN j = Fields
    /\ j.ctx \in Contexts
    /\ j.since \in Nat /\ j.since <= clock
    /\ \/ j.at \in DOMAIN StageKind /\ StageKind[j.at] = j.ctx.kind
       \/ j.at = "done" /\ ResultFits(j)

EntryFits(x) ==
  /\ x.key = <<x.result.kind, x.result.ctx.org>>
  /\ x.result.at \in Nat /\ x.until = x.result.at + TTL

IInv ==
  /\ clock \in Nat /\ DOMAIN job = Enrichments
  /\ \A e \in Enrichments : JobFits(job[e])
  /\ \A x \in cache : EntryFits(x)

-----------------------------------------------------------------------------
(* The inductive invariant behind the second: what is still to be asked is   *)
(* of those that were found, and what was stored was found so, too.          *)
ResultClean(x) ==
  /\ x.kind = "competitor" => x.from \subseteq Rivals /\ x.menus \cup x.dealing \subseteq x.from
  /\ x.kind = "occupancy" => x.from \cup x.dealing \subseteq Unsponsored

JobClean(j) ==
  /\ j.at \in {"competitor", "found", "menus", "coupons"} =>
       /\ j.found \in Seq(Rivals) /\ IsInjective(j.found)
       /\ j.menus \cup j.read \subseteq Range(j.found)
  /\ j.at = "competitor" => j.calls \in {0, 1}
  /\ j.at \in {"menus", "coupons"} => j.todo \in Seq(Range(j.found))
  /\ j.at = "slots" => j.found \in Seq(Unsponsored) /\ j.todo \in Seq(Unsponsored)
  /\ j.at \in {"occupancy", "slots"} => j.read \subseteq Unsponsored
  /\ j.at = "done" /\ j.result # None => ResultClean(j.result)

CleanInv ==
  /\ \A e \in Enrichments : JobClean(job[e])
  /\ \A x \in cache : ResultClean(x.result)
=============================================================================
