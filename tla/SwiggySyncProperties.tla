------------------------ MODULE SwiggySyncProperties ------------------------
(* What the breaker and the sync promise.                                    *)
EXTENDS SwiggySync

(* While the counter has an expiry it counts no failure older than the       *)
(* window, whatever was deleted, created again and expired by other callers  *)
(* between the INCR and the EXPIRE of one (circuit_breaker.py:58).           *)
CountIsRecent == failTtl # Never => count <= within[WINDOW]

(* An open circuit closes again, although calls sent before it opened may    *)
(* still fail and open it anew (circuit_breaker.py:5, 67).                   *)
OpenCloses == (openTtl > 0) ~> (openTtl = 0)

(* Two rows of feedback for one order come from syncs that overlapped: the   *)
(* lookup is before the calls that track the order, the insert after, and no *)
(* constraint of the table forbids it (feedback_sync.py:77).                 *)
FeedbackDuplicatesOverlap ==
  \A f, g \in feedback : f.order = g.order /\ f # g =>
    f.by \notin before[g.by] /\ g.by \notin before[f.by]

(* The connector shows "syncing", which routes requests to Swiggy, only      *)
(* while a sync runs, or since one was cut short by a crash or could not     *)
(* report on a Session that a failed statement had broken: every other end   *)
(* of a sync, on whatever answers and exceptions, reports itself, whichever  *)
(* syncs overlap (swiggy_connector.py:55-91).                                *)
SyncingExplained ==
  status = "syncing" => \E p \in Callers : Running(p) \/ step[p] \in {"dead", "broken"}

-----------------------------------------------------------------------------
(* The inductive invariant behind the first: a counter whose expiry is still *)
(* to be set is of this tick, and one that has been set to go in t ticks has *)
(* counted only since, which is WINDOW - t ticks ago.                        *)
ClientTypeOK ==
  /\ count \in Nat /\ openTtl \in Nat /\ failTtl \in (0 .. WINDOW) \cup {Never}
  /\ DOMAIN call = Callers
  /\ within \in [1 .. WINDOW -> Nat]

BreakerInv ==
  /\ ClientTypeOK
  /\ \A m, n \in 1 .. WINDOW : m <= n => within[m] <= within[n]
  /\ failTtl = 0 => count = 0
  /\ \A p \in Callers : call[p] = "expire" => count <= within[1]
  /\ failTtl \in 1 .. WINDOW => count <= within[WINDOW - failTtl + 1]

-----------------------------------------------------------------------------
(* The inductive invariant behind the last two: which syncs were over when   *)
(* one began, and what one that tracks an order may find when it is done.    *)
Steps == {"idle", "orders", "feedback", "choose", "track", "ended", "dead", "broken"}

TypeOK ==
  /\ step \in [Callers -> Steps]
  /\ left \in [Callers -> SUBSET Orders]
  /\ DOMAIN tracking = Callers
  /\ before \in [Callers -> SUBSET Callers]
  /\ status \in {"never_synced", "syncing", "success", "error"}
  /\ imported \subseteq Orders

\* Nobody began after the end of a sync that has not ended.
BeforeAreOver == \A p \in Callers : \A q \in before[p] : Over(q)

\* A row is from a sync that has begun and had not ended before itself.
RowsFit == \A f \in feedback : f.by \in Callers /\ step[f.by] # "idle"

\* What is there of the order p tracks was not there when p began.
TrackedIsNew ==
  \A p \in Callers : step[p] = "track" =>
    \A f \in feedback : f.order = tracking[p] => f.by \notin before[p]

\* A sync is not over before it begins.
NotBeforeItself == \A p \in Callers : p \notin before[p]

IInv ==
  /\ TypeOK /\ BeforeAreOver /\ RowsFit /\ TrackedIsNew /\ NotBeforeItself
  /\ FeedbackDuplicatesOverlap /\ SyncingExplained
=============================================================================
