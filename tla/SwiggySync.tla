----------------------------- MODULE SwiggySync -----------------------------
(* POST /connectors/swiggy/sync: SwiggyConnector.sync imports the orders of  *)
(* the Swiggy account, then the delivery feedback of each, then reports in   *)
(* the connector row.  Every call goes through SwiggyClient.  Reservations   *)
(* are left out: no booking is ever registered, so that part of a sync has   *)
(* nothing to do.                                                            *)
EXTENDS SwiggyClient

CONSTANT Orders   \* the delivered orders of the account

VARIABLES
  step,       \* step[p]: where sync p is
  left,       \* left[p]: orders whose feedback sync p has yet to look at
  tracking,   \* tracking[p]: the order sync p is tracking
  before,     \* history: before[p]: the syncs that were over when p began
  status,     \* sync_status of the connector row
  imported,   \* orders with rows in orders
  feedback    \* rows in feedback

sync == <<step, left, tracking, before, status, imported, feedback>>
vars == <<count, failTtl, openTtl, call, within, step, left, tracking, before,
          status, imported, feedback>>

\* Over: reported, or cut short, or not able to report.
Over(p) == step[p] \in {"ended", "dead", "broken"}
Running(p) == step[p] \notin {"idle", "ended", "dead", "broken"}
Goes(p, s) == step' = [step EXCEPT ![p] = s]

Returned(p) == call[p] \in {"ok", "none"}
\* The call has returned: the client of p is ready for the next one.
Taken(p) == Becomes(p, "idle") /\ UNCHANGED <<count, failTtl, openTtl, within>>

update_sync_status(s) == status' = s

-----------------------------------------------------------------------------
start_sync(p) ==
  /\ step[p] = "idle"
  /\ update_sync_status("syncing")
  /\ before' = [before EXCEPT ![p] = {q \in Callers : Over(q)}]
  /\ Goes(p, "orders")
  /\ UNCHANGED <<left, tracking, imported, feedback>>
  /\ UNCHANGED client

\* A call of the step the sync is at.
Ask(p) ==
  /\ step[p] \in {"orders", "feedback", "track"}
  /\ call_tool(p)
  /\ UNCHANGED sync

(* SwiggyOrderSyncService: what is not there is added, one commit per row; a *)
(* row that fails is rolled back and counted.                                *)
sync_orders(p) ==
  /\ step[p] = "orders" /\ Returned(p)
  /\ \/ call[p] = "none" /\ UNCHANGED imported
     \/ /\ call[p] = "ok"
        /\ \E failed \in SUBSET (Orders \ imported) : imported' = Orders \ failed
  /\ Goes(p, "feedback")
  /\ Taken(p)
  /\ UNCHANGED <<left, tracking, before, status, feedback>>

(* SwiggyFeedbackSyncService reads the orders again; without them it has     *)
(* nothing to do.                                                            *)
read_delivered(p) ==
  /\ step[p] = "feedback" /\ Returned(p)
  /\ left' = [left EXCEPT ![p] = IF call[p] = "ok" THEN Orders ELSE {}]
  /\ Goes(p, "choose")
  /\ Taken(p)
  /\ UNCHANGED <<tracking, before, status, imported, feedback>>

\* As _feedback_exists, never finding anything.
_feedback_missed(o) == FALSE
_feedback_exists(o) == \E f \in feedback : f.order = o

\* The next order: skipped if it has feedback, tracked otherwise.
choose_order(p) ==
  /\ step[p] = "choose"
  /\ \E o \in left[p] :
       /\ left' = [left EXCEPT ![p] = @ \ {o}]
       /\ IF _feedback_exists(o)
            THEN UNCHANGED <<step, tracking>>
            ELSE Goes(p, "track") /\ tracking' = [tracking EXCEPT ![p] = o]
  /\ UNCHANGED <<before, status, imported, feedback>>
  /\ UNCHANGED client

(* What tracking answered is recorded; an order that could not be tracked is *)
(* recorded as delivered on time.  The row may fail.                         *)
record_feedback(p) ==
  LET row == [order |-> tracking[p], by |-> p, tracked |-> call[p] = "ok"]
  IN feedback' \in {feedback, feedback \cup {row}}

track_order(p) ==
  /\ step[p] = "track" /\ Returned(p)
  /\ record_feedback(p)
  /\ Goes(p, "choose")
  /\ Taken(p)
  /\ UNCHANGED <<left, tracking, before, status, imported>>

end_sync(p) ==
  /\ step[p] = "choose" /\ left[p] = {}
  /\ update_sync_status("success")
  /\ Goes(p, "ended")
  /\ UNCHANGED <<left, tracking, before, imported, feedback>>
  /\ UNCHANGED client

\* An answer is not what the services expect of one, or a lookup or the commit
\* of the report fails: the exception reaches SwiggyConnector.sync.
Raises(p) ==
  /\ step[p] \in {"orders", "feedback", "choose"}
  /\ step[p] # "choose" => call[p] = "ok"
  /\ left' = [left EXCEPT ![p] = {}]
  /\ Taken(p)
  /\ UNCHANGED <<tracking, before, imported, feedback>>

\* As sync_raises, what an answer has raised not reported.
sync_raises_silently(p) ==
  /\ Raises(p)
  /\ UNCHANGED status
  /\ Goes(p, "ended") \/ Goes(p, "broken")

(* The exception is reported on the same Session, without a rollback: the    *)
(* report reads the row first, and when a statement has failed, in the sync  *)
(* or now, it raises as well and leaves the row as it is.                    *)
sync_raises(p) ==
  /\ Raises(p)
  /\ \/ update_sync_status("error") /\ Goes(p, "ended")
     \/ UNCHANGED status /\ Goes(p, "broken")

\* The server stops in the middle of a sync, or of a call.
Crash(p) ==
  /\ Running(p)
  /\ Goes(p, "dead")
  /\ left' = [left EXCEPT ![p] = {}]
  /\ Taken(p)
  /\ UNCHANGED <<tracking, before, status, imported, feedback>>

-----------------------------------------------------------------------------
Init ==
  /\ ClientInit
  /\ step = [p \in Callers |-> "idle"]
  /\ left = [p \in Callers |-> {}]
  /\ tracking \in [Callers -> {CHOOSE o \in Orders : TRUE}]
  /\ before = [p \in Callers |-> {}]
  /\ status = "never_synced" /\ imported = {} /\ feedback = {}

Proceed(p) ==
  \/ Ask(p)
  \/ Client(p) /\ UNCHANGED sync
  \/ sync_orders(p)
  \/ read_delivered(p)
  \/ choose_order(p)
  \/ track_order(p)
  \/ end_sync(p)

Tick == Elapse /\ UNCHANGED sync

Next ==
  \/ \E p \in Callers : start_sync(p) \/ Proceed(p) \/ sync_raises(p) \/ Crash(p)
  \/ Tick

(* A coroutine that has begun goes on, and time passes; nobody has to start  *)
(* a sync.                                                                   *)
Spec == Init /\ [][Next]_vars /\ WF_vars(Tick) /\ \A p \in Callers : WF_vars(Proceed(p))
=============================================================================
