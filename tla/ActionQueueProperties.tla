----------------------- MODULE ActionQueueProperties ------------------------
(***************************************************************************)
(* What must hold of the Action Queue, and the refinement of ApprovalGate. *)
(***************************************************************************)
EXTENDS ActionQueue

\* Messages of action a, and messages sent by call r.
SentFor(a) == {m \in sent : m.action = a}
SentBy(r) == {m \in sent : m.by = r}

\* No message leaves for an action unless the very call that sends it has
\* committed its approval, made by a user of the org that owns the action:
\* approve_and_execute leaves the ownership check to its callers and approves
\* before it sends, whatever other calls do to the row in between.
GatedDelivery ==
    \A m \in sent :
        /\ m.by \in approvals
        /\ req[m.by].at # "idle" /\ req[m.by].action = m.action
        /\ Exists(m.action) /\ table[m.action].org = OrgOf[req[m.by].user]

\* A row says executed, or carries an execution time, only when a message of
\* that action really left: no order of commits of racing calls, and no crash,
\* can make mark_executed's columns appear without the send.
ExecutedWasSent ==
    \A a \in ActionIds :
        Exists(a) /\ (table[a].status = "executed" \/ table[a].executed_at) => SentFor(a) # {}

\* Once an approve call of a vendor order has been answered, its row shows
\* either an execution time or an error, whatever other calls committed since:
\* an approval never ends in silence (action_execution_service.py, "rather
\* than silently losing the approval decision").
NothingSilentlyLost ==
    \A r \in Requests :
        LET row == table[req[r].action] IN
        req[r].at = "done" /\ req[r].kind = "approve" /\ row.category = WhatsAppOrder
            => row.executed_at \/ row.error # "none"

\* No other call ever touched the action of call r.
Alone(r) ==
    \A q \in Requests \ {r} :
        req[q].at \in {"idle", "not found"} \/ req[q].action # req[r].action

\* A call that has its action to itself does exactly what the API promises: a
\* rejection sends nothing; an approval that recorded no error sent the owner's
\* own text, if the owner edited it, and left the row executed; one that
\* recorded an error left the row approved.
SerialOutcome ==
    \A r \in Requests :
        LET row == table[req[r].action]
            o == req[r].message_override IN
        req[r].at = "done" /\ Alone(r) =>
            /\ req[r].kind = "reject" => row.status = "rejected" /\ SentBy(r) = {}
            /\ req[r].kind = "approve" /\ row.category = WhatsAppOrder =>
                \/ row.status = "approved" /\ row.error # "none"
                \/ /\ row.status = "executed" /\ row.error = "none"
                   /\ \E m \in SentBy(r) : o = NoOverride \/ m.text = o
            /\ req[r].kind = "approve" /\ row.category # WhatsAppOrder =>
                row.status = "approved" /\ SentBy(r) = {}

\* Call r has committed its approval of a vendor order; and it is concluded: it
\* died, or its row says what became of it.
OrderApproved(r) == r \in approvals /\ table[req[r].action].category = WhatsAppOrder
Concluded(r) ==
    /\ r \in approvals
    /\ LET row == table[req[r].action] IN
       req[r].at = "aborted" \/ row.executed_at \/ row.error # "none"

\* A call that has begun is answered, and a vendor order that was approved ends
\* with an execution time or an error in its row, unless the server dies under
\* the call or its own send never returns: the provider's client waits without a
\* timeout (whatsapp_service.py), but a call that hangs there, with its approval
\* committed, must hold up no other call of the same row.
Answered ==
    \A r \in Requests :
        \/ <>[](req[r].at = "sending")
        \/ /\ req[r].at \in InFlight ~> req[r].at \in {"done", "aborted"}
           /\ OrderApproved(r) ~> Concluded(r)

-----------------------------------------------------------------------------
(* The refinement of ApprovalGate: the gate sees who was granted what and    *)
(* which messages left, never a status.                                      *)

Gate == INSTANCE ApprovalGate WITH
    written <- wordings,
    granted <- [a \in ActionIds |-> {r \in approvals : req[r].action = a}],
    dispatched <- [a \in ActionIds |-> {[by |-> m.by, text |-> m.text] : m \in SentFor(a)}],
    acknowledged <- [a \in ActionIds |-> Exists(a) /\ table[a].executed_at]

\* Every behaviour of the queue is one the approval gate allows: at most one
\* message per granted call, for the action it was granted for, in a wording
\* that was written down for that action, and executed_at only after a send.
ImplementsGate == Gate!Spec

-----------------------------------------------------------------------------
(* The inductive invariant.  GatedDelivery and ExecutedWasSent speak of what *)
(* has been sent; that they are kept depends on where each call stands.      *)

\* The stages of an approve call between its approval and its outcome, and the
\* stages before the send.
Granted == {"approval written", "sending", "delivered", "send failed", "nothing to send"}
Undecided == {"idle", "not found", "loaded", "override written", "ready"}
Unsent == Undecided \cup {"approval written", "sending", "nothing to send"}

\* A call past its load has a real row of its user's own org, and its session
\* holds a text that the row carried at some time.
SessionInv ==
    \A r \in Requests : req[r].at \notin {"idle", "not found"} =>
        /\ Exists(req[r].action) /\ table[req[r].action].org = OrgOf[req[r].user]
        /\ req[r].snapshot \in Row
        /\ req[r].snapshot.message_draft \in wordings[req[r].action]

\* The row's text is one that was written down for it.
DraftInv ==
    \A a \in ActionIds : Exists(a) => table[a].message_draft \in wordings[a]

\* What the stage of a call says about its approval and its message.
StageInv ==
    \A r \in Requests :
        /\ req[r].at \in Granted => r \in approvals
        /\ req[r].at \in Undecided => r \notin approvals
        /\ req[r].at \in Unsent => SentBy(r) = {}
        /\ req[r].at = "delivered" => SentBy(r) # {}
        /\ req[r].at = "sending" => req[r].snapshot.message_draft # NoText

IInv ==
    /\ TypeOK
    /\ GatedDelivery
    /\ ExecutedWasSent
    /\ SessionInv
    /\ DraftInv
    /\ StageInv

-----------------------------------------------------------------------------
(* Why nothing is lost.  No commit resets a column that its session did not  *)
(* change, so what a session has seen recorded stays recorded, and so does   *)
(* what it writes over a snapshot that is already stale.                     *)
Recorded(row) == row.executed_at \/ row.error # "none"

\* What call c has seen, and written, is still there in its row.
Keeps(c, row) ==
    c.at \notin {"idle", "not found"} =>
        /\ row.category = c.snapshot.category
        /\ c.snapshot.executed_at => row.executed_at
        /\ c.snapshot.error # "none" => row.error # "none"
        /\ c.at \in {"outcome written", "done"} /\ c.kind = "approve"
             /\ row.category = WhatsAppOrder => Recorded(row)

OutcomeInv == \A r \in Requests : Keeps(req[r], table[req[r].action])

-----------------------------------------------------------------------------
(* Why a call that has its action to itself does what it promises: until it  *)
(* comes the row is as it was proposed, and from then on only the call's own *)
(* commits change it, so that a snapshot is what the row is.                 *)
Touched(a) == \E q \in Requests : req[q].at \notin {"idle", "not found"} /\ req[q].action = a

FreshInv ==
    \A a \in ActionIds : Exists(a) /\ ~Touched(a) =>
        table[a].status = "pending" /\ table[a].error = "none"

\* What the API promises of call c, which has its row to itself and sent these messages.
Promised(c, row, messages) ==
    /\ c.kind = "reject" => row.status = "rejected" /\ messages = {}
    /\ c.kind = "approve" /\ row.category = WhatsAppOrder =>
        \/ row.status = "approved" /\ row.error # "none"
        \/ /\ row.status = "executed" /\ row.error = "none"
           /\ \E m \in messages : c.message_override \in {NoOverride, m.text}
    /\ c.kind = "approve" /\ row.category # WhatsAppOrder =>
        row.status = "approved" /\ messages = {}

\* How far such a call is, by its stage.
Serial(c, row, messages) ==
    /\ c.at \in {"loaded", "override written", "ready"} =>
        row.status = "pending" /\ row.error = "none"
    /\ c.at \in Granted => row.status = "approved" /\ row.error = "none"
    /\ c.at \in {"override written", "ready"} \cup Granted =>
        /\ c.kind = "approve"
        /\ row.category = WhatsAppOrder => c.message_override \in {NoOverride, row.message_draft}
    /\ c.at \in Granted \ {"approval written"} => row.category = WhatsAppOrder
    /\ c.at \in InFlight \ {"override written", "approval written", "outcome written"} =>
        c.snapshot = row
    /\ c.at = "delivered" => \E m \in messages : m.text = row.message_draft
    /\ c.at \in {"outcome written", "done"} => Promised(c, row, messages)

SerialInv ==
    \A r \in Requests : req[r].at \notin {"idle", "not found"} /\ Alone(r) =>
        Serial(req[r], table[req[r].action], SentBy(r))
=============================================================================
