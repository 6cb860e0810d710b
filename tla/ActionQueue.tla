---------------------------- MODULE ActionQueue -----------------------------
(***************************************************************************)
(* The approval-gated Action Queue: the action_queue table, the approve    *)
(* and reject calls that run against it concurrently (FastAPI runs the     *)
(* synchronous routes in a thread pool, each with a database session of    *)
(* its own), and the WhatsApp send that approving a vendor order triggers. *)
(*                                                                         *)
(* A session works on a SNAPSHOT of the row: it loads the row once, and    *)
(* reloads it only with refresh() after each commit.  A commit writes just *)
(* the columns that differ from the snapshot (SQLAlchemy's unit of work),  *)
(* so that between a load and a commit, or a commit and its refresh, the   *)
(* row may have been changed by another request.  Load, commit and refresh *)
(* are therefore separate steps.                                           *)
(***************************************************************************)
EXTENDS Naturals, FiniteSets

CONSTANTS
    Categories,     \* kinds of action; only the vendor order has an execution step
    ActionIds,      \* primary keys of action_queue rows
    Requests,       \* approve and reject calls (each is one HTTP or chat call)
    Users,          \* authenticated users
    Orgs,           \* tenants
    OrgOf,          \* [Users -> Orgs], the org claim of the user's token
    Texts,          \* non-empty message texts
    NoText,         \* the empty message
    NoOverride,     \* message_override = None
    Nobody,         \* approved_by = NULL
    NoRow           \* the action does not exist, or the session has loaded none

ASSUME OrgOfAssumption == OrgOf \in [Users -> Orgs]
ASSUME DistinctAssumption ==
    /\ NoText \notin Texts
    /\ NoOverride \notin Texts \cup {NoText}
    /\ Nobody \notin Users

-----------------------------------------------------------------------------
VARIABLES
    table,      \* the action_queue table
    req,        \* the calls, with their sessions' snapshots
    approvals,  \* history: approve calls whose approval was committed
    wordings,   \* history: every message text a row has ever carried
    sent        \* external: messages Twilio accepted, by call and text

vars == <<table, req, approvals, wordings, sent>>

-----------------------------------------------------------------------------
WhatsAppOrder == "whatsapp_vendor_order"
Statuses == {"pending", "approved", "rejected", "executed"}
Errors == {"none", "missing draft or vendor", "send failed"}
Wordings == Texts \cup {NoText}

\* A row; "executed_at" says whether the timestamp is set and "reachable"
\* whether payload.vendor_id names a vendor with a WhatsApp number.
Row == [org : Orgs, category : Categories, status : Statuses,
        approved_by : Users \cup {Nobody}, executed_at : BOOLEAN, error : Errors,
        message_draft : Wordings, reachable : BOOLEAN]
ASSUME NoRowAssumption == NoRow \notin Row

\* Where a call stands; each name says what it has completed.
Stages == {"idle", "loaded", "override written", "ready", "approval written",
           "sending", "delivered", "send failed", "nothing to send",
           "outcome written", "done", "not found", "aborted"}
InFlight == Stages \ {"idle", "done", "not found", "aborted"}

Call == [at : Stages, kind : {"approve", "reject"}, user : Users, action : ActionIds,
         message_override : Wordings \cup {NoOverride}, snapshot : Row \cup {NoRow}]
NoCall == [at |-> "idle"]

Message == [by : Requests, action : ActionIds, text : Texts]

TypeOK ==
    /\ table \in [ActionIds -> Row \cup {NoRow}]
    /\ req \in [Requests -> Call \cup {NoCall}]
    /\ approvals \subseteq Requests
    /\ wordings \in [ActionIds -> SUBSET Wordings]
    /\ sent \subseteq Message

Init ==
    /\ table = [a \in ActionIds |-> NoRow]
    /\ req = [r \in Requests |-> NoCall]
    /\ approvals = {}
    /\ wordings = [a \in ActionIds |-> {}]
    /\ sent = {}

-----------------------------------------------------------------------------
(* Helpers *)

Exists(a) == table[a] # NoRow

\* Mutant of Flush: every column is written, changed or not.
FlushWholeRow(row, snapshot, new) == new

\* What a commit makes of the row in the database: the columns the session
\* changed since its snapshot, and only those.
Flush(row, snapshot, new) ==
    [c \in DOMAIN row |-> IF new[c] # snapshot[c] THEN new[c] ELSE row[c]]

\* Call r commits "new" over its snapshot and moves on to stage s; the
\* snapshot is stale until the refresh.
Commit(r, new, s) ==
    LET a == req[r].action IN
    /\ table' = [table EXCEPT ![a] = Flush(@, req[r].snapshot, new)]
    /\ req' = [req EXCEPT ![r].at = s]

\* Call r reloads its row.
Refresh(r, s) ==
    req' = [req EXCEPT ![r].at = s, ![r].snapshot = table[req[r].action]]

\* Mutant of HasOverride: an edit that empties the text counts as no edit.
HasNonEmptyOverride(r) ==
    /\ req[r].message_override \notin {NoOverride, NoText}
    /\ req[r].snapshot.category = WhatsAppOrder

HasOverride(r) ==
    /\ req[r].message_override # NoOverride
    /\ req[r].snapshot.category = WhatsAppOrder

\* The draft and the vendor the send step finds in the session's row.
Sendable(row) == row.message_draft # NoText /\ row.reachable

-----------------------------------------------------------------------------
(* The queue's own operation: create_action inserts a pending row. *)

CreateAction(a, org, category, draft, reachable) ==
    /\ ~Exists(a)
    /\ table' = [table EXCEPT ![a] =
            [org |-> org, category |-> category, status |-> "pending",
             approved_by |-> Nobody, executed_at |-> FALSE, error |-> "none",
             message_draft |-> draft, reachable |-> reachable]]
    /\ wordings' = [wordings EXCEPT ![a] = @ \cup {draft}]
    /\ UNCHANGED <<req, approvals, sent>>

\* Rows come from the planner's triggers and from the owner's vendor picker:
\* a vendor order carries a draft, any other category none.
Propose ==
    \E a \in ActionIds, org \in Orgs, category \in Categories, reachable \in BOOLEAN :
        \E draft \in IF category = WhatsAppOrder THEN Texts ELSE {NoText} :
            CreateAction(a, org, category, draft, reachable)

-----------------------------------------------------------------------------
(* The approve and reject calls, one action per database or Twilio call. *)

\* Mutant of Load: the org of the row is not compared.
LoadAnyOrg(r, kind, u, a, o) ==
    /\ req[r] = NoCall
    /\ kind = "reject" => o = NoOverride
    /\ req' = [req EXCEPT ![r] =
            [at |-> IF Exists(a) THEN "loaded" ELSE "not found",
             kind |-> kind, user |-> u, action |-> a, message_override |-> o,
             snapshot |-> table[a]]]
    /\ UNCHANGED <<table, approvals, wordings, sent>>

\* A call arrives: the route loads the row and answers 404 when there is
\* none or it belongs to another org.
Load(r, kind, u, a, o) ==
    /\ req[r] = NoCall
    /\ kind = "reject" => o = NoOverride
    /\ req' = [req EXCEPT ![r] =
            [at |-> IF Exists(a) /\ table[a].org = OrgOf[u] THEN "loaded" ELSE "not found",
             kind |-> kind, user |-> u, action |-> a, message_override |-> o,
             snapshot |-> IF Exists(a) /\ table[a].org = OrgOf[u] THEN table[a] ELSE NoRow]]
    /\ UNCHANGED <<table, approvals, wordings, sent>>

\* update_payload merges the owner's edited text into the payload.
WriteOverride(r) ==
    /\ req[r].at = "loaded" /\ req[r].kind = "approve" /\ HasOverride(r)
    /\ Commit(r, [req[r].snapshot EXCEPT !.message_draft = req[r].message_override],
              "override written")
    /\ wordings' = [wordings EXCEPT ![req[r].action] = @ \cup {req[r].message_override}]
    /\ UNCHANGED <<approvals, sent>>

\* Mutant of RefreshOverride: the edited message is sent before it is approved.
RefreshAndSend(r) ==
    /\ req[r].at = "override written"
    /\ Refresh(r, IF Sendable(table[req[r].action]) THEN "sending" ELSE "ready")
    /\ UNCHANGED <<table, approvals, wordings, sent>>

RefreshOverride(r) ==
    /\ req[r].at = "override written"
    /\ Refresh(r, "ready")
    /\ UNCHANGED <<table, approvals, wordings, sent>>

\* Mutant of WriteApproval: the execution time is set with the approval.
WriteApprovalAndTime(r) ==
    /\ \/ req[r].at = "loaded" /\ req[r].kind = "approve" /\ ~HasOverride(r)
       \/ req[r].at = "ready"
    /\ Commit(r, [req[r].snapshot EXCEPT !.status = "approved", !.approved_by = req[r].user,
                                         !.executed_at = TRUE],
              "approval written")
    /\ approvals' = approvals \cup {r}
    /\ UNCHANGED <<wordings, sent>>

\* Mutant of WriteApproval: the row is locked by a call that is sending for it.
WriteApprovalLocking(r) ==
    /\ \/ req[r].at = "loaded" /\ req[r].kind = "approve" /\ ~HasOverride(r)
       \/ req[r].at = "ready"
    /\ \A q \in Requests \ {r} :
        ~(req[q].at = "sending" /\ req[q].action = req[r].action)
    /\ Commit(r, [req[r].snapshot EXCEPT !.status = "approved", !.approved_by = req[r].user],
              "approval written")
    /\ approvals' = approvals \cup {r}
    /\ UNCHANGED <<wordings, sent>>

\* approve: whatever the status was, it becomes approved.
WriteApproval(r) ==
    /\ \/ req[r].at = "loaded" /\ req[r].kind = "approve" /\ ~HasOverride(r)
       \/ req[r].at = "ready"
    /\ Commit(r, [req[r].snapshot EXCEPT !.status = "approved", !.approved_by = req[r].user],
              "approval written")
    /\ approvals' = approvals \cup {r}
    /\ UNCHANGED <<wordings, sent>>

\* Only a vendor order has something to execute; the send step works on the
\* refreshed row.
RefreshApproval(r) ==
    /\ req[r].at = "approval written"
    /\ LET row == table[req[r].action] IN
       Refresh(r, IF row.category # WhatsAppOrder THEN "done"
                  ELSE IF Sendable(row) THEN "sending" ELSE "nothing to send")
    /\ UNCHANGED <<table, approvals, wordings, sent>>

\* External.  Twilio accepts the message and says so.
Deliver(r) ==
    /\ req[r].at = "sending"
    /\ sent' = sent \cup {[by |-> r, action |-> req[r].action,
                           text |-> req[r].snapshot.message_draft]}
    /\ req' = [req EXCEPT ![r].at = "delivered"]
    /\ UNCHANGED <<table, approvals, wordings>>

\* External.  The Twilio call raises: it was refused, or it was accepted and
\* the answer got lost.
FailSend(r) ==
    /\ req[r].at = "sending"
    /\ \/ sent' = sent
       \/ sent' = sent \cup {[by |-> r, action |-> req[r].action,
                              text |-> req[r].snapshot.message_draft]}
    /\ req' = [req EXCEPT ![r].at = "send failed"]
    /\ UNCHANGED <<table, approvals, wordings>>

\* Mutant of MarkExecuted: a send that raised counts as executed, too.
MarkExecutedAnyway(r) ==
    /\ req[r].at \in {"delivered", "send failed"}
    /\ Commit(r, [req[r].snapshot EXCEPT !.status = "executed", !.executed_at = TRUE],
              "outcome written")
    /\ UNCHANGED <<approvals, wordings, sent>>

MarkExecuted(r) ==
    /\ req[r].at = "delivered"
    /\ Commit(r, [req[r].snapshot EXCEPT !.status = "executed", !.executed_at = TRUE],
              "outcome written")
    /\ UNCHANGED <<approvals, wordings, sent>>

\* mark_error records the error and leaves the status alone.
MarkError(r) ==
    /\ req[r].at \in {"send failed", "nothing to send"}
    /\ Commit(r, [req[r].snapshot EXCEPT !.error =
                    IF req[r].at = "send failed" THEN "send failed"
                    ELSE "missing draft or vendor"],
              "outcome written")
    /\ UNCHANGED <<approvals, wordings, sent>>

WriteRejection(r) ==
    /\ req[r].at = "loaded" /\ req[r].kind = "reject"
    /\ Commit(r, [req[r].snapshot EXCEPT !.status = "rejected", !.approved_by = req[r].user],
              "outcome written")
    /\ UNCHANGED <<approvals, wordings, sent>>

\* The last refresh; the row it loads is the answer.
Respond(r) ==
    /\ req[r].at = "outcome written"
    /\ Refresh(r, "done")
    /\ UNCHANGED <<table, approvals, wordings, sent>>

\* A call dies between two steps: the process stops, or the database refuses
\* a statement.  What was committed and sent stays.
Abort(r) ==
    /\ req[r].at \in InFlight
    /\ req' = [req EXCEPT ![r].at = "aborted"]
    /\ UNCHANGED <<table, approvals, wordings, sent>>

-----------------------------------------------------------------------------
ServerStep(r) ==
    \/ WriteOverride(r) \/ RefreshOverride(r)
    \/ WriteApproval(r) \/ RefreshApproval(r)
    \/ Deliver(r) \/ FailSend(r)
    \/ MarkExecuted(r) \/ MarkError(r)
    \/ WriteRejection(r) \/ Respond(r)

Arrive(r) ==
    \E kind \in {"approve", "reject"}, u \in Users, a \in ActionIds,
       o \in Wordings \cup {NoOverride} : Load(r, kind, u, a, o)

Next ==
    \/ Propose
    \/ \E r \in Requests : Arrive(r) \/ ServerStep(r) \/ Abort(r)

Spec == Init /\ [][Next]_vars

\* The steps a server thread takes by itself: all but the answer of the
\* messaging provider, for which its client waits without a timeout.
ThreadStep(r) == req[r].at # "sending" /\ ServerStep(r)

\* A thread does not stop in the middle of a call.  Nothing is assumed of the
\* users, nor of the provider: a send may never return.
FairSpec == Spec /\ \A r \in Requests : WF_vars(ThreadStep(r))
=============================================================================
