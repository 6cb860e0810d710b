------------------------- MODULE ActionQueueProofs --------------------------
(***************************************************************************)
(* Proofs about the Action Queue, for every set of actions, calls, users   *)
(* and texts: its safety invariants, that it implements ApprovalGate, that *)
(* no approval of a vendor order ends in silence, and that a call that has *)
(* its action to itself keeps its promises.  At the end, those about the   *)
(* trust ladder, which counts the queue's rows.                            *)
(***************************************************************************)
EXTENDS ActionQueueProperties, TrustLadder, FunctionTheorems, FiniteSetTheorems, TLAPS

-----------------------------------------------------------------------------
(* Commits and snapshots *)

\* A commit yields a row again, each column coming from the new row where the
\* session changed it and from the database otherwise.
LEMMA FlushRow ==
    ASSUME NEW row \in Row, NEW snapshot \in Row, NEW new \in Row
    PROVE  /\ Flush(row, snapshot, new) \in Row
           /\ new.org = snapshot.org => Flush(row, snapshot, new).org = row.org
           /\ new.status = snapshot.status => Flush(row, snapshot, new).status = row.status
           /\ new.executed_at = snapshot.executed_at => Flush(row, snapshot, new).executed_at = row.executed_at
           /\ new.message_draft = snapshot.message_draft => Flush(row, snapshot, new).message_draft = row.message_draft
           /\ new.status # snapshot.status => Flush(row, snapshot, new).status = new.status
           /\ new.executed_at # snapshot.executed_at => Flush(row, snapshot, new).executed_at = new.executed_at
           /\ new.message_draft # snapshot.message_draft => Flush(row, snapshot, new).message_draft = new.message_draft
<1>1. DOMAIN row = {"org", "category", "status", "approved_by", "executed_at",
                    "error", "message_draft", "reachable"}
  BY DEF Row
<1> QED
  BY <1>1 DEF Flush, Row

\* A call past its load is a proper call, on an existing row.
LEMMA LoadedCall ==
    ASSUME TypeOK, SessionInv, NEW r \in Requests, req[r].at \notin {"idle", "not found"}
    PROVE  /\ req[r] \in Call
           /\ req[r].action \in ActionIds
           /\ req[r].snapshot \in Row
           /\ table[req[r].action] \in Row
           /\ table[req[r].action].org = OrgOf[req[r].user]
           /\ req[r].snapshot.message_draft \in wordings[req[r].action]
<1>1. req[r] \in Call
  <2>1. req[r] \in Call \cup {NoCall}
    BY DEF TypeOK
  <2>2. NoCall.at = "idle"
    BY DEF NoCall
  <2> QED
    BY <2>1, <2>2
<1>2. req[r].action \in ActionIds
  BY <1>1 DEF Call
<1> QED
  BY <1>1, <1>2 DEF TypeOK, SessionInv, Exists

\* What a commit does to the table and to the calls.
LEMMA CommitEffect ==
    ASSUME TypeOK, SessionInv,
           NEW r \in Requests, req[r].at \notin {"idle", "not found"},
           NEW new \in Row, NEW s \in Stages,
           Commit(r, new, s)
    PROVE  /\ table' \in [ActionIds -> Row \cup {NoRow}]
           /\ req' \in [Requests -> Call \cup {NoCall}]
           /\ \A b \in ActionIds \ {req[r].action} : table'[b] = table[b]
           /\ table'[req[r].action] = Flush(table[req[r].action], req[r].snapshot, new)
           /\ table'[req[r].action] \in Row
           /\ \A q \in Requests \ {r} : req'[q] = req[q]
           /\ req'[r] \in Call
           /\ req'[r].at = s
           /\ req'[r].action = req[r].action
           /\ req'[r].user = req[r].user
           /\ req'[r].snapshot = req[r].snapshot
<1>1. /\ req[r] \in Call /\ req[r].action \in ActionIds
      /\ req[r].snapshot \in Row /\ table[req[r].action] \in Row
  BY LoadedCall
<1>2. Flush(table[req[r].action], req[r].snapshot, new) \in Row
  BY <1>1, FlushRow
<1>3. req' = [req EXCEPT ![r].at = s]
  BY DEF Commit
<1>4. /\ req'[r] \in Call
      /\ req'[r].at = s
      /\ req'[r].action = req[r].action
      /\ req'[r].user = req[r].user
      /\ req'[r].snapshot = req[r].snapshot
  BY <1>1, <1>3 DEF TypeOK, Call
<1>5. table' = [table EXCEPT ![req[r].action] =
                  Flush(table[req[r].action], req[r].snapshot, new)]
  BY DEF Commit
<1> QED
  BY <1>1, <1>2, <1>3, <1>4, <1>5 DEF TypeOK

\* What a refresh does to the calls.
LEMMA RefreshEffect ==
    ASSUME TypeOK, SessionInv,
           NEW r \in Requests, req[r].at \notin {"idle", "not found"},
           NEW s \in Stages,
           Refresh(r, s)
    PROVE  /\ req' \in [Requests -> Call \cup {NoCall}]
           /\ \A q \in Requests \ {r} : req'[q] = req[q]
           /\ req'[r] \in Call
           /\ req'[r].at = s
           /\ req'[r].action = req[r].action
           /\ req'[r].user = req[r].user
           /\ req'[r].snapshot = table[req[r].action]
<1>1. req[r] \in Call /\ req[r].action \in ActionIds /\ table[req[r].action] \in Row
  BY LoadedCall
<1>2. req' = [req EXCEPT ![r].at = s, ![r].snapshot = table[req[r].action]]
  BY DEF Refresh
<1>3. req'[r] = [req[r] EXCEPT !.at = s, !.snapshot = table[req[r].action]]
  BY <1>2 DEF TypeOK
<1>4. /\ req'[r] \in Call
      /\ req'[r].at = s
      /\ req'[r].action = req[r].action
      /\ req'[r].user = req[r].user
      /\ req'[r].snapshot = table[req[r].action]
  BY <1>1, <1>3 DEF Call
<1> QED
  BY <1>2, <1>4 DEF TypeOK

-----------------------------------------------------------------------------
(* Every action keeps the inductive invariant. *)

\* The steps that move only a call: it changes stage, and refreshes or keeps its
\* snapshot.  The stage it moves to must claim nothing new about what it has
\* been granted or has sent.
LEMMA CallMoves ==
    ASSUME IInv, NEW r \in Requests, req[r].at \notin {"idle", "not found"},
           UNCHANGED <<table, approvals, wordings, sent>>,
           req' \in [Requests -> Call \cup {NoCall}],
           \A q \in Requests \ {r} : req'[q] = req[q],
           req'[r].action = req[r].action,
           req'[r].user = req[r].user,
           req'[r].snapshot \in {req[r].snapshot, table[req[r].action]},
           req'[r].at \notin {"idle", "not found", "delivered"},
           req'[r].at \in Granted => r \in approvals,
           req'[r].at \in Undecided => r \notin approvals,
           req'[r].at \in Unsent => SentBy(r) = {},
           req'[r].at = "sending" => req'[r].snapshot.message_draft # NoText
    PROVE  IInv'
<1>1. /\ req[r].action \in ActionIds
      /\ req[r].snapshot \in Row
      /\ table[req[r].action] \in Row
      /\ req[r].snapshot.message_draft \in wordings[req[r].action]
  BY LoadedCall DEF IInv
<1>2. table[req[r].action].message_draft \in wordings[req[r].action]
  BY <1>1, NoRowAssumption DEF IInv, DraftInv, Exists
<1>3. TypeOK'
  BY DEF IInv, TypeOK
<1>4. GatedDelivery'
  <2> SUFFICES ASSUME NEW m \in sent
               PROVE  /\ m.by \in approvals
                      /\ req'[m.by].at # "idle" /\ req'[m.by].action = m.action
                      /\ Exists(m.action) /\ table[m.action].org = OrgOf[req'[m.by].user]
    BY DEF GatedDelivery, Exists
  <2>1. m.by \in Requests
    BY DEF IInv, TypeOK, Message
  <2> QED
    BY <2>1, ZenonT(30) DEF IInv, GatedDelivery
<1>5. ExecutedWasSent'
  BY DEF IInv, ExecutedWasSent, SentFor, Exists
<1>6. SessionInv'
  <2> SUFFICES ASSUME NEW q \in Requests, req'[q].at \notin {"idle", "not found"}
               PROVE  /\ Exists(req'[q].action)
                      /\ table[req'[q].action].org = OrgOf[req'[q].user]
                      /\ req'[q].snapshot \in Row
                      /\ req'[q].snapshot.message_draft \in wordings[req'[q].action]
    BY DEF SessionInv, Exists
  <2>1. req[r].at \notin {"idle", "not found"} /\ Exists(req[r].action)
        /\ table[req[r].action].org = OrgOf[req[r].user]
    BY DEF IInv, SessionInv
  <2>2. CASE q = r
    BY <1>1, <1>2, <2>1, <2>2
  <2>3. CASE q # r
    BY <2>3 DEF IInv, SessionInv
  <2> QED
    BY <2>2, <2>3
<1>7. DraftInv'
  BY DEF IInv, DraftInv, Exists
<1>8. StageInv'
  BY DEF IInv, StageInv, SentBy
<1> QED
  BY <1>3, <1>4, <1>5, <1>6, <1>7, <1>8 DEF IInv

\* The steps that commit: call r writes "new" over its row.  The new row may not
\* change the org, and may claim an execution only after the send.
LEMMA CallCommits ==
    ASSUME IInv, NEW r \in Requests, req[r].at \notin {"idle", "not found"},
           NEW new \in Row, NEW s \in Stages, Commit(r, new, s),
           new.org = req[r].snapshot.org,
           \/ new.status \in {"approved", "rejected", req[r].snapshot.status}
              /\ new.executed_at = req[r].snapshot.executed_at
           \/ SentFor(req[r].action) # {},
           new.message_draft \in wordings'[req[r].action],
           wordings' \in [ActionIds -> SUBSET Wordings],
           \A a \in ActionIds : wordings[a] \subseteq wordings'[a],
           UNCHANGED sent,
           approvals' = approvals \/ approvals' = approvals \cup {r},
           s \notin {"idle", "not found", "delivered", "sending"},
           s \in Granted => r \in approvals',
           s \in Undecided => r \notin approvals',
           s \in Unsent => SentBy(r) = {}
    PROVE  IInv'
<1> DEFINE a == req[r].action
<1>1. /\ a \in ActionIds
      /\ req[r].snapshot \in Row
      /\ table[a] \in Row
      /\ table[a].org = OrgOf[req[r].user]
      /\ req[r].snapshot.message_draft \in wordings[a]
  BY LoadedCall DEF IInv
<1>2. /\ table' \in [ActionIds -> Row \cup {NoRow}]
      /\ req' \in [Requests -> Call \cup {NoCall}]
      /\ \A b \in ActionIds \ {a} : table'[b] = table[b]
      /\ table'[a] = Flush(table[a], req[r].snapshot, new)
      /\ table'[a] \in Row
      /\ \A q \in Requests \ {r} : req'[q] = req[q]
      /\ req'[r] \in Call
      /\ req'[r].at = s
      /\ req'[r].action = a
      /\ req'[r].user = req[r].user
      /\ req'[r].snapshot = req[r].snapshot
  BY CommitEffect DEF IInv
<1>3. /\ table'[a].org = table[a].org
      /\ new.status = req[r].snapshot.status => table'[a].status = table[a].status
      /\ new.executed_at = req[r].snapshot.executed_at => table'[a].executed_at = table[a].executed_at
      /\ new.message_draft = req[r].snapshot.message_draft => table'[a].message_draft = table[a].message_draft
      /\ new.status # req[r].snapshot.status => table'[a].status = new.status
      /\ new.executed_at # req[r].snapshot.executed_at => table'[a].executed_at = new.executed_at
      /\ new.message_draft # req[r].snapshot.message_draft => table'[a].message_draft = new.message_draft
  <2> DEFINE old == table[a]
             seen == req[r].snapshot
             row == Flush(old, seen, new)
  <2>1. table'[a] = row
    BY <1>2
  <2>2. old \in Row /\ seen \in Row /\ new.org = seen.org
    BY <1>1
  <2> HIDE DEF old, seen
  <2>3. row.org = old.org
    BY <2>2, FlushRow
  <2>4. (new.status = seen.status => row.status = old.status) /\ (new.status # seen.status => row.status = new.status)
    BY <2>2, FlushRow, ZenonT(30)
  <2>5. (new.executed_at = seen.executed_at => row.executed_at = old.executed_at) /\ (new.executed_at # seen.executed_at => row.executed_at = new.executed_at)
    BY <2>2, FlushRow, ZenonT(30)
  <2>6. (new.message_draft = seen.message_draft => row.message_draft = old.message_draft) /\ (new.message_draft # seen.message_draft => row.message_draft = new.message_draft)
    BY <2>2, FlushRow, ZenonT(30)
  <2> HIDE DEF row
  <2> QED
    BY <2>1, <2>3, <2>4, <2>5, <2>6 DEF old, seen
<1>4. \A b \in ActionIds : /\ Exists(b)' <=> Exists(b)
                           /\ Exists(b) => table'[b].org = table[b].org
  BY <1>1, <1>2, <1>3, NoRowAssumption DEF Exists
<1>5. TypeOK'
  BY <1>2 DEF IInv, TypeOK
<1>6. GatedDelivery'
  <2> SUFFICES ASSUME NEW m \in sent
               PROVE  /\ m.by \in approvals'
                      /\ req'[m.by].at # "idle" /\ req'[m.by].action = m.action
                      /\ Exists(m.action)' /\ table'[m.action].org = OrgOf[req'[m.by].user]
    BY DEF GatedDelivery
  <2>1. m.by \in Requests /\ m.action \in ActionIds
    BY DEF IInv, TypeOK, Message
  <2>2. /\ m.by \in approvals
        /\ req[m.by].at # "idle" /\ req[m.by].action = m.action
        /\ Exists(m.action) /\ table[m.action].org = OrgOf[req[m.by].user]
    BY DEF IInv, GatedDelivery
  <2>3. /\ req'[m.by].action = req[m.by].action
        /\ req'[m.by].user = req[m.by].user
        /\ req'[m.by].at # "idle"
    BY <1>2, <2>1, <2>2
  <2> QED
    BY <1>4, <2>1, <2>2, <2>3
<1>7. ExecutedWasSent'
  <2> SUFFICES ASSUME NEW b \in ActionIds, Exists(b)',
                      table'[b].status = "executed" \/ table'[b].executed_at
               PROVE  SentFor(b) # {}
    BY DEF ExecutedWasSent, SentFor
  <2>1. CASE b # a
    BY <2>1, <1>2, <1>4 DEF IInv, ExecutedWasSent
  <2>2. CASE b = a
    BY <2>2, <1>1, <1>3, <1>4 DEF IInv, ExecutedWasSent
  <2> QED
    BY <2>1, <2>2
<1>8. SessionInv'
  <2> SUFFICES ASSUME NEW q \in Requests, req'[q].at \notin {"idle", "not found"}
               PROVE  /\ table'[req'[q].action] # NoRow
                      /\ table'[req'[q].action].org = OrgOf[req'[q].user]
                      /\ req'[q].snapshot \in Row
                      /\ req'[q].snapshot.message_draft \in wordings'[req'[q].action]
    BY DEF SessionInv, Exists
  <2>1. req[q].at \notin {"idle", "not found"}
    BY <1>2
  <2>2. /\ req[q].action \in ActionIds
        /\ Exists(req[q].action)
        /\ table[req[q].action].org = OrgOf[req[q].user]
        /\ req[q].snapshot \in Row
        /\ req[q].snapshot.message_draft \in wordings[req[q].action]
    BY <2>1, LoadedCall DEF IInv, SessionInv
  <2>3. /\ req'[q].action = req[q].action
        /\ req'[q].user = req[q].user
        /\ req'[q].snapshot = req[q].snapshot
    BY <1>2
  <2> QED
    BY <1>4, <2>2, <2>3 DEF Exists
<1>9. DraftInv'
  BY <1>1, <1>2, <1>3, <1>4 DEF IInv, DraftInv
<1>10. StageInv'
  <2> SUFFICES ASSUME NEW q \in Requests
               PROVE  /\ req'[q].at \in Granted => q \in approvals'
                      /\ req'[q].at \in Undecided => q \notin approvals'
                      /\ req'[q].at \in Unsent => SentBy(q) = {}
                      /\ req'[q].at = "delivered" => SentBy(q) # {}
                      /\ req'[q].at = "sending" => req'[q].snapshot.message_draft # NoText
    BY DEF StageInv, SentBy
  <2>2. CASE q = r
    BY <2>2, <1>2
  <2>3. CASE q # r
    <3>1. /\ req'[q] = req[q]
          /\ q \in approvals' <=> q \in approvals
      BY <2>3, <1>2
    <3>2. /\ req[q].at \in Granted => q \in approvals
          /\ req[q].at \in Undecided => q \notin approvals
          /\ req[q].at \in Unsent => SentBy(q) = {}
          /\ req[q].at = "delivered" => SentBy(q) # {}
          /\ req[q].at = "sending" => req[q].snapshot.message_draft # NoText
      BY DEF IInv, StageInv
    <3> QED
      BY <3>1, <3>2
  <2> QED
    BY <2>2, <2>3
<1> QED
  BY <1>5, <1>6, <1>7, <1>8, <1>9, <1>10 DEF IInv

LEMMA ProposeInv == IInv /\ Propose => IInv'
<1> SUFFICES ASSUME IInv,
                    NEW a \in ActionIds, NEW org \in Orgs, NEW category \in Categories,
                    NEW reachable \in BOOLEAN, NEW draft \in Wordings,
                    CreateAction(a, org, category, draft, reachable)
             PROVE  IInv'
  BY DEF Propose, Wordings
<1> DEFINE new == [org |-> org, category |-> category, status |-> "pending",
                   approved_by |-> Nobody, executed_at |-> FALSE, error |-> "none",
                   message_draft |-> draft, reachable |-> reachable]
<1>1. new \in Row
  BY DEF Row, Statuses, Errors
<1>2. /\ table[a] = NoRow
      /\ table' = [table EXCEPT ![a] = new]
      /\ wordings' = [wordings EXCEPT ![a] = @ \cup {draft}]
      /\ req' = req /\ approvals' = approvals /\ sent' = sent
  BY DEF CreateAction, Exists
<1>3. new.status = "pending" /\ new.executed_at = FALSE /\ new.message_draft = draft
  OBVIOUS
<1> HIDE DEF new
<1>4. /\ table'[a] = new
      /\ \A b \in ActionIds \ {a} : table'[b] = table[b]
      /\ \A b \in ActionIds : Exists(b) => b # a
      /\ \A b \in ActionIds : wordings[b] \subseteq wordings'[b]
      /\ draft \in wordings'[a]
  BY <1>2 DEF IInv, TypeOK, Exists
<1>5. TypeOK'
  BY <1>1, <1>2 DEF IInv, TypeOK
<1>6. GatedDelivery'
  <2> SUFFICES ASSUME NEW m \in sent
               PROVE  /\ m.by \in approvals
                      /\ req[m.by].at # "idle" /\ req[m.by].action = m.action
                      /\ Exists(m.action)' /\ table'[m.action].org = OrgOf[req[m.by].user]
    BY <1>2 DEF GatedDelivery
  <2>1. m.action \in ActionIds
    BY DEF IInv, TypeOK, Message
  <2> QED
    BY <1>4, <2>1 DEF IInv, GatedDelivery, Exists
<1>7. ExecutedWasSent'
  BY <1>2, <1>3, <1>4 DEF IInv, ExecutedWasSent, SentFor, Exists
<1>8. SessionInv'
  <2> SUFFICES ASSUME NEW q \in Requests, req[q].at \notin {"idle", "not found"}
               PROVE  /\ table'[req[q].action] # NoRow
                      /\ table'[req[q].action].org = OrgOf[req[q].user]
                      /\ req[q].snapshot \in Row
                      /\ req[q].snapshot.message_draft \in wordings'[req[q].action]
    BY <1>2 DEF SessionInv, Exists
  <2>1. req[q].action \in ActionIds /\ Exists(req[q].action)
    BY LoadedCall DEF IInv, SessionInv
  <2> QED
    BY <1>4, <2>1 DEF IInv, SessionInv, Exists
<1>9. DraftInv'
  BY <1>2, <1>3, <1>4 DEF IInv, DraftInv, Exists
<1>10. StageInv'
  BY <1>2 DEF IInv, StageInv, SentBy
<1> QED
  BY <1>5, <1>6, <1>7, <1>8, <1>9, <1>10 DEF IInv

LEMMA ArriveInv ==
    ASSUME IInv, NEW r \in Requests, Arrive(r)
    PROVE  IInv'
<1> PICK kind \in {"approve", "reject"}, u \in Users, a \in ActionIds,
         o \in Wordings \cup {NoOverride} : Load(r, kind, u, a, o)
  BY DEF Arrive
<1> DEFINE found == Exists(a) /\ table[a].org = OrgOf[u]
           call == [at |-> IF found THEN "loaded" ELSE "not found",
                    kind |-> kind, user |-> u, action |-> a, message_override |-> o,
                    snapshot |-> IF found THEN table[a] ELSE NoRow]
<1>1. /\ req[r].at = "idle"
      /\ req' = [req EXCEPT ![r] = call]
      /\ UNCHANGED <<table, approvals, wordings, sent>>
  <2>1. req[r] = NoCall /\ NoCall.at = "idle"
    BY DEF Load, NoCall
  <2>2. req' = [req EXCEPT ![r] = call] /\ UNCHANGED <<table, approvals, wordings, sent>>
    BY Zenon DEF Load
  <2> QED
    BY <2>1, <2>2
<1>2. call \in Call
  <2>1. table[a] \in Row \cup {NoRow}
    BY DEF IInv, TypeOK
  <2> HIDE DEF found
  <2> QED
    BY <2>1 DEF Call, Stages
<1>3. /\ call.at \in {"loaded", "not found"}
      /\ call.action = a /\ call.user = u
      /\ call.at = "loaded" => found /\ call.snapshot = table[a]
  OBVIOUS
<1> HIDE DEF call
<1>4. /\ req' \in [Requests -> Call \cup {NoCall}]
      /\ req'[r] = call
      /\ \A q \in Requests \ {r} : req'[q] = req[q]
  BY <1>1, <1>2 DEF IInv, TypeOK
<1>5. r \notin approvals /\ SentBy(r) = {}
  BY <1>1 DEF IInv, StageInv, Undecided, Unsent
<1>6. TypeOK'
  BY <1>1, <1>4 DEF IInv, TypeOK
<1>7. GatedDelivery'
  <2> SUFFICES ASSUME NEW m \in sent
               PROVE  /\ m.by \in approvals
                      /\ req'[m.by].at # "idle" /\ req'[m.by].action = m.action
                      /\ Exists(m.action) /\ table[m.action].org = OrgOf[req'[m.by].user]
    BY <1>1 DEF GatedDelivery, Exists
  <2>1. m.by \in Requests \ {r}
    BY <1>5 DEF IInv, TypeOK, Message, GatedDelivery
  <2> QED
    BY <1>4, <2>1 DEF IInv, GatedDelivery
<1>8. ExecutedWasSent'
  BY <1>1 DEF IInv, ExecutedWasSent, SentFor, Exists
<1>9. SessionInv'
  <2> SUFFICES ASSUME NEW q \in Requests, req'[q].at \notin {"idle", "not found"}
               PROVE  /\ Exists(req'[q].action)
                      /\ table[req'[q].action].org = OrgOf[req'[q].user]
                      /\ req'[q].snapshot \in Row
                      /\ req'[q].snapshot.message_draft \in wordings[req'[q].action]
    BY <1>1 DEF SessionInv, Exists
  <2>1. CASE q # r
    BY <2>1, <1>4 DEF IInv, SessionInv
  <2>2. CASE q = r
    <3>1. found /\ req'[q].action = a /\ req'[q].user = u /\ req'[q].snapshot = table[a]
      BY <2>2, <1>3, <1>4
    <3> QED
      BY <3>1 DEF IInv, TypeOK, DraftInv, Exists
  <2> QED
    BY <2>1, <2>2
<1>10. DraftInv'
  BY <1>1 DEF IInv, DraftInv, Exists
<1>11. StageInv'
  BY <1>1, <1>3, <1>4, <1>5 DEF IInv, StageInv, SentBy, Granted, Undecided, Unsent
<1> QED
  BY <1>6, <1>7, <1>8, <1>9, <1>10, <1>11 DEF IInv

\* Twilio's verdict, with or without a message.
LEMMA SendInv ==
    ASSUME IInv, NEW r \in Requests, Deliver(r) \/ FailSend(r)
    PROVE  IInv'
<1> DEFINE message == [by |-> r, action |-> req[r].action, text |-> req[r].snapshot.message_draft]
<1>1. req[r].at = "sending"
  BY DEF Deliver, FailSend
<1>2. PICK s \in {"delivered", "send failed"} :
        /\ req' = [req EXCEPT ![r].at = s]
        /\ \/ sent' = sent \cup {message}
           \/ (sent' = sent) /\ (s = "send failed")
        /\ UNCHANGED <<table, approvals, wordings>>
  <2>1. CASE Deliver(r)
    <3>1. /\ req' = [req EXCEPT ![r].at = "delivered"]
          /\ sent' = sent \cup {message}
          /\ UNCHANGED <<table, approvals, wordings>>
      BY <2>1, Zenon DEF Deliver
    <3> HIDE DEF message
    <3> WITNESS "delivered" \in {"delivered", "send failed"}
    <3> QED
      BY <3>1
  <2>2. CASE FailSend(r)
    <3>1. /\ req' = [req EXCEPT ![r].at = "send failed"]
          /\ sent' = sent \/ sent' = sent \cup {message}
          /\ UNCHANGED <<table, approvals, wordings>>
      BY <2>2, Zenon DEF FailSend
    <3> HIDE DEF message
    <3> WITNESS "send failed" \in {"delivered", "send failed"}
    <3> QED
      BY <3>1
  <2> QED
    BY <2>1, <2>2
<1>3. /\ req[r] \in Call /\ req[r].action \in ActionIds /\ req[r].snapshot \in Row
      /\ Exists(req[r].action) /\ table[req[r].action].org = OrgOf[req[r].user]
      /\ r \in approvals /\ req[r].snapshot.message_draft # NoText
  BY <1>1, LoadedCall DEF IInv, SessionInv, StageInv, Granted
<1>4. message \in Message
  BY <1>3 DEF Message, Row, Wordings
<1>5. message.by = r /\ message.action = req[r].action
  OBVIOUS
<1> HIDE DEF message
<1>6. /\ req' \in [Requests -> Call \cup {NoCall}]
      /\ \A q \in Requests : /\ q # r => req'[q] = req[q]
                             /\ req'[q].action = req[q].action
                             /\ req'[q].user = req[q].user
                             /\ req'[q].snapshot = req[q].snapshot
      /\ req'[r].at = s
  <2>1. req'[r] = [req[r] EXCEPT !.at = s]
    BY <1>2 DEF IInv, TypeOK
  <2>2. /\ req'[r] \in Call /\ req'[r].at = s /\ req'[r].action = req[r].action
        /\ req'[r].user = req[r].user /\ req'[r].snapshot = req[r].snapshot
    BY <1>3, <2>1 DEF Call, Stages
  <2> QED
    BY <1>2, <2>2 DEF IInv, TypeOK
<1>7. TypeOK'
  BY <1>2, <1>4, <1>6 DEF IInv, TypeOK
<1>8. GatedDelivery'
  <2> SUFFICES ASSUME NEW m \in sent'
               PROVE  /\ m.by \in approvals
                      /\ req'[m.by].at # "idle" /\ req'[m.by].action = m.action
                      /\ Exists(m.action) /\ table[m.action].org = OrgOf[req'[m.by].user]
    BY <1>2 DEF GatedDelivery, Exists
  <2>1. CASE m = message
    BY <2>1, <1>3, <1>5, <1>6
  <2>2. CASE m \in sent
    <3>1. m.by \in Requests
      BY <2>2 DEF IInv, TypeOK, Message
    <3> QED
      BY <2>2, <3>1, <1>6 DEF IInv, GatedDelivery
  <2> QED
    BY <1>2, <2>1, <2>2
<1>9. ExecutedWasSent'
  BY <1>2 DEF IInv, ExecutedWasSent, SentFor, Exists
<1>10. SessionInv'
  <2> SUFFICES ASSUME NEW q \in Requests, req'[q].at \notin {"idle", "not found"}
               PROVE  /\ Exists(req'[q].action)
                      /\ table[req'[q].action].org = OrgOf[req'[q].user]
                      /\ req'[q].snapshot \in Row
                      /\ req'[q].snapshot.message_draft \in wordings[req'[q].action]
    BY <1>2 DEF SessionInv, Exists
  <2>1. req[q].at \notin {"idle", "not found"}
    BY <1>1, <1>6
  <2> QED
    BY <2>1, <1>6 DEF IInv, SessionInv
<1>11. DraftInv'
  BY <1>2 DEF IInv, DraftInv, Exists
<1>12. StageInv'
  <2> SUFFICES ASSUME NEW q \in Requests
               PROVE  /\ req'[q].at \in Granted => q \in approvals
                      /\ req'[q].at \in Undecided => q \notin approvals
                      /\ req'[q].at \in Unsent => {m \in sent' : m.by = q} = {}
                      /\ req'[q].at = "delivered" => {m \in sent' : m.by = q} # {}
                      /\ req'[q].at = "sending" => req'[q].snapshot.message_draft # NoText
    BY <1>2 DEF StageInv, SentBy
  <2>1. CASE q = r
    <3>1. s = "delivered" => message \in {m \in sent' : m.by = q}
      BY <2>1, <1>2, <1>5
    <3> QED
      BY <2>1, <3>1, <1>2, <1>3, <1>6 DEF Granted, Undecided, Unsent
  <2>2. CASE q # r
    <3>1. {m \in sent' : m.by = q} = SentBy(q)
      BY <2>2, <1>2, <1>5 DEF SentBy
    <3> QED
      BY <2>2, <3>1, <1>6 DEF IInv, StageInv
  <2> QED
    BY <2>1, <2>2
<1> QED
  BY <1>7, <1>8, <1>9, <1>10, <1>11, <1>12 DEF IInv

LEMMA ServerStepInv ==
    ASSUME IInv, NEW r \in Requests, ServerStep(r)
    PROVE  IInv'
<1> DEFINE row == req[r].snapshot
           text == req[r].message_override
<1>1. req[r].at \notin {"idle", "not found"}
  BY DEF ServerStep, WriteOverride, RefreshOverride, WriteApproval, RefreshApproval,
         Deliver, FailSend, MarkExecuted, MarkError, WriteRejection, Respond
<1>2. /\ req[r] \in Call /\ req[r].action \in ActionIds
      /\ row \in Row /\ row.message_draft \in wordings[req[r].action]
      /\ table[req[r].action] \in Row
  BY <1>1, LoadedCall DEF IInv
<1>3. wordings \in [ActionIds -> SUBSET Wordings]
  BY DEF IInv, TypeOK
<1>4. ASSUME WriteOverride(r) PROVE IInv'
  <2> DEFINE new == [row EXCEPT !.message_draft = text]
  <2>1. text \in Wordings
    BY <1>2, <1>4 DEF WriteOverride, HasOverride, Call
  <2>2. /\ new \in Row /\ new.org = row.org /\ new.status = row.status
        /\ new.executed_at = row.executed_at /\ new.message_draft = text
    BY <1>2, <2>1 DEF Row
  <2>3. /\ Commit(r, new, "override written") /\ req[r].at = "loaded"
        /\ wordings' = [wordings EXCEPT ![req[r].action] = @ \cup {text}]
        /\ UNCHANGED <<approvals, sent>>
    BY <1>4 DEF WriteOverride
  <2>4. /\ wordings' \in [ActionIds -> SUBSET Wordings]
        /\ \A a \in ActionIds : wordings[a] \subseteq wordings'[a]
        /\ text \in wordings'[req[r].action]
    BY <1>2, <1>3, <2>1, <2>3
  <2>5. r \notin approvals /\ SentBy(r) = {}
    BY <2>3 DEF IInv, StageInv, Undecided, Unsent
  <2> HIDE DEF new
  <2> QED
    BY <1>1, <2>2, <2>3, <2>4, <2>5, CallCommits DEF Stages, Granted, Undecided, Unsent
<1>5. ASSUME WriteApproval(r) PROVE IInv'
  <2> DEFINE new == [row EXCEPT !.status = "approved", !.approved_by = req[r].user]
  <2>1. /\ new \in Row /\ new.org = row.org /\ new.status = "approved"
        /\ new.executed_at = row.executed_at /\ new.message_draft = row.message_draft
    BY <1>2 DEF Row, Statuses, Call
  <2>2. /\ Commit(r, new, "approval written") /\ req[r].at \in {"loaded", "ready"}
        /\ approvals' = approvals \cup {r} /\ UNCHANGED <<wordings, sent>>
    BY <1>5 DEF WriteApproval
  <2>3. SentBy(r) = {}
    BY <2>2 DEF IInv, StageInv, Unsent, Undecided
  <2> HIDE DEF new
  <2> QED
    BY <1>1, <1>2, <1>3, <2>1, <2>2, <2>3, CallCommits DEF Stages, Granted, Undecided, Unsent
<1>6. ASSUME MarkExecuted(r) PROVE IInv'
  <2> DEFINE new == [row EXCEPT !.status = "executed", !.executed_at = TRUE]
  <2>1. new \in Row /\ new.org = row.org /\ new.message_draft = row.message_draft
    BY <1>2 DEF Row, Statuses
  <2>2. /\ Commit(r, new, "outcome written") /\ req[r].at = "delivered"
        /\ UNCHANGED <<approvals, wordings, sent>>
    BY <1>6 DEF MarkExecuted
  <2>3. SentFor(req[r].action) # {}
    <3>1. PICK m \in sent : m.by = r
      BY <2>2 DEF IInv, StageInv, SentBy
    <3> QED
      BY <3>1 DEF IInv, GatedDelivery, SentFor
  <2> HIDE DEF new
  <2> QED
    BY <1>1, <1>2, <1>3, <2>1, <2>2, <2>3, CallCommits DEF Stages, Granted, Undecided, Unsent
<1>7. ASSUME MarkError(r) PROVE IInv'
  <2> DEFINE new == [row EXCEPT !.error = IF req[r].at = "send failed" THEN "send failed"
                                          ELSE "missing draft or vendor"]
  <2>1. /\ new \in Row /\ new.org = row.org /\ new.message_draft = row.message_draft
        /\ new.status = row.status /\ new.executed_at = row.executed_at
    BY <1>2 DEF Row, Errors
  <2>2. /\ Commit(r, new, "outcome written") /\ UNCHANGED <<approvals, wordings, sent>>
    BY <1>7 DEF MarkError
  <2> HIDE DEF new
  <2> QED
    BY <1>1, <1>2, <1>3, <2>1, <2>2, CallCommits DEF Stages, Granted, Undecided, Unsent
<1>8. ASSUME WriteRejection(r) PROVE IInv'
  <2> DEFINE new == [row EXCEPT !.status = "rejected", !.approved_by = req[r].user]
  <2>1. /\ new \in Row /\ new.org = row.org /\ new.message_draft = row.message_draft
        /\ new.status = "rejected" /\ new.executed_at = row.executed_at
    BY <1>2 DEF Row, Statuses, Call
  <2>2. /\ Commit(r, new, "outcome written") /\ UNCHANGED <<approvals, wordings, sent>>
    BY <1>8 DEF WriteRejection
  <2> HIDE DEF new
  <2> QED
    BY <1>1, <1>2, <1>3, <2>1, <2>2, CallCommits DEF Stages, Granted, Undecided, Unsent
<1>9. ASSUME NEW s \in Stages \ {"idle", "not found", "delivered"}, Refresh(r, s),
             UNCHANGED <<table, approvals, wordings, sent>>,
             s \in Granted => r \in approvals,
             s \in Undecided => r \notin approvals,
             s \in Unsent => SentBy(r) = {},
             s = "sending" => table[req[r].action].message_draft # NoText
      PROVE  IInv'
  <2>1. /\ req' \in [Requests -> Call \cup {NoCall}]
        /\ \A q \in Requests \ {r} : req'[q] = req[q]
        /\ req'[r].at = s
        /\ req'[r].action = req[r].action
        /\ req'[r].user = req[r].user
        /\ req'[r].snapshot = table[req[r].action]
    BY <1>1, <1>9, RefreshEffect DEF IInv
  <2> QED
    BY <1>1, <1>9, <2>1, CallMoves
<1>10. ASSUME RefreshOverride(r) PROVE IInv'
  <2>1. /\ Refresh(r, "ready") /\ UNCHANGED <<table, approvals, wordings, sent>>
        /\ r \notin approvals /\ SentBy(r) = {}
    BY <1>10 DEF RefreshOverride, IInv, StageInv, Undecided, Unsent
  <2> QED
    BY <1>9, <2>1 DEF Stages, Granted
<1>11. ASSUME RefreshApproval(r) PROVE IInv'
  <2>1. /\ UNCHANGED <<table, approvals, wordings, sent>>
        /\ r \in approvals /\ SentBy(r) = {}
    BY <1>11 DEF RefreshApproval, IInv, StageInv, Granted, Unsent
  <2>2. PICK s \in {"done", "sending", "nothing to send"} :
          /\ Refresh(r, s)
          /\ s = "sending" => table[req[r].action].message_draft # NoText
    BY <1>11 DEF RefreshApproval, Sendable
  <2> QED
    BY <1>9, <2>1, <2>2 DEF Stages, Undecided
<1>12. ASSUME Respond(r) PROVE IInv'
  <2>1. Refresh(r, "done") /\ UNCHANGED <<table, approvals, wordings, sent>>
    BY <1>12 DEF Respond
  <2> QED
    BY <1>9, <2>1 DEF Stages, Granted, Undecided, Unsent
<1> QED
  BY <1>4, <1>5, <1>6, <1>7, <1>8, <1>10, <1>11, <1>12, SendInv DEF ServerStep

LEMMA AbortInv ==
    ASSUME IInv, NEW r \in Requests, Abort(r)
    PROVE  IInv'
<1>1. /\ req[r].at \notin {"idle", "not found"}
      /\ req' = [req EXCEPT ![r].at = "aborted"]
      /\ UNCHANGED <<table, approvals, wordings, sent>>
  BY DEF Abort, InFlight, Stages
<1>2. req[r] \in Call
  BY <1>1, LoadedCall DEF IInv
<1>3. req'[r] = [req[r] EXCEPT !.at = "aborted"]
  BY <1>1 DEF IInv, TypeOK
<1>4. /\ req'[r] \in Call /\ req'[r].at = "aborted" /\ req'[r].action = req[r].action
      /\ req'[r].user = req[r].user /\ req'[r].snapshot = req[r].snapshot
  BY <1>2, <1>3 DEF Call, Stages
<1>5. /\ req' \in [Requests -> Call \cup {NoCall}]
      /\ \A q \in Requests \ {r} : req'[q] = req[q]
  BY <1>1, <1>4 DEF IInv, TypeOK
<1> QED
  BY <1>1, <1>4, <1>5, CallMoves DEF Granted, Undecided, Unsent

LEMMA InitInv == Init => IInv
<1> SUFFICES ASSUME Init PROVE IInv
  OBVIOUS
<1>1. NoCall.at = "idle" /\ \A r \in Requests : req[r] = NoCall
  BY DEF Init, NoCall
<1>2. \A r \in Requests : req[r].at = "idle"
  BY <1>1
<1>3. TypeOK
  BY DEF Init, TypeOK
<1>4. GatedDelivery /\ ExecutedWasSent /\ DraftInv
  BY DEF Init, GatedDelivery, ExecutedWasSent, DraftInv, Exists
<1>5. SessionInv
  BY <1>2 DEF SessionInv
<1>6. StageInv
  BY <1>2 DEF Init, StageInv, SentBy, Granted, Undecided, Unsent
<1> QED
  BY <1>3, <1>4, <1>5, <1>6 DEF IInv

LEMMA NextInv == IInv /\ [Next]_vars => IInv'
<1>1. ASSUME IInv, Next PROVE IInv'
  BY <1>1, ProposeInv, ArriveInv, ServerStepInv, AbortInv DEF Next
<1>2. ASSUME IInv, UNCHANGED vars PROVE IInv'
  BY <1>2 DEF vars, IInv, TypeOK, GatedDelivery, ExecutedWasSent, SessionInv, DraftInv,
              StageInv, SentFor, SentBy, Exists
<1> QED
  BY <1>1, <1>2

-----------------------------------------------------------------------------
(* The theorems *)

\* The inductive invariant holds in every reachable state.
THEOREM Invariance == Spec => []IInv
BY InitInv, NextInv, PTL DEF Spec

\* The table, the calls and the messages always have their types.
THEOREM TypeCorrectness == Spec => []TypeOK
<1>1. IInv => TypeOK
  BY DEF IInv
<1> QED
  BY <1>1, Invariance, PTL

\* No message leaves without its own call's approval, by a user of the org that
\* owns the action, however many calls race on however many rows.
THEOREM DeliveryIsGated == Spec => []GatedDelivery
<1>1. IInv => GatedDelivery
  BY DEF IInv
<1> QED
  BY <1>1, Invariance, PTL

\* A row is never recorded as executed unless a message of it left.
THEOREM ExecutionIsReal == Spec => []ExecutedWasSent
<1>1. IInv => ExecutedWasSent
  BY DEF IInv
<1> QED
  BY <1>1, Invariance, PTL

-----------------------------------------------------------------------------
(* The refinement: each step is a step of ApprovalGate or a stutter. *)

\* What the gate can see of the queue.
GrantedTo(a) == {r \in approvals : req[r].action = a}
Dispatched(a) == {[by |-> m.by, text |-> m.text] : m \in SentFor(a)}
Acknowledged(a) == Exists(a) /\ table[a].executed_at

\* A step that leaves texts, approvals, messages and execution times alone is a
\* stutter of the gate.
LEMMA GateStutters ==
    ASSUME UNCHANGED <<wordings, approvals, sent>>,
           \A r \in approvals : req'[r].action = req[r].action,
           \A a \in ActionIds : Acknowledged(a)' = Acknowledged(a)
    PROVE  UNCHANGED Gate!vars
<1>1. \A a \in ActionIds : GrantedTo(a)' = GrantedTo(a)
  BY DEF GrantedTo
<1>2. \A a \in ActionIds : Dispatched(a)' = Dispatched(a)
  BY DEF Dispatched, SentFor
<1> QED
  BY <1>1, <1>2 DEF Gate!vars, GrantedTo, Dispatched, Acknowledged

\* How a commit looks to the gate: an execution time appears or nothing does.
LEMMA CommitAcknowledges ==
    ASSUME IInv, NEW r \in Requests, req[r].at \notin {"idle", "not found"},
           NEW new \in Row, NEW s \in Stages, Commit(r, new, s),
           new.executed_at = req[r].snapshot.executed_at
    PROVE  /\ \A q \in Requests : req'[q].action = req[q].action
           /\ \A a \in ActionIds : Acknowledged(a)' = Acknowledged(a)
<1> DEFINE old == table[req[r].action]
           seen == req[r].snapshot
           flushed == Flush(old, seen, new)
<1>1. /\ req[r].action \in ActionIds /\ old \in Row /\ seen \in Row
      /\ \A b \in ActionIds \ {req[r].action} : table'[b] = table[b]
      /\ table'[req[r].action] = flushed
      /\ table'[req[r].action] \in Row
      /\ \A q \in Requests : req'[q].action = req[q].action
  BY CommitEffect, LoadedCall DEF IInv
<1> HIDE DEF old, seen
<1>2. new.executed_at = seen.executed_at
  BY DEF seen
<1>3. flushed.executed_at = old.executed_at
  BY <1>1, <1>2, FlushRow, ZenonT(30)
<1> HIDE DEF flushed
<1> QED
  BY <1>1, <1>3, NoRowAssumption DEF Acknowledged, Exists, old

LEMMA ProposeRefines ==
    ASSUME IInv, Propose
    PROVE  Gate!Next
<1> PICK a \in ActionIds, org \in Orgs, category \in Categories, reachable \in BOOLEAN,
         draft \in Wordings : CreateAction(a, org, category, draft, reachable)
  BY DEF Propose, Wordings
<1> DEFINE new == [org |-> org, category |-> category, status |-> "pending",
                   approved_by |-> Nobody, executed_at |-> FALSE, error |-> "none",
                   message_draft |-> draft, reachable |-> reachable]
<1>1. /\ table[a] = NoRow
      /\ table' = [table EXCEPT ![a] = new]
      /\ wordings' = [wordings EXCEPT ![a] = @ \cup {draft}]
      /\ req' = req /\ approvals' = approvals /\ sent' = sent
  BY DEF CreateAction, Exists
<1>2. new.executed_at = FALSE
  OBVIOUS
<1> HIDE DEF new
<1>3. \A b \in ActionIds : Acknowledged(b)' = Acknowledged(b)
  BY <1>1, <1>2 DEF Acknowledged, Exists, IInv, TypeOK
<1>4. \A b \in ActionIds : GrantedTo(b)' = GrantedTo(b)
  BY <1>1 DEF GrantedTo
<1>5. \A b \in ActionIds : Dispatched(b)' = Dispatched(b)
  BY <1>1 DEF Dispatched, SentFor
<1>6. Gate!Write(a, draft)
  BY <1>1, <1>3, <1>4, <1>5 DEF Gate!Write, GrantedTo, Dispatched, Acknowledged
<1> QED
  BY <1>6 DEF Gate!Next

LEMMA ArriveRefines ==
    ASSUME IInv, NEW r \in Requests, Arrive(r)
    PROVE  UNCHANGED Gate!vars
<1>1. /\ req[r] = NoCall
      /\ \A q \in Requests \ {r} : req'[q] = req[q]
      /\ UNCHANGED <<table, approvals, wordings, sent>>
  BY DEF Arrive, Load, IInv, TypeOK
<1>2. NoCall.at = "idle"
  BY DEF NoCall
<1>3. r \notin approvals
  BY <1>1, <1>2 DEF IInv, StageInv, Undecided
<1>4. \A q \in approvals : req'[q].action = req[q].action
  BY <1>1, <1>3 DEF IInv, TypeOK
<1>5. \A a \in ActionIds : Acknowledged(a)' = Acknowledged(a)
  BY <1>1 DEF Acknowledged, Exists
<1> QED
  BY <1>1, <1>4, <1>5, GateStutters

LEMMA WriteOverrideRefines ==
    ASSUME IInv, NEW r \in Requests, WriteOverride(r)
    PROVE  Gate!Next
<1> DEFINE row == req[r].snapshot
           text == req[r].message_override
           new == [row EXCEPT !.message_draft = text]
<1>1. /\ req[r].at \notin {"idle", "not found"}
      /\ Commit(r, new, "override written")
      /\ wordings' = [wordings EXCEPT ![req[r].action] = @ \cup {text}]
      /\ UNCHANGED <<approvals, sent>> /\ text # NoOverride
  BY DEF WriteOverride, HasOverride
<1>2. /\ req[r] \in Call /\ req[r].action \in ActionIds /\ row \in Row
  BY <1>1, LoadedCall DEF IInv
<1>3. text \in Wordings
  BY <1>1, <1>2 DEF Call
<1>4. new \in Row /\ new.executed_at = row.executed_at
  BY <1>2, <1>3 DEF Row
<1> HIDE DEF new
<1>5. /\ \A q \in Requests : req'[q].action = req[q].action
      /\ \A a \in ActionIds : Acknowledged(a)' = Acknowledged(a)
  BY <1>1, <1>4, CommitAcknowledges DEF Stages
<1>6. \A a \in ActionIds : GrantedTo(a)' = GrantedTo(a)
  BY <1>1, <1>5 DEF GrantedTo, IInv, TypeOK
<1>7. \A a \in ActionIds : Dispatched(a)' = Dispatched(a)
  BY <1>1 DEF Dispatched, SentFor
<1>8. Gate!Write(req[r].action, text)
  BY <1>1, <1>5, <1>6, <1>7 DEF Gate!Write, GrantedTo, Dispatched, Acknowledged
<1> QED
  BY <1>2, <1>3, <1>8 DEF Gate!Next

LEMMA WriteApprovalRefines ==
    ASSUME IInv, NEW r \in Requests, WriteApproval(r)
    PROVE  Gate!Next
<1> DEFINE row == req[r].snapshot
           new == [row EXCEPT !.status = "approved", !.approved_by = req[r].user]
<1>1. /\ req[r].at \in {"loaded", "ready"}
      /\ Commit(r, new, "approval written")
      /\ approvals' = approvals \cup {r} /\ UNCHANGED <<wordings, sent>>
  BY DEF WriteApproval
<1>2. /\ req[r] \in Call /\ req[r].action \in ActionIds /\ row \in Row
  BY <1>1, LoadedCall DEF IInv
<1>3. new \in Row /\ new.executed_at = row.executed_at
  BY <1>2 DEF Row, Statuses, Call
<1> HIDE DEF new
<1>4. /\ \A q \in Requests : req'[q].action = req[q].action
      /\ \A a \in ActionIds : Acknowledged(a)' = Acknowledged(a)
  BY <1>1, <1>3, CommitAcknowledges DEF Stages
<1>5. r \notin approvals
  BY <1>1 DEF IInv, StageInv, Undecided
<1>6. PICK a \in ActionIds : a = req[r].action
  BY <1>2
<1>7. /\ GrantedTo(a)' = GrantedTo(a) \cup {r}
      /\ \A b \in ActionIds \ {a} : GrantedTo(b)' = GrantedTo(b)
  BY <1>1, <1>4, <1>6 DEF GrantedTo, IInv, TypeOK
<1>8. \A b \in ActionIds : Dispatched(b)' = Dispatched(b)
  BY <1>1 DEF Dispatched, SentFor
<1>9. \A b \in ActionIds : r \notin GrantedTo(b)
  BY <1>5 DEF GrantedTo
<1>10. Gate!Grant(a, r)
  <2> DEFINE granted == [b \in ActionIds |-> GrantedTo(b)]
  <2>1. granted' = [granted EXCEPT ![a] = @ \cup {r}]
    BY <1>7
  <2> QED
    BY <1>1, <1>4, <1>8, <1>9, <2>1 DEF Gate!Grant, GrantedTo, Dispatched, Acknowledged
<1> QED
  BY <1>10 DEF Gate!Next

LEMMA SendRefines ==
    ASSUME IInv, NEW r \in Requests, Deliver(r) \/ FailSend(r)
    PROVE  Gate!Next \/ UNCHANGED Gate!vars
<1> DEFINE text == req[r].snapshot.message_draft
           message == [by |-> r, action |-> req[r].action, text |-> text]
<1>1. /\ req[r].at = "sending"
      /\ UNCHANGED <<table, approvals, wordings>>
      /\ \A q \in Requests : req'[q].action = req[q].action
  <2>1. /\ req[r].at = "sending"
        /\ UNCHANGED <<table, approvals, wordings>>
        /\ \E s \in Stages : req' = [req EXCEPT ![r].at = s]
    BY DEF Deliver, FailSend, Stages
  <2>2. req[r] \in Call
    BY <2>1, LoadedCall DEF IInv
  <2> QED
    BY <2>1, <2>2 DEF IInv, TypeOK, Call
<1>2. /\ req[r].action \in ActionIds /\ r \in approvals
      /\ text \in wordings[req[r].action] /\ text \in Wordings
      /\ SentBy(r) = {}
  <2>1. /\ req[r].action \in ActionIds /\ req[r].snapshot \in Row
        /\ text \in wordings[req[r].action]
    BY <1>1, LoadedCall DEF IInv
  <2> QED
    BY <1>1, <2>1 DEF IInv, StageInv, Granted, Unsent, Row
<1>3. sent' = sent \/ sent' = sent \cup {message}
  BY Zenon DEF Deliver, FailSend
<1>4. \A b \in ActionIds : Acknowledged(b)' = Acknowledged(b)
  BY <1>1 DEF Acknowledged, Exists
<1>5. CASE sent' = sent
  BY <1>1, <1>4, <1>5, GateStutters DEF IInv, TypeOK
<1>6. CASE sent' = sent \cup {message}
  <2>1. PICK a \in ActionIds : a = req[r].action
    BY <1>2
  <2>2. PICK w \in Wordings : w = text
    BY <1>2
  <2>3. message.by = r /\ message.action = a /\ message.text = w
    BY <2>1, <2>2
  <2> HIDE DEF message
  <2>4. /\ Dispatched(a)' = Dispatched(a) \cup {[by |-> r, text |-> w]}
        /\ \A b \in ActionIds \ {a} : Dispatched(b)' = Dispatched(b)
    <3>1. /\ SentFor(a)' = SentFor(a) \cup {message}
          /\ \A b \in ActionIds \ {a} : SentFor(b)' = SentFor(b)
      BY <1>6, <2>3 DEF SentFor
    <3> QED
      BY <3>1, <2>3 DEF Dispatched
  <2>5. \A b \in ActionIds : GrantedTo(b)' = GrantedTo(b)
    BY <1>1 DEF GrantedTo, IInv, TypeOK
  <2>6. r \in GrantedTo(a) /\ w \in wordings[a]
    BY <1>2, <2>1, <2>2 DEF GrantedTo
  <2>7. \A m \in Dispatched(a) : m.by # r
    BY <1>2 DEF Dispatched, SentFor, SentBy
  <2>8. Gate!Dispatch(a, r, w)
    <3> DEFINE dispatched == [b \in ActionIds |-> Dispatched(b)]
    <3>1. dispatched' = [dispatched EXCEPT ![a] = @ \cup {[by |-> r, text |-> w]}]
      BY <2>4
    <3>2. r \in [b \in ActionIds |-> GrantedTo(b)][a]
      BY <2>6
    <3>3. \A m \in dispatched[a] : m.by # r
      BY <2>7
    <3> QED
      BY <1>1, <1>4, <2>5, <2>6, <3>1, <3>2, <3>3
      DEF Gate!Dispatch, GrantedTo, Dispatched, Acknowledged
  <2> QED
    BY <2>8, <1>2 DEF Gate!Next, IInv, TypeOK
<1> QED
  BY <1>3, <1>5, <1>6

LEMMA MarkExecutedRefines ==
    ASSUME IInv, NEW r \in Requests, MarkExecuted(r)
    PROVE  Gate!Next \/ UNCHANGED Gate!vars
<1> DEFINE seen == req[r].snapshot
           new == [seen EXCEPT !.status = "executed", !.executed_at = TRUE]
<1>1. /\ req[r].at = "delivered" /\ Commit(r, new, "outcome written")
      /\ UNCHANGED <<approvals, wordings, sent>>
  BY DEF MarkExecuted
<1>2. PICK a \in ActionIds : a = req[r].action
  BY <1>1, LoadedCall DEF IInv
<1> DEFINE old == table[a]
           row == Flush(old, seen, new)
<1>3. seen \in Row /\ old \in Row
  BY <1>1, <1>2, LoadedCall DEF IInv
<1>4. new \in Row /\ new.executed_at = TRUE
  BY <1>3 DEF Row, Statuses
<1> HIDE DEF new
<1>5. /\ \A b \in ActionIds \ {a} : table'[b] = table[b]
      /\ table'[a] = row /\ table'[a] \in Row
      /\ \A q \in Requests : req'[q].action = req[q].action
  BY <1>1, <1>2, <1>4, CommitEffect DEF IInv, Stages
<1>6. PICK m \in sent : m.by = r /\ m.action = a
  <2>1. PICK m \in sent : m.by = r
    BY <1>1 DEF IInv, StageInv, SentBy
  <2>2. m.action = a
    BY <1>2, <2>1 DEF IInv, GatedDelivery
  <2> QED
    BY <2>1, <2>2
<1>7. \A b \in ActionIds : GrantedTo(b)' = GrantedTo(b)
  BY <1>1, <1>5 DEF GrantedTo, IInv, TypeOK
<1>8. \A b \in ActionIds : Dispatched(b)' = Dispatched(b)
  BY <1>1 DEF Dispatched, SentFor
<1>9. Dispatched(a) # {}
  BY <1>6 DEF Dispatched, SentFor
<1>10. \A b \in ActionIds \ {a} : Acknowledged(b)' = Acknowledged(b)
  BY <1>5 DEF Acknowledged, Exists
<1>11. /\ seen.executed_at = TRUE => row.executed_at = old.executed_at
       /\ seen.executed_at # TRUE => row.executed_at = TRUE
  <2>1. seen.executed_at = TRUE => new.executed_at = seen.executed_at
    BY <1>4
  <2>2. seen.executed_at # TRUE => new.executed_at # seen.executed_at
    BY <1>4
  <2> HIDE DEF seen, old
  <2>3. new.executed_at = seen.executed_at => row.executed_at = old.executed_at
    BY <1>3, <1>4, FlushRow
  <2>4. new.executed_at # seen.executed_at => row.executed_at = new.executed_at
    BY <1>3, <1>4, FlushRow
  <2> HIDE DEF row
  <2> QED
    BY <1>4, <2>1, <2>2, <2>3, <2>4
<1>12. Acknowledged(a) = old.executed_at /\ Acknowledged(a)' = row.executed_at
  <2>1. Exists(a) /\ Exists(a)'
    BY <1>3, <1>5, NoRowAssumption DEF Exists
  <2>2. table'[a].executed_at = row.executed_at /\ table'[a].executed_at \in BOOLEAN
    <3> HIDE DEF row
    <3> QED
      BY <1>5 DEF Row
  <2>3. old.executed_at \in BOOLEAN
    BY <1>3 DEF Row
  <2> QED
    BY <2>1, <2>2, <2>3, Zenon DEF Acknowledged
<1> HIDE DEF old, row
<1>13. CASE seen.executed_at = TRUE
  <2>1. Acknowledged(a)' = Acknowledged(a)
    BY <1>11, <1>12, <1>13
  <2> QED
    BY <1>1, <1>5, <1>10, <2>1, GateStutters DEF IInv, TypeOK
<1>14. CASE seen.executed_at # TRUE
  <2>1. Acknowledged(a)' = TRUE
    BY <1>11, <1>12, <1>14
  <2>2. Gate!Acknowledge(a)
    <3> DEFINE acknowledged == [b \in ActionIds |-> Acknowledged(b)]
    <3>1. acknowledged' = [acknowledged EXCEPT ![a] = TRUE]
      BY <1>10, <2>1
    <3>2. [b \in ActionIds |-> Dispatched(b)][a] # {}
      BY <1>9
    <3> QED
      BY <1>1, <1>7, <1>8, <3>1, <3>2
      DEF Gate!Acknowledge, GrantedTo, Dispatched, Acknowledged
  <2> QED
    BY <2>2 DEF Gate!Next
<1> QED
  BY <1>13, <1>14

\* The commits that leave execution times alone.
LEMMA OutcomeRefines ==
    ASSUME IInv, NEW r \in Requests, MarkError(r) \/ WriteRejection(r)
    PROVE  UNCHANGED Gate!vars
<1> DEFINE seen == req[r].snapshot
<1>1. /\ req[r].at \notin {"idle", "not found"}
      /\ UNCHANGED <<approvals, wordings, sent>>
  BY DEF MarkError, WriteRejection
<1>2. req[r] \in Call /\ seen \in Row
  BY <1>1, LoadedCall DEF IInv
<1>3. PICK new \in Row : /\ Commit(r, new, "outcome written")
                         /\ new.executed_at = seen.executed_at
  <2>1. CASE MarkError(r)
    <3> DEFINE row == [seen EXCEPT !.error = IF req[r].at = "send failed" THEN "send failed"
                                             ELSE "missing draft or vendor"]
    <3>1. row \in Row /\ row.executed_at = seen.executed_at
      BY <1>2 DEF Row, Errors
    <3>2. Commit(r, row, "outcome written")
      BY <2>1 DEF MarkError
    <3> HIDE DEF row
    <3> QED
      BY <3>1, <3>2, <1>1
  <2>2. CASE WriteRejection(r)
    <3> DEFINE row == [seen EXCEPT !.status = "rejected", !.approved_by = req[r].user]
    <3>1. row \in Row /\ row.executed_at = seen.executed_at
      BY <1>2 DEF Row, Statuses, Call
    <3>2. Commit(r, row, "outcome written")
      BY <2>2 DEF WriteRejection
    <3> HIDE DEF row
    <3> QED
      BY <3>1, <3>2, <1>1
  <2> QED
    BY <2>1, <2>2
<1>4. /\ \A q \in Requests : req'[q].action = req[q].action
      /\ \A a \in ActionIds : Acknowledged(a)' = Acknowledged(a)
  BY <1>1, <1>3, CommitAcknowledges DEF Stages
<1> QED
  BY <1>1, <1>4, GateStutters DEF IInv, TypeOK

\* The steps that move only the call.
LEMMA MoveRefines ==
    ASSUME IInv, NEW r \in Requests,
           RefreshOverride(r) \/ RefreshApproval(r) \/ Respond(r) \/ Abort(r)
    PROVE  UNCHANGED Gate!vars
<1>1. /\ req[r].at \notin {"idle", "not found"}
      /\ UNCHANGED <<table, approvals, wordings, sent>>
  BY DEF RefreshOverride, RefreshApproval, Respond, Abort, InFlight, Stages
<1>2. \A q \in Requests : req'[q].action = req[q].action
  <2>1. req[r] \in Call
    BY <1>1, LoadedCall DEF IInv
  <2>2. CASE Abort(r)
    BY <2>1, <2>2 DEF Abort, IInv, TypeOK, Call
  <2>3. CASE RefreshOverride(r) \/ RefreshApproval(r) \/ Respond(r)
    <3>1. PICK s \in Stages : Refresh(r, s)
      BY <2>3 DEF RefreshOverride, RefreshApproval, Respond, Stages
    <3> QED
      BY <1>1, <3>1, RefreshEffect DEF IInv
  <2> QED
    BY <2>2, <2>3
<1>3. \A a \in ActionIds : Acknowledged(a)' = Acknowledged(a)
  BY <1>1 DEF Acknowledged, Exists
<1> QED
  BY <1>1, <1>2, <1>3, GateStutters DEF IInv, TypeOK

LEMMA InitRefines == Init => Gate!Init
<1> SUFFICES ASSUME Init PROVE Gate!Init
  OBVIOUS
<1>1. \A a \in ActionIds : GrantedTo(a) = {} /\ Dispatched(a) = {} /\ Acknowledged(a) = FALSE
  BY DEF Init, GrantedTo, Dispatched, SentFor, Acknowledged, Exists
<1>2. wordings = [a \in ActionIds |-> {}]
  BY DEF Init
<1> QED
  BY <1>1, <1>2 DEF Gate!Init, GrantedTo, Dispatched, Acknowledged

LEMMA NextRefines == IInv /\ [Next]_vars => [Gate!Next]_(Gate!vars)
<1>1. ASSUME IInv, Propose PROVE Gate!Next
  BY <1>1, ProposeRefines
<1>2. ASSUME IInv, NEW r \in Requests, Arrive(r) \/ ServerStep(r) \/ Abort(r)
      PROVE  Gate!Next \/ UNCHANGED Gate!vars
  BY <1>2, ArriveRefines, WriteOverrideRefines, WriteApprovalRefines, SendRefines,
     MarkExecutedRefines, OutcomeRefines, MoveRefines DEF ServerStep
<1>3. ASSUME IInv, UNCHANGED vars PROVE UNCHANGED Gate!vars
  <2>1. \A a \in ActionIds : Acknowledged(a)' = Acknowledged(a)
    BY <1>3 DEF vars, Acknowledged, Exists
  <2> QED
    BY <1>3, <2>1, GateStutters DEF vars
<1> QED
  BY <1>1, <1>2, <1>3 DEF Next

\* The queue implements the approval gate: whatever the commits and crashes of
\* racing calls, at most one message per granted call leaves, for the action it
\* was granted for, in a wording written down for it, and executed_at is set
\* only after a send.
THEOREM Refinement == Spec => ImplementsGate
<1>1. Init => Gate!Init
  BY InitRefines
<1>2. IInv /\ [Next]_vars => [Gate!Next]_(Gate!vars)
  BY NextRefines
<1> QED
  BY <1>1, <1>2, Invariance, PTL DEF Spec, Gate!Spec, ImplementsGate

-----------------------------------------------------------------------------
(* No approval of a vendor order ends in silence, however many calls race on *)
(* its row and whichever of them die.                                        *)


\* A row may change only so: its category stays, and so does a record.
Grown(old, new) ==
    /\ new.category = old.category
    /\ old.executed_at => new.executed_at
    /\ old.error # "none" => new.error # "none"

\* What a call keeps of its row it keeps of a grown one.
LEMMA KeepsGrown ==
    ASSUME NEW c, NEW old, NEW new, Keeps(c, old), Grown(old, new)
    PROVE  Keeps(c, new)
BY DEF Keeps, Grown, Recorded

\* The columns that matter here, after a commit.
LEMMA FlushColumns ==
    ASSUME NEW row \in Row, NEW snapshot \in Row, NEW new \in Row
    PROVE  /\ Flush(row, snapshot, new).category =
                IF new.category # snapshot.category THEN new.category ELSE row.category
           /\ Flush(row, snapshot, new).executed_at =
                IF new.executed_at # snapshot.executed_at THEN new.executed_at ELSE row.executed_at
           /\ Flush(row, snapshot, new).error =
                IF new.error # snapshot.error THEN new.error ELSE row.error
<1>1. DOMAIN row = {"org", "category", "status", "approved_by", "executed_at",
                    "error", "message_draft", "reachable"}
  BY DEF Row
<1> QED
  BY <1>1 DEF Flush

\* A commit that records an outcome, or leaves what is recorded alone, lets the
\* row grow, and what it records is there although its snapshot was stale.
LEMMA CommitGrows ==
    ASSUME NEW row \in Row, NEW snapshot \in Row, NEW new \in Row,
           row.category = snapshot.category,
           snapshot.executed_at => row.executed_at,
           snapshot.error # "none" => row.error # "none",
           new.category = snapshot.category,
           snapshot.executed_at => new.executed_at,
           snapshot.error # "none" => new.error # "none"
    PROVE  /\ Grown(row, Flush(row, snapshot, new))
           /\ Recorded(new) => Recorded(Flush(row, snapshot, new))
<1> DEFINE f == Flush(row, snapshot, new)
<1>1. /\ f.category = row.category
      /\ f.executed_at = IF new.executed_at # snapshot.executed_at THEN new.executed_at ELSE row.executed_at
      /\ f.error = IF new.error # snapshot.error THEN new.error ELSE row.error
  BY FlushColumns
<1>2. /\ row.executed_at \in BOOLEAN /\ snapshot.executed_at \in BOOLEAN
      /\ new.executed_at \in BOOLEAN
  BY DEF Row
<1> HIDE DEF f
<1>3. Grown(row, f)
  BY <1>1, <1>2 DEF Grown
<1>4. Recorded(new) => Recorded(f)
  BY <1>1, <1>2 DEF Recorded
<1> QED
  BY <1>3, <1>4 DEF f

\* The steps that only move a call.
LEMMA MoveKeeps ==
    ASSUME IInv, OutcomeInv, NEW r \in Requests, req[r].at \notin {"idle", "not found"},
           UNCHANGED table,
           \A q \in Requests \ {r} : req'[q] = req[q],
           req'[r].action = req[r].action, req'[r].kind = req[r].kind,
           req'[r].snapshot \in {req[r].snapshot, table[req[r].action]},
           req'[r].at # "outcome written",
           req'[r].at = "done" =>
               \/ req[r].at = "outcome written"
               \/ table[req[r].action].category # WhatsAppOrder
    PROVE  OutcomeInv'
<1> SUFFICES ASSUME NEW q \in Requests
             PROVE  Keeps(req[q], table[req[q].action])'
  BY DEF OutcomeInv
<1>1. Keeps(req[q], table[req[q].action])
  BY DEF OutcomeInv
<1>2. CASE q # r
  BY <1>1, <1>2
<1>3. CASE q = r
  BY <1>1, <1>3 DEF Keeps
<1> QED
  BY <1>2, <1>3

\* The steps that commit.
LEMMA CommitKeeps ==
    ASSUME IInv, OutcomeInv, NEW r \in Requests, req[r].at \notin {"idle", "not found"},
           NEW new \in Row, NEW s \in Stages, Commit(r, new, s),
           new.category = req[r].snapshot.category,
           req[r].snapshot.executed_at => new.executed_at,
           req[r].snapshot.error # "none" => new.error # "none",
           s # "done",
           s = "outcome written" /\ req[r].kind = "approve" => Recorded(new)
    PROVE  OutcomeInv'
<1> DEFINE a == req[r].action
<1>1. /\ req[r] \in Call /\ a \in ActionIds
      /\ req[r].snapshot \in Row /\ table[a] \in Row
  BY LoadedCall DEF IInv
<1>2. /\ \A b \in ActionIds \ {a} : table'[b] = table[b]
      /\ table'[a] = Flush(table[a], req[r].snapshot, new)
      /\ \A q \in Requests \ {r} : req'[q] = req[q]
      /\ req'[r].at = s /\ req'[r].action = a
      /\ req'[r].snapshot = req[r].snapshot
  BY CommitEffect DEF IInv
<1>3. req'[r].kind = req[r].kind
  BY <1>1 DEF Commit, Call, IInv, TypeOK
<1>4. Keeps(req[r], table[a])
  BY DEF OutcomeInv
<1>5. Grown(table[a], table'[a]) /\ (Recorded(new) => Recorded(table'[a]))
  BY <1>1, <1>2, <1>4, CommitGrows DEF Keeps
<1> SUFFICES ASSUME NEW q \in Requests
             PROVE  Keeps(req[q], table[req[q].action])'
  BY DEF OutcomeInv
<1>6. CASE q = r
  <2>1. Keeps(req[r], table'[a])
    BY <1>4, <1>5, KeepsGrown
  <2> QED
    BY <1>2, <1>3, <1>5, <1>6, <2>1 DEF Keeps
<1>7. CASE q # r
  <2>1. req'[q] = req[q]
    BY <1>2, <1>7
  <2>2. Keeps(req[q], table[req[q].action])
    BY DEF OutcomeInv
  <2>3. CASE req[q].at \in {"idle", "not found"}
    BY <2>1, <2>3 DEF Keeps
  <2>4. CASE req[q].at \notin {"idle", "not found"}
    <3>1. req[q].action \in ActionIds
      BY <2>4, LoadedCall DEF IInv
    <3>2. CASE req[q].action = a
      BY <1>5, <2>1, <2>2, <3>2, KeepsGrown
    <3>3. CASE req[q].action # a
      BY <1>2, <2>1, <2>2, <3>1, <3>3
    <3> QED
      BY <3>2, <3>3
  <2> QED
    BY <2>3, <2>4
<1> QED
  BY <1>6, <1>7

\* The steps of the server.
LEMMA ServerKeeps ==
    ASSUME IInv, OutcomeInv, NEW r \in Requests, ServerStep(r)
    PROVE  OutcomeInv'
<1>1. req[r].at \notin {"idle", "not found"}
  BY DEF ServerStep, WriteOverride, RefreshOverride, WriteApproval, RefreshApproval,
         Deliver, FailSend, MarkExecuted, MarkError, WriteRejection, Respond
<1>2. /\ req[r] \in Call /\ req[r].action \in ActionIds
      /\ req[r].snapshot \in Row /\ table[req[r].action] \in Row
  BY <1>1, LoadedCall DEF IInv
<1>3. CASE WriteOverride(r)
  <2> DEFINE new == [req[r].snapshot EXCEPT !.message_draft = req[r].message_override]
  <2>1. Commit(r, new, "override written")
    BY <1>3 DEF WriteOverride
  <2>2. /\ new \in Row /\ new.category = req[r].snapshot.category
        /\ new.executed_at = req[r].snapshot.executed_at /\ new.error = req[r].snapshot.error
    BY <1>2, <1>3 DEF WriteOverride, HasOverride, Row, Call
  <2> HIDE DEF new
  <2> QED
    BY <1>1, <2>1, <2>2, CommitKeeps DEF Stages
<1>4. CASE WriteApproval(r)
  <2> DEFINE new == [req[r].snapshot EXCEPT !.status = "approved", !.approved_by = req[r].user]
  <2>1. Commit(r, new, "approval written")
    BY <1>4 DEF WriteApproval
  <2>2. /\ new \in Row /\ new.category = req[r].snapshot.category
        /\ new.executed_at = req[r].snapshot.executed_at /\ new.error = req[r].snapshot.error
    BY <1>2 DEF Row, Call, Statuses
  <2> HIDE DEF new
  <2> QED
    BY <1>1, <2>1, <2>2, CommitKeeps DEF Stages
<1>5. CASE WriteRejection(r)
  <2> DEFINE new == [req[r].snapshot EXCEPT !.status = "rejected", !.approved_by = req[r].user]
  <2>1. Commit(r, new, "outcome written") /\ req[r].kind = "reject"
    BY <1>5 DEF WriteRejection
  <2>2. /\ new \in Row /\ new.category = req[r].snapshot.category
        /\ new.executed_at = req[r].snapshot.executed_at /\ new.error = req[r].snapshot.error
    BY <1>2 DEF Row, Call, Statuses
  <2> HIDE DEF new
  <2> QED
    BY <1>1, <2>1, <2>2, CommitKeeps DEF Stages
<1>6. CASE MarkExecuted(r)
  <2> DEFINE new == [req[r].snapshot EXCEPT !.status = "executed", !.executed_at = TRUE]
  <2>1. Commit(r, new, "outcome written")
    BY <1>6 DEF MarkExecuted
  <2>2. /\ new \in Row /\ new.category = req[r].snapshot.category
        /\ new.executed_at /\ new.error = req[r].snapshot.error
    BY <1>2 DEF Row, Statuses
  <2> HIDE DEF new
  <2>3. Recorded(new)
    BY <2>2 DEF Recorded
  <2> QED
    BY <1>1, <2>1, <2>2, <2>3, CommitKeeps DEF Stages
<1>7. CASE MarkError(r)
  <2> DEFINE cause == IF req[r].at = "send failed" THEN "send failed" ELSE "missing draft or vendor"
             new == [req[r].snapshot EXCEPT !.error = cause]
  <2>1. Commit(r, new, "outcome written")
    BY <1>7 DEF MarkError
  <2>2. /\ new \in Row /\ new.category = req[r].snapshot.category
        /\ new.executed_at = req[r].snapshot.executed_at /\ new.error # "none"
    BY <1>2 DEF Row, Errors
  <2> HIDE DEF new
  <2>3. Recorded(new)
    BY <2>2 DEF Recorded
  <2> QED
    BY <1>1, <2>1, <2>2, <2>3, CommitKeeps DEF Stages
<1>8. CASE RefreshOverride(r)
  <2>1. UNCHANGED table /\ Refresh(r, "ready")
    BY <1>8 DEF RefreshOverride
  <2>2. req'[r].kind = req[r].kind
    BY <1>2, <2>1 DEF Refresh, Call, IInv, TypeOK
  <2>3. /\ \A q \in Requests \ {r} : req'[q] = req[q]
        /\ req'[r].at = "ready" /\ req'[r].action = req[r].action
        /\ req'[r].snapshot = table[req[r].action]
    BY <1>1, <2>1, RefreshEffect DEF Stages, IInv
  <2> QED
    BY <1>1, <2>1, <2>2, <2>3, MoveKeeps
<1>9. CASE RefreshApproval(r)
  <2> DEFINE row == table[req[r].action]
             s == IF row.category # WhatsAppOrder THEN "done"
                  ELSE IF Sendable(row) THEN "sending" ELSE "nothing to send"
  <2>1. UNCHANGED table /\ Refresh(r, s)
    BY <1>9 DEF RefreshApproval
  <2>2. s \in {"done", "sending", "nothing to send"} /\ (s = "done" => row.category # WhatsAppOrder)
    OBVIOUS
  <2> HIDE DEF s
  <2>3. req'[r].kind = req[r].kind
    BY <1>2, <2>1 DEF Refresh, Call, IInv, TypeOK
  <2>4. /\ \A q \in Requests \ {r} : req'[q] = req[q]
        /\ req'[r].at = s /\ req'[r].action = req[r].action
        /\ req'[r].snapshot = table[req[r].action]
    BY <1>1, <2>1, <2>2, RefreshEffect DEF Stages, IInv
  <2> QED
    BY <1>1, <2>1, <2>2, <2>3, <2>4, MoveKeeps
<1>10. CASE Respond(r)
  <2>1. UNCHANGED table /\ Refresh(r, "done") /\ req[r].at = "outcome written"
    BY <1>10 DEF Respond
  <2>2. req'[r].kind = req[r].kind
    BY <1>2, <2>1 DEF Refresh, Call, IInv, TypeOK
  <2>3. /\ \A q \in Requests \ {r} : req'[q] = req[q]
        /\ req'[r].at = "done" /\ req'[r].action = req[r].action
        /\ req'[r].snapshot = table[req[r].action]
    BY <1>1, <2>1, RefreshEffect DEF Stages, IInv
  <2> QED
    BY <1>1, <2>1, <2>2, <2>3, MoveKeeps
<1>11. CASE Deliver(r) \/ FailSend(r)
  <2>1. UNCHANGED table /\ \E s \in {"delivered", "send failed"} : req' = [req EXCEPT ![r].at = s]
    BY <1>11 DEF Deliver, FailSend
  <2>2. /\ \A q \in Requests \ {r} : req'[q] = req[q]
        /\ req'[r].at \in {"delivered", "send failed"} /\ req'[r].action = req[r].action
        /\ req'[r].kind = req[r].kind /\ req'[r].snapshot = req[r].snapshot
    BY <1>2, <2>1, ZenonT(30) DEF Call, IInv, TypeOK
  <2> QED
    BY <1>1, <2>1, <2>2, MoveKeeps
<1> QED
  BY <1>3, <1>4, <1>5, <1>6, <1>7, <1>8, <1>9, <1>10, <1>11 DEF ServerStep

LEMMA NextKeeps == IInv /\ OutcomeInv /\ [Next]_vars => OutcomeInv'
<1> SUFFICES ASSUME IInv, OutcomeInv, [Next]_vars
             PROVE  OutcomeInv'
  OBVIOUS
<1>1. CASE UNCHANGED vars
  BY <1>1 DEF vars, OutcomeInv
<1>2. CASE Propose
  <2>1. /\ UNCHANGED req
        /\ \E a \in ActionIds : ~Exists(a) /\ \A b \in ActionIds \ {a} : table'[b] = table[b]
    BY <1>2 DEF Propose, CreateAction, IInv, TypeOK
  <2> SUFFICES ASSUME NEW r \in Requests
               PROVE  Keeps(req[r], table[req[r].action])'
    BY DEF OutcomeInv
  <2>2. Keeps(req[r], table[req[r].action])
    BY DEF OutcomeInv
  <2>3. CASE req[r].at \in {"idle", "not found"}
    BY <2>1, <2>3 DEF Keeps
  <2>4. CASE req[r].at \notin {"idle", "not found"}
    <3>1. req[r].action \in ActionIds /\ Exists(req[r].action)
      BY <2>4, LoadedCall DEF IInv, SessionInv
    <3> QED
      BY <2>1, <2>2, <3>1
  <2> QED
    BY <2>3, <2>4
<1>3. ASSUME NEW r \in Requests, Arrive(r)
      PROVE  OutcomeInv'
  <2> PICK kind \in {"approve", "reject"}, u \in Users, a \in ActionIds,
           o \in Wordings \cup {NoOverride} : Load(r, kind, u, a, o)
    BY <1>3 DEF Arrive
  <2> DEFINE own == Exists(a) /\ table[a].org = OrgOf[u]
             stage == IF own THEN "loaded" ELSE "not found"
             seen == IF own THEN table[a] ELSE NoRow
             call == [at |-> stage, kind |-> kind, user |-> u, action |-> a,
                      message_override |-> o, snapshot |-> seen]
  <2>1. /\ own => stage = "loaded" /\ seen = table[a]
        /\ ~own => stage = "not found"
    OBVIOUS
  <2>2. UNCHANGED table /\ req' = [req EXCEPT ![r] = call]
    BY DEF Load
  <2> HIDE DEF own, stage, seen
  <2>3. /\ UNCHANGED table
        /\ \A q \in Requests \ {r} : req'[q] = req[q]
        /\ req'[r].at = stage /\ req'[r].action = a /\ req'[r].snapshot = seen
    BY <2>2 DEF IInv, TypeOK
  <2> SUFFICES ASSUME NEW q \in Requests
               PROVE  Keeps(req[q], table[req[q].action])'
    BY DEF OutcomeInv
  <2>4. CASE q = r
    <3>1. CASE own
      BY <2>1, <2>3, <2>4, <3>1 DEF Keeps
    <3>2. CASE ~own
      BY <2>1, <2>3, <2>4, <3>2 DEF Keeps
    <3> QED
      BY <3>1, <3>2
  <2>5. CASE q # r
    BY <2>3, <2>5 DEF OutcomeInv
  <2> QED
    BY <2>4, <2>5
<1>4. ASSUME NEW r \in Requests, Abort(r)
      PROVE  OutcomeInv'
  <2>1. req[r].at \notin {"idle", "not found"} /\ UNCHANGED table
        /\ req' = [req EXCEPT ![r].at = "aborted"]
    BY <1>4 DEF Abort, InFlight
  <2>2. req[r] \in Call
    BY <2>1, LoadedCall DEF IInv
  <2>3. /\ \A q \in Requests \ {r} : req'[q] = req[q]
        /\ req'[r].at = "aborted" /\ req'[r].action = req[r].action
        /\ req'[r].kind = req[r].kind /\ req'[r].snapshot = req[r].snapshot
    BY <2>1, <2>2 DEF Call, IInv, TypeOK
  <2> QED
    BY <2>1, <2>3, MoveKeeps
<1> QED
  BY <1>1, <1>2, <1>3, <1>4, ServerKeeps DEF Next

\* No approve call of a vendor order is answered while its row shows neither an
\* execution time nor an error, for any number of calls and whatever aborts.
THEOREM NothingIsSilentlyLost == Spec => []NothingSilentlyLost
<1>1. Init => OutcomeInv
  <2> SUFFICES ASSUME Init, NEW r \in Requests
               PROVE  Keeps(req[r], table[req[r].action])
    BY DEF OutcomeInv
  <2>1. req[r].at = "idle"
    BY DEF Init, NoCall
  <2> QED
    BY <2>1 DEF Keeps
<1>2. OutcomeInv => NothingSilentlyLost
  BY DEF OutcomeInv, Keeps, NothingSilentlyLost, Recorded
<1>3. Spec => []OutcomeInv
  BY <1>1, NextKeeps, Invariance, PTL DEF Spec
<1> QED
  BY <1>2, <1>3, PTL
-----------------------------------------------------------------------------
(* Calls that have their action to themselves *)

\* A commit over a snapshot that is what the row is writes the new row.
LEMMA FlushFresh ==
    ASSUME NEW row \in Row, NEW new \in Row
    PROVE  Flush(row, row, new) = new
<1>1. DOMAIN row = DOMAIN new /\ new = [c \in DOMAIN new |-> new[c]]
  BY DEF Row
<1>2. Flush(row, row, new) = [c \in DOMAIN row |-> new[c]]
  BY DEF Flush
<1> QED
  BY <1>1, <1>2

\* What the stages of a serial call need to know of its next state.
LEMMA SerialOf ==
    ASSUME NEW r \in Requests, SerialInv, Alone(r), req[r].at \notin {"idle", "not found"}
    PROVE  Serial(req[r], table[req[r].action], SentBy(r))
BY DEF SerialInv

\* A step of call r touches no row but its own, so that the calls that share theirs
\* with none are not concerned.
LEMMA StepSerial ==
    ASSUME IInv, FreshInv, SerialInv,
           NEW r \in Requests, req[r].at \notin {"idle", "not found"},
           NEW c \in Call, c.at \notin {"idle", "not found"}, c.action = req[r].action,
           req' = [req EXCEPT ![r] = c],
           \A b \in ActionIds \ {req[r].action} : table'[b] = table[b],
           \A q \in Requests \ {r} : SentBy(q)' = SentBy(q),
           Alone(r) => Serial(c, table'[req[r].action], SentBy(r)')
    PROVE  FreshInv' /\ SerialInv'
<1>1. /\ req'[r] = c /\ \A q \in Requests \ {r} : req'[q] = req[q]
  BY DEF IInv, TypeOK
<1>2. FreshInv'
  <2> SUFFICES ASSUME NEW a \in ActionIds, Exists(a)', ~Touched(a)'
               PROVE  table'[a].status = "pending" /\ table'[a].error = "none"
    BY DEF FreshInv
  <2>1. a # req[r].action
    BY <1>1 DEF Touched
  <2>2. ~Touched(a)
    BY <1>1, <2>1 DEF Touched
  <2> QED
    BY <2>1, <2>2 DEF FreshInv, Exists
<1>3. SerialInv'
  <2> SUFFICES ASSUME NEW q \in Requests, req'[q].at \notin {"idle", "not found"}, Alone(q)'
               PROVE  Serial(req'[q], table'[req'[q].action], SentBy(q)')
    BY DEF SerialInv, SentBy
  <2>1. Alone(q)
    BY <1>1 DEF Alone
  <2>2. CASE q = r
    BY <1>1, <2>1, <2>2
  <2>3. CASE q # r
    <3>1. req[q].action # req[r].action
      BY <1>1, <2>3 DEF Alone
    <3>2. req'[q] = req[q] /\ req[q].action \in ActionIds
      BY <1>1, <2>3, LoadedCall DEF IInv
    <3>3. Serial(req[q], table[req[q].action], SentBy(q))
      BY <2>1, <3>2, SerialOf
    <3> QED
      BY <2>3, <3>1, <3>2, <3>3
  <2> QED
    BY <2>2, <2>3
<1> QED
  BY <1>2, <1>3

\* A call that commits over a snapshot it has just taken, and is alone, gets the row
\* that it wrote.
LEMMA CommitSerial ==
    ASSUME IInv, FreshInv, SerialInv,
           NEW r \in Requests,
           req[r].at \in {"loaded", "ready", "delivered", "send failed", "nothing to send"},
           NEW new \in Row,
           NEW s \in {"override written", "approval written", "outcome written"},
           Commit(r, new, s), UNCHANGED sent,
           Serial(req[r], req[r].snapshot, SentBy(r)) =>
             Serial([req[r] EXCEPT !.at = s], new, SentBy(r))
    PROVE  FreshInv' /\ SerialInv'
<1> DEFINE c == [req[r] EXCEPT !.at = s]
<1>1. /\ req[r] \in Call /\ req[r].action \in ActionIds
      /\ req[r].snapshot \in Row /\ table[req[r].action] \in Row
  BY LoadedCall DEF IInv
<1>2. c \in Call /\ c.at = s /\ c.action = req[r].action
  BY <1>1 DEF Call, Stages
<1>3. req' = [req EXCEPT ![r] = c]
  BY DEF Commit, IInv, TypeOK
<1>4. /\ \A b \in ActionIds \ {req[r].action} : table'[b] = table[b]
      /\ table'[req[r].action] = Flush(table[req[r].action], req[r].snapshot, new)
  BY CommitEffect, ZenonT(30) DEF IInv, Stages
<1>5. \A q \in Requests : SentBy(q)' = SentBy(q)
  BY DEF SentBy
<1>6. ASSUME Alone(r) PROVE Serial(c, table'[req[r].action], SentBy(r)')
  <2>1. Serial(req[r], table[req[r].action], SentBy(r))
    BY <1>6, SerialOf
  <2>2. req[r].snapshot = table[req[r].action]
    BY <2>1 DEF Serial, InFlight, Stages
  <2>3. table'[req[r].action] = new
    BY <1>1, <1>4, <2>2, FlushFresh
  <2> QED
    BY <1>5, <2>1, <2>2, <2>3
<1> HIDE DEF c
<1> QED
  BY <1>2, <1>3, <1>4, <1>5, <1>6, StepSerial

\* A call that reloads its row, or only moves on.
LEMMA MoveSerial ==
    ASSUME IInv, FreshInv, SerialInv,
           NEW r \in Requests, req[r].at \notin {"idle", "not found"},
           NEW c \in Call, c.at \notin {"idle", "not found"}, c.action = req[r].action,
           req' = [req EXCEPT ![r] = c], UNCHANGED table,
           \A q \in Requests \ {r} : SentBy(q)' = SentBy(q),
           Serial(req[r], table[req[r].action], SentBy(r)) =>
             Serial(c, table[req[r].action], SentBy(r)')
    PROVE  FreshInv' /\ SerialInv'
<1>1. Alone(r) => Serial(c, table[req[r].action], SentBy(r)')
  BY SerialOf
<1> QED
  BY <1>1, StepSerial

LEMMA ServerSerial ==
    ASSUME IInv, FreshInv, SerialInv, NEW r \in Requests, ServerStep(r)
    PROVE  FreshInv' /\ SerialInv'
<1> DEFINE row == table[req[r].action]
           snapshot == req[r].snapshot
           mine == SentBy(r)
<1>1. req[r].at \notin {"idle", "not found"}
  BY DEF ServerStep, WriteOverride, RefreshOverride, WriteApproval, RefreshApproval,
         Deliver, FailSend, MarkExecuted, MarkError, WriteRejection, Respond
<1>2. /\ req[r] \in Call /\ req[r].action \in ActionIds /\ snapshot \in Row /\ row \in Row
      /\ req \in [Requests -> Call \cup {NoCall}]
  BY <1>1, LoadedCall DEF IInv, TypeOK
<1>3. req[r].at \in Unsent => mine = {}
  BY DEF IInv, StageInv
<1>4. UNCHANGED sent => \A q \in Requests : SentBy(q)' = SentBy(q)
  BY DEF SentBy
<1> HIDE DEF mine
\* What a call is after a step that changes only its stage, or its snapshot too.
<1>5. ASSUME NEW s \in Stages
      PROVE  LET c == [req[r] EXCEPT !.at = s] IN
             /\ c \in Call /\ c.at = s /\ c.kind = req[r].kind /\ c.action = req[r].action
             /\ c.message_override = req[r].message_override /\ c.snapshot = snapshot
  BY <1>2 DEF Call
<1>6. ASSUME NEW s \in Stages
      PROVE  LET c == [req[r] EXCEPT !.at = s, !.snapshot = row] IN
             /\ c \in Call /\ c.at = s /\ c.kind = req[r].kind /\ c.action = req[r].action
             /\ c.message_override = req[r].message_override /\ c.snapshot = row
  BY <1>2 DEF Call
<1>7. CASE WriteOverride(r)
  <2> DEFINE new == [snapshot EXCEPT !.message_draft = req[r].message_override]
             c == [req[r] EXCEPT !.at = "override written"]
  <2>1. Commit(r, new, "override written") /\ UNCHANGED sent /\ req[r].at = "loaded"
        /\ req[r].kind = "approve" /\ req[r].message_override # NoOverride
    BY <1>7 DEF WriteOverride, HasOverride
  <2>2. /\ new \in Row /\ new.status = snapshot.status /\ new.error = snapshot.error
        /\ new.message_draft = req[r].message_override
    BY <1>2, <2>1 DEF Row, Call
  <2>3. c.at = "override written" /\ c.kind = "approve" /\ c.message_override = req[r].message_override
    BY <1>5, <2>1 DEF Stages
  <2>4. Serial(req[r], snapshot, SentBy(r)) => Serial(c, new, SentBy(r))
    <3> HIDE DEF new, c
    <3> QED
      BY <2>1, <2>2, <2>3 DEF Serial, Granted, InFlight
  <2> HIDE DEF new
  <2> QED
    BY <2>1, <2>2, <2>4, CommitSerial
<1>8. CASE WriteApproval(r)
  <2> DEFINE new == [snapshot EXCEPT !.status = "approved", !.approved_by = req[r].user]
             c == [req[r] EXCEPT !.at = "approval written"]
  <2>1. Commit(r, new, "approval written") /\ UNCHANGED sent
        /\ \/ req[r].at = "loaded" /\ req[r].kind = "approve" /\ ~HasOverride(r)
           \/ req[r].at = "ready"
    BY <1>8 DEF WriteApproval
  <2>2. /\ new \in Row /\ new.status = "approved" /\ new.error = snapshot.error
        /\ new.message_draft = snapshot.message_draft /\ new.category = snapshot.category
    BY <1>2 DEF Row, Call, Statuses
  <2>3. c.at = "approval written" /\ c.kind = req[r].kind
        /\ c.message_override = req[r].message_override
    BY <1>5 DEF Stages
  <2>4. Serial(req[r], snapshot, SentBy(r)) => Serial(c, new, SentBy(r))
    <3> HIDE DEF new, c
    <3> QED
      BY <2>1, <2>2, <2>3 DEF Serial, Granted, InFlight, HasOverride
  <2> HIDE DEF new
  <2> QED
    BY <2>1, <2>2, <2>4, CommitSerial
<1>9. CASE WriteRejection(r)
  <2> DEFINE new == [snapshot EXCEPT !.status = "rejected", !.approved_by = req[r].user]
             c == [req[r] EXCEPT !.at = "outcome written"]
  <2>1. Commit(r, new, "outcome written") /\ UNCHANGED sent
        /\ req[r].at = "loaded" /\ req[r].kind = "reject"
    BY <1>9 DEF WriteRejection
  <2>2. new \in Row /\ new.status = "rejected"
    BY <1>2 DEF Row, Call, Statuses
  <2>3. c.at = "outcome written" /\ c.kind = "reject" /\ SentBy(r) = {}
    BY <1>3, <1>5, <2>1 DEF Stages, Unsent, Undecided, mine
  <2>4. Serial(c, new, SentBy(r))
    <3> HIDE DEF new, c
    <3> QED
      BY <2>2, <2>3 DEF Serial, Promised, Granted, InFlight
  <2> HIDE DEF new
  <2> QED
    BY <2>1, <2>2, <2>4, CommitSerial
<1>10. CASE MarkExecuted(r)
  <2> DEFINE new == [snapshot EXCEPT !.status = "executed", !.executed_at = TRUE]
             c == [req[r] EXCEPT !.at = "outcome written"]
  <2>1. Commit(r, new, "outcome written") /\ UNCHANGED sent /\ req[r].at = "delivered"
    BY <1>10 DEF MarkExecuted
  <2>2. /\ new \in Row /\ new.status = "executed" /\ new.error = snapshot.error
        /\ new.category = snapshot.category
    BY <1>2 DEF Row, Statuses
  <2>3. c.at = "outcome written" /\ c.kind = req[r].kind
        /\ c.message_override = req[r].message_override
    BY <1>5 DEF Stages
  <2>4. Serial(req[r], snapshot, SentBy(r)) => Serial(c, new, SentBy(r))
    <3> HIDE DEF new, c
    <3> QED
      BY <2>1, <2>2, <2>3 DEF Serial, Promised, Granted, InFlight
  <2> HIDE DEF new
  <2> QED
    BY <2>1, <2>2, <2>4, CommitSerial
<1>11. CASE MarkError(r)
  <2> DEFINE cause == IF req[r].at = "send failed" THEN "send failed" ELSE "missing draft or vendor"
             new == [snapshot EXCEPT !.error = cause]
             c == [req[r] EXCEPT !.at = "outcome written"]
  <2>1. Commit(r, new, "outcome written") /\ UNCHANGED sent
        /\ req[r].at \in {"send failed", "nothing to send"}
    BY <1>11 DEF MarkError
  <2>2. /\ new \in Row /\ new.status = snapshot.status /\ new.error # "none"
        /\ new.category = snapshot.category
    BY <1>2 DEF Row, Errors
  <2>3. c.at = "outcome written" /\ c.kind = req[r].kind
    BY <1>5 DEF Stages
  <2>4. Serial(req[r], snapshot, SentBy(r)) => Serial(c, new, SentBy(r))
    <3> HIDE DEF new, c
    <3> QED
      BY <2>1, <2>2, <2>3 DEF Serial, Promised, Granted, InFlight
  <2> HIDE DEF new
  <2> QED
    BY <2>1, <2>2, <2>4, CommitSerial
<1>12. CASE RefreshOverride(r)
  <2> DEFINE c == [req[r] EXCEPT !.at = "ready", !.snapshot = row]
  <2>1. UNCHANGED <<table, sent>> /\ req[r].at = "override written" /\ req' = [req EXCEPT ![r] = c]
    BY <1>2, <1>12 DEF RefreshOverride, Refresh
  <2>2. c \in Call /\ c.at = "ready" /\ c.kind = req[r].kind /\ c.snapshot = row
        /\ c.message_override = req[r].message_override /\ c.action = req[r].action
    BY <1>6 DEF Stages
  <2> HIDE DEF c
  <2>3. Serial(req[r], row, SentBy(r)) => Serial(c, row, SentBy(r))
    BY <2>1, <2>2 DEF Serial, Granted, InFlight
  <2> QED
    BY <1>1, <1>4, <2>1, <2>2, <2>3, MoveSerial
<1>13. CASE RefreshApproval(r)
  <2> DEFINE s == IF row.category # WhatsAppOrder THEN "done"
                  ELSE IF Sendable(row) THEN "sending" ELSE "nothing to send"
             c == [req[r] EXCEPT !.at = s, !.snapshot = row]
  <2>1. UNCHANGED <<table, sent>> /\ req[r].at = "approval written" /\ req' = [req EXCEPT ![r] = c]
    BY <1>2, <1>13 DEF RefreshApproval, Refresh
  <2>2. /\ s \in {"done", "sending", "nothing to send"}
        /\ s = "done" <=> row.category # WhatsAppOrder
    OBVIOUS
  <2>6. s \in Stages
    BY <2>2 DEF Stages
  <2> HIDE DEF s
  <2>3. c \in Call /\ c.at = s /\ c.kind = req[r].kind /\ c.snapshot = row
        /\ c.message_override = req[r].message_override /\ c.action = req[r].action
    BY <1>6, <2>6
  <2>4. SentBy(r) = {}
    BY <1>3, <2>1 DEF Unsent, Undecided, mine
  <2> HIDE DEF c
  <2>5. Serial(req[r], row, SentBy(r)) => Serial(c, row, SentBy(r))
    <3> SUFFICES ASSUME Serial(req[r], row, SentBy(r)) PROVE Serial(c, row, SentBy(r))
      OBVIOUS
    <3>1. /\ row.status = "approved" /\ row.error = "none" /\ c.kind = "approve"
          /\ row.category = WhatsAppOrder => c.message_override \in {NoOverride, row.message_draft}
      BY <2>1, <2>3 DEF Serial, Granted
    <3> QED
      BY <2>2, <2>3, <2>4, <3>1 DEF Serial, Promised, Granted, InFlight
  <2> QED
    BY <1>1, <1>4, <2>1, <2>2, <2>3, <2>5, MoveSerial
<1>14. CASE Respond(r)
  <2> DEFINE c == [req[r] EXCEPT !.at = "done", !.snapshot = row]
  <2>1. UNCHANGED <<table, sent>> /\ req[r].at = "outcome written" /\ req' = [req EXCEPT ![r] = c]
    BY <1>2, <1>14 DEF Respond, Refresh
  <2>2. c \in Call /\ c.at = "done" /\ c.kind = req[r].kind /\ c.snapshot = row
        /\ c.message_override = req[r].message_override /\ c.action = req[r].action
    BY <1>6 DEF Stages
  <2> HIDE DEF c
  <2>3. Serial(req[r], row, SentBy(r)) => Serial(c, row, SentBy(r))
    BY <2>1, <2>2 DEF Serial, Promised, Granted, InFlight
  <2> QED
    BY <1>1, <1>4, <2>1, <2>2, <2>3, MoveSerial
<1>15. CASE Deliver(r) \/ FailSend(r)
  <2> DEFINE m == [by |-> r, action |-> req[r].action, text |-> snapshot.message_draft]
  <2>7. \E s \in {"delivered", "send failed"} :
          /\ req' = [req EXCEPT ![r] = [req[r] EXCEPT !.at = s]]
          /\ \/ sent' = sent \cup {m}
             \/ s = "send failed" /\ sent' = sent
    <3>1. CASE Deliver(r)
      <4>1. req' = [req EXCEPT ![r] = [req[r] EXCEPT !.at = "delivered"]] /\ sent' = sent \cup {m}
        BY <1>2, <3>1 DEF Deliver
      <4> QED
        BY <4>1
    <3>2. CASE FailSend(r)
      <4>1. /\ req' = [req EXCEPT ![r] = [req[r] EXCEPT !.at = "send failed"]]
            /\ sent' = sent \/ sent' = sent \cup {m}
        BY <1>2, <3>2 DEF FailSend
      <4> QED
        BY <4>1
    <3> QED
      BY <1>15, <3>1, <3>2
  <2>1. PICK s \in {"delivered", "send failed"} :
          /\ req' = [req EXCEPT ![r] = [req[r] EXCEPT !.at = s]]
          /\ \/ sent' = sent \cup {m}
             \/ s = "send failed" /\ sent' = sent
    BY <2>7
  <2>2. UNCHANGED table /\ req[r].at = "sending"
    BY <1>15 DEF Deliver, FailSend
  <2> DEFINE c == [req[r] EXCEPT !.at = s]
  <2>3. c \in Call /\ c.at = s /\ c.kind = req[r].kind /\ c.snapshot = snapshot
        /\ c.message_override = req[r].message_override /\ c.action = req[r].action
    <3> HIDE DEF row, m
    <3>1. s \in Stages
      BY <2>1 DEF Stages
    <3> QED
      BY <1>5, <3>1
  <2>4. /\ \A q \in Requests \ {r} : SentBy(q)' = SentBy(q)
        /\ s = "delivered" => m \in SentBy(r)'
    <3>1. m.by = r
      OBVIOUS
    <3> HIDE DEF m
    <3>2. CASE sent' = sent \cup {m}
      BY <3>1, <3>2 DEF SentBy
    <3>3. CASE s = "send failed" /\ sent' = sent
      BY <3>3 DEF SentBy
    <3> QED
      BY <2>1, <3>2, <3>3
  <2>5. m.text = snapshot.message_draft
    OBVIOUS
  <2> HIDE DEF c, m
  <2>6. Serial(req[r], row, SentBy(r)) => Serial(c, row, SentBy(r)')
    BY <2>2, <2>3, <2>4, <2>5 DEF Serial, Granted, InFlight, Stages
  <2> QED
    BY <1>1, <2>1, <2>2, <2>3, <2>4, <2>6, MoveSerial DEF c
<1> QED
  BY <1>7, <1>8, <1>9, <1>10, <1>11, <1>12, <1>13, <1>14, <1>15 DEF ServerStep

LEMMA NextSerial == IInv /\ FreshInv /\ SerialInv /\ [Next]_vars => FreshInv' /\ SerialInv'
<1> SUFFICES ASSUME IInv, FreshInv, SerialInv, [Next]_vars
             PROVE  FreshInv' /\ SerialInv'
  OBVIOUS
<1>1. CASE UNCHANGED vars
  BY <1>1 DEF vars, FreshInv, SerialInv, Exists, Touched, Alone, SentBy
<1>2. CASE Propose
  <2>1. PICK a \in ActionIds :
          /\ ~Exists(a) /\ \A b \in ActionIds \ {a} : table'[b] = table[b]
          /\ table'[a].status = "pending" /\ table'[a].error = "none"
    BY <1>2 DEF Propose, CreateAction, IInv, TypeOK
  <2>2. UNCHANGED <<req, sent>>
    BY <1>2 DEF Propose, CreateAction
  <2>3. FreshInv'
    BY <2>1, <2>2 DEF FreshInv, Exists, Touched
  <2>4. ASSUME NEW r \in Requests, req[r].at \notin {"idle", "not found"}
        PROVE  table'[req[r].action] = table[req[r].action]
    <3>1. req[r].action \in ActionIds /\ Exists(req[r].action)
      BY <2>4, LoadedCall DEF IInv, SessionInv
    <3> QED
      BY <2>1, <3>1
  <2>5. SerialInv'
    BY <2>2, <2>4 DEF SerialInv, Alone, SentBy
  <2> QED
    BY <2>3, <2>5
<1>3. ASSUME NEW r \in Requests, Arrive(r)
      PROVE  FreshInv' /\ SerialInv'
  <2> PICK kind \in {"approve", "reject"}, u \in Users, a \in ActionIds,
           o \in Wordings \cup {NoOverride} : Load(r, kind, u, a, o)
    BY <1>3 DEF Arrive
  <2> DEFINE own == Exists(a) /\ table[a].org = OrgOf[u]
             stage == IF own THEN "loaded" ELSE "not found"
             seen == IF own THEN table[a] ELSE NoRow
             call == [at |-> stage, kind |-> kind, user |-> u, action |-> a,
                      message_override |-> o, snapshot |-> seen]
  <2>1. /\ own => stage = "loaded" /\ seen = table[a] /\ Exists(a)
        /\ ~own => stage = "not found"
    OBVIOUS
  <2>2. UNCHANGED <<table, sent>> /\ req' = [req EXCEPT ![r] = call] /\ req[r] = NoCall
    BY DEF Load
  <2> HIDE DEF own, stage, seen
  <2>3. /\ \A q \in Requests \ {r} : req'[q] = req[q]
        /\ req'[r].at = stage /\ req'[r].action = a /\ req'[r].snapshot = seen
        /\ req[r].at = "idle"
    BY <2>2 DEF IInv, TypeOK, NoCall
  <2>4. \A b \in ActionIds : Touched(b) => Touched(b)'
    BY <2>3 DEF Touched
  <2>5. FreshInv'
    BY <2>2, <2>4 DEF FreshInv, Exists
  <2>6. ASSUME NEW q \in Requests, req'[q].at \notin {"idle", "not found"}, Alone(q)'
        PROVE  Serial(req'[q], table'[req'[q].action], SentBy(q)')
    <3>1. CASE q = r
      <4>1. own /\ req'[q].at = "loaded" /\ req'[q].action = a /\ req'[q].snapshot = table[a]
        BY <2>1, <2>3, <2>6, <3>1
      <4>2. ~Touched(a)
        BY <2>3, <2>6, <3>1 DEF Touched, Alone
      <4>3. table[a].status = "pending" /\ table[a].error = "none"
        BY <2>1, <4>1, <4>2 DEF FreshInv
      <4> QED
        BY <2>2, <4>1, <4>3 DEF Serial, Granted
    <3>2. CASE q # r
      <4>1. req'[q] = req[q] /\ Alone(q)
        BY <2>3, <2>6, <3>2 DEF Alone
      <4> QED
        BY <2>2, <2>6, <4>1, SerialOf DEF SentBy
    <3> QED
      BY <3>1, <3>2
  <2> QED
    BY <2>5, <2>6 DEF SerialInv, SentBy
<1>4. ASSUME NEW r \in Requests, Abort(r)
      PROVE  FreshInv' /\ SerialInv'
  <2> DEFINE c == [req[r] EXCEPT !.at = "aborted"]
  <2>1. req[r].at \notin {"idle", "not found"} /\ UNCHANGED <<table, sent>>
    BY <1>4 DEF Abort, InFlight
  <2>2. req[r] \in Call /\ req \in [Requests -> Call \cup {NoCall}]
    BY <2>1, LoadedCall DEF IInv, TypeOK
  <2>3. c \in Call /\ c.at = "aborted" /\ c.action = req[r].action
    BY <2>2 DEF Call, Stages
  <2>4. req' = [req EXCEPT ![r] = c]
    BY <1>4, <2>2 DEF Abort
  <2> HIDE DEF c
  <2>5. Serial(c, table[req[r].action], SentBy(r)')
    BY <2>3 DEF Serial, Granted, InFlight
  <2>6. \A q \in Requests \ {r} : SentBy(q)' = SentBy(q)
    BY <2>1 DEF SentBy
  <2> QED
    BY <2>1, <2>3, <2>4, <2>5, <2>6, MoveSerial
<1> QED
  BY <1>1, <1>2, <1>3, <1>4, ServerSerial DEF Next

\* A call that has its action to itself does what the API promises, whatever calls
\* run on other actions, and whichever steps fail.
THEOREM SerialCallsKeepPromises == Spec => []SerialOutcome
<1>1. Init => FreshInv /\ SerialInv
  <2> SUFFICES ASSUME Init PROVE FreshInv /\ SerialInv
    OBVIOUS
  <2>1. \A r \in Requests : req[r].at = "idle"
    BY DEF Init, NoCall
  <2>2. \A a \in ActionIds : ~Exists(a)
    BY DEF Init, Exists
  <2>3. FreshInv
    BY <2>2 DEF FreshInv
  <2>4. SerialInv
    BY <2>1 DEF SerialInv
  <2> QED
    BY <2>3, <2>4
<1>2. IInv /\ SerialInv => SerialOutcome
  <2> SUFFICES ASSUME SerialInv, NEW r \in Requests, req[r].at = "done", Alone(r)
               PROVE  Promised(req[r], table[req[r].action], SentBy(r))
    BY DEF SerialOutcome, Promised
  <2> QED
    BY SerialOf DEF Serial
<1>3. Spec => [](IInv /\ FreshInv /\ SerialInv)
  BY <1>1, InitInv, NextInv, NextSerial, PTL DEF Spec
<1> QED
  BY <1>2, <1>3, PTL

-----------------------------------------------------------------------------
(* The trust ladder: any number of rows of one category of one org, decided  *)
(* any number of times, in any order.                                        *)
\* Places are numbers.
LEMMA RowsAreNumbers == LadderTypeOK => DOMAIN statuses \subseteq Nat
<1> SUFFICES ASSUME LadderTypeOK PROVE DOMAIN statuses \subseteq Nat
  OBVIOUS
<1>1. statuses \in Seq(Decided \cup {"pending"})
  BY DEF LadderTypeOK
<1> QED
  BY <1>1

\* One place of a sequence takes another value.
LEMMA RowWritten ==
    ASSUME LadderTypeOK, NEW i \in DOMAIN statuses, NEW s \in Decided,
           statuses' = [statuses EXCEPT ![i] = s]
    PROVE  /\ statuses' \in Seq(Decided \cup {"pending"})
           /\ DOMAIN statuses' = DOMAIN statuses
           /\ statuses'[i] = s /\ \A j \in DOMAIN statuses : j # i => statuses'[j] = statuses[j]
<1>1. statuses \in Seq(Decided \cup {"pending"})
  BY DEF LadderTypeOK
<1> QED
  BY <1>1

\* A new row is pending, and the last.
LEMMA RowCreated ==
    ASSUME LadderTypeOK, NewRow
    PROVE  /\ statuses' \in Seq(Decided \cup {"pending"})
           /\ DOMAIN statuses' = DOMAIN statuses \cup {Len(statuses) + 1}
           /\ statuses'[Len(statuses) + 1] = "pending"
           /\ Len(statuses) + 1 \notin DOMAIN statuses
           /\ \A j \in DOMAIN statuses : statuses'[j] = statuses[j]
<1>1. statuses \in Seq(Decided \cup {"pending"}) /\ statuses' = Append(statuses, "pending")
  BY DEF LadderTypeOK, NewRow
<1>2. DOMAIN statuses = 1 .. Len(statuses) /\ Len(statuses) \in Nat
  BY <1>1
<1> QED
  BY <1>1, <1>2

\* A decision is the last of the history, and writes its verdict.
LEMMA DecisionMade ==
    ASSUME LadderTypeOK, NEW i \in DOMAIN statuses, NEW v \in Verdict, Decide(i, v)
    PROVE  /\ decisions' \in Seq([row : Nat, verdict : Verdict])
           /\ DOMAIN decisions' = DOMAIN decisions \cup {Len(decisions) + 1}
           /\ decisions'[Len(decisions) + 1] = [row |-> i, verdict |-> v]
           /\ \A k \in DOMAIN decisions : k < Len(decisions) + 1 /\ decisions'[k] = decisions[k]
<1>1. decisions \in Seq([row : Nat, verdict : Verdict])
  BY DEF LadderTypeOK
<1>2. decisions' = Append(decisions, [row |-> i, verdict |-> v])
  BY DEF Decide
<1>3. DOMAIN decisions = 1 .. Len(decisions) /\ Len(decisions) \in Nat
  BY <1>1
<1> QED
  BY <1>1, <1>2, <1>3, RowsAreNumbers

\* The places that count are finitely many.
LEMMA LadderFinite ==
    ASSUME LadderTypeOK
    PROVE  /\ IsFiniteSet(AfterLastRejection(statuses, Counted(statuses)))
           /\ IsFiniteSet(DOMAIN decisions)
           /\ DOMAIN statuses \subseteq Nat
           /\ DOMAIN decisions \subseteq Nat
<1>1. DOMAIN statuses = 1 .. Len(statuses) /\ Len(statuses) \in Nat
  BY DEF LadderTypeOK
<1>2. IsFiniteSet(DOMAIN statuses)
  BY <1>1, FS_Interval
<1>3. AfterLastRejection(statuses, Counted(statuses)) \subseteq DOMAIN statuses
  BY DEF AfterLastRejection, Counted
<1>4. DOMAIN decisions = 1 .. Len(decisions) /\ Len(decisions) \in Nat
  BY DEF LadderTypeOK
<1>5. IsFiniteSet(DOMAIN decisions)
  BY <1>4, FS_Interval
<1> QED
  BY <1>1, <1>2, <1>3, <1>4, <1>5, FS_Subset

\* A row is pending until it is decided; and a decision in order writes a row
\* that no earlier decision has written.
LEMMA NextLadder == LadderInv /\ [LadderNext]_ladder => LadderInv'
<1> SUFFICES ASSUME LadderInv, [LadderNext]_ladder PROVE LadderInv'
  OBVIOUS
<1>1. LadderTypeOK /\ \A k \in DOMAIN decisions : decisions[k].row \in DOMAIN statuses
  BY DEF LadderInv, LadderTypeOK
<1>2. CASE NewRow
  <2>1. decisions' = decisions
    BY <1>2 DEF NewRow
  <2>2. LadderTypeOK'
    BY <1>1, <1>2, <2>1, RowCreated DEF LadderTypeOK
  <2>3. ASSUME NEW i \in DOMAIN statuses'
        PROVE  statuses'[i] # "pending" <=> \E k \in DOMAIN decisions' : decisions'[k].row = i
    BY <1>1, <1>2, <2>1, <2>3, RowCreated DEF LadderInv
  <2>4. DecidedInOrder' => DecidedInOrder
    BY <2>1 DEF DecidedInOrder
  <2> QED
    BY <1>1, <1>2, <2>1, <2>2, <2>3, <2>4, RowCreated DEF LadderInv
<1>3. ASSUME NEW i \in DOMAIN statuses, NEW v \in Verdict, Decide(i, v)
      PROVE  LadderInv'
  <2>1. /\ statuses' \in Seq(Decided \cup {"pending"}) /\ DOMAIN statuses' = DOMAIN statuses
        /\ statuses'[i] = v /\ \A j \in DOMAIN statuses : j # i => statuses'[j] = statuses[j]
    BY <1>1, <1>3, RowWritten DEF Decide, Verdict, Decided
  <2> DEFINE n == Len(decisions) + 1
  <2>2. /\ decisions' \in Seq([row : Nat, verdict : Verdict])
        /\ DOMAIN decisions' = DOMAIN decisions \cup {n}
        /\ decisions'[n] = [row |-> i, verdict |-> v]
        /\ \A k \in DOMAIN decisions : k < n /\ decisions'[k] = decisions[k]
    BY <1>1, <1>3, DecisionMade
  <2> HIDE DEF n
  <2>3. LadderTypeOK'
    <3>1. \A k \in DOMAIN decisions' : decisions'[k].row \in DOMAIN statuses'
      BY <1>1, <2>1, <2>2
    <3> QED
      BY <2>1, <2>2, <3>1 DEF LadderTypeOK
  <2>4. ASSUME NEW j \in DOMAIN statuses'
        PROVE  statuses'[j] # "pending" <=> \E k \in DOMAIN decisions' : decisions'[k].row = j
    BY <2>1, <2>2 DEF LadderInv, Verdict
  <2>5. ASSUME DecidedInOrder', NEW k \in DOMAIN decisions'
        PROVE  statuses'[decisions'[k].row] = "rejected" <=> decisions'[k].verdict = "rejected"
    <3>1. DecidedInOrder
      BY <2>2, <2>5 DEF DecidedInOrder
    <3>2. CASE k = n
      BY <2>1, <2>2, <3>2
    <3>3. CASE k # n
      <4>1. k \in DOMAIN decisions /\ k < n /\ decisions'[k] = decisions[k]
        BY <2>2, <3>3
      <4>2. decisions[k].row < i
        BY <2>2, <2>5, <4>1 DEF DecidedInOrder
      <4>3. decisions[k].row # i
        BY <1>1, <4>1, <4>2, LadderFinite
      <4> QED
        BY <1>1, <2>1, <3>1, <4>1, <4>3 DEF LadderInv
    <3> QED
      BY <3>2, <3>3
  <2> QED
    BY <2>3, <2>4, <2>5 DEF LadderInv
<1>4. ASSUME NEW i \in DOMAIN statuses, Execute(i)
      PROVE  LadderInv'
  <2>1. /\ statuses' \in Seq(Decided \cup {"pending"}) /\ DOMAIN statuses' = DOMAIN statuses
        /\ statuses'[i] = "executed" /\ \A j \in DOMAIN statuses : j # i => statuses'[j] = statuses[j]
        /\ decisions' = decisions
    BY <1>1, <1>4, RowWritten DEF Execute, Decided
  <2>2. PICK m \in DOMAIN decisions : decisions[m] = [row |-> i, verdict |-> "approved"]
    BY <1>4 DEF Execute
  <2>3. LadderTypeOK'
    BY <1>1, <2>1 DEF LadderTypeOK
  <2>4. ASSUME NEW j \in DOMAIN statuses'
        PROVE  statuses'[j] # "pending" <=> \E k \in DOMAIN decisions' : decisions'[k].row = j
    BY <2>1, <2>2 DEF LadderInv
  <2>5. ASSUME DecidedInOrder', NEW k \in DOMAIN decisions'
        PROVE  statuses'[decisions'[k].row] = "rejected" <=> decisions'[k].verdict = "rejected"
    <3>1. DecidedInOrder
      BY <2>1, <2>5 DEF DecidedInOrder
    <3>2. CASE k = m
      BY <2>1, <2>2, <3>2
    <3>3. CASE k # m
      <4>1. m \in Nat /\ k \in Nat /\ i \in Nat /\ decisions[k].row \in Nat /\ decisions[m].row = i
        BY <1>1, <2>1, <2>2, LadderFinite
      <4>2. decisions[k].row # i
        BY <2>1, <3>1, <3>3, <4>1 DEF DecidedInOrder
      <4> QED
        BY <1>1, <2>1, <3>1, <4>2 DEF LadderInv
    <3> QED
      BY <3>2, <3>3
  <2> QED
    BY <2>3, <2>4, <2>5 DEF LadderInv
<1>5. CASE UNCHANGED ladder
  BY <1>5 DEF ladder, LadderInv, LadderTypeOK, DecidedInOrder
<1> QED
  BY <1>2, <1>3, <1>4, <1>5 DEF LadderNext

\* In order, the decisions since the last rejection are those of the rows that count.
LEMMA CountsDecisions == LadderInv => AgreesInOrder
<1> SUFFICES ASSUME LadderInv, DecidedInOrder
             PROVE  count_consecutive_approvals =
                      Cardinality(AfterLastRejection(Verdicts, DOMAIN Verdicts))
  BY DEF AgreesInOrder
<1> DEFINE S == AfterLastRejection(statuses, Counted(statuses))
           T == AfterLastRejection(Verdicts, DOMAIN Verdicts)
           f == [k \in T |-> decisions[k].row]
<1>1. /\ \A k \in DOMAIN decisions : decisions[k].row \in DOMAIN statuses
      /\ DOMAIN statuses \subseteq Nat /\ DOMAIN decisions \subseteq Nat
      /\ IsFiniteSet(DOMAIN decisions)
      /\ \A i \in DOMAIN statuses : statuses[i] \in Decided \cup {"pending"}
  BY LadderFinite DEF LadderInv, LadderTypeOK
<1>2. \A j, k \in DOMAIN decisions : j <= k <=> decisions[j].row <= decisions[k].row
  BY <1>1 DEF DecidedInOrder
<1>3. \A i : i \in Counted(statuses) <=> \E k \in DOMAIN decisions : decisions[k].row = i
  BY <1>1 DEF LadderInv, Counted, Decided
<1>4. \A k \in DOMAIN decisions : statuses[decisions[k].row] = "rejected" <=> decisions[k].verdict = "rejected"
  BY DEF LadderInv
<1>5. \A k : k \in T <=> /\ k \in DOMAIN decisions
                         /\ \A m \in DOMAIN decisions : m >= k => decisions[m].verdict # "rejected"
  BY DEF AfterLastRejection, Verdicts
<1>6. \A i : i \in S <=> /\ i \in Counted(statuses)
                         /\ \A j \in Counted(statuses) : j >= i => statuses[j] # "rejected"
  BY DEF AfterLastRejection
<1> HIDE DEF S, T
<1>7. ASSUME NEW k \in T
      PROVE  decisions[k].row \in S
  <2>1. k \in DOMAIN decisions /\ decisions[k].row \in Counted(statuses)
    BY <1>3, <1>5
  <2>2. ASSUME NEW j \in Counted(statuses), j >= decisions[k].row
        PROVE  statuses[j] # "rejected"
    <3>1. PICK m \in DOMAIN decisions : decisions[m].row = j
      BY <1>3
    <3>2. m >= k
      BY <1>1, <1>2, <2>1, <2>2, <3>1
    <3> QED
      BY <1>4, <1>5, <3>1, <3>2
  <2> QED
    BY <1>6, <2>1, <2>2
<1>8. ASSUME NEW i \in S
      PROVE  \E k \in T : f[k] = i
  <2>1. PICK k \in DOMAIN decisions : decisions[k].row = i
    BY <1>3, <1>6
  <2>2. ASSUME NEW m \in DOMAIN decisions, m >= k
        PROVE  decisions[m].verdict # "rejected"
    <3>1. decisions[m].row \in Counted(statuses) /\ decisions[m].row >= i
      BY <1>1, <1>2, <1>3, <2>1, <2>2
    <3> QED
      BY <1>4, <1>6, <3>1
  <2>3. k \in T
    BY <1>5, <2>1, <2>2
  <2> QED
    BY <2>1, <2>3
<1>9. \A j, k \in T : j # k => f[j] # f[k]
  BY <1>1, <1>2, <1>5
<1>10. f \in Bijection(T, S)
  <2>1. f \in [T -> S]
    BY <1>7
  <2> HIDE DEF f
  <2> QED
    BY <1>8, <1>9, <2>1, Fun_IsBij
<1>11. IsFiniteSet(T)
  BY <1>1, <1>5, FS_Subset
<1>12. ExistsBijection(T, S)
  BY <1>10 DEF ExistsBijection
<1>13. Cardinality(S) = Cardinality(T)
  BY <1>11, <1>12, FS_Bijection
<1> QED
  BY <1>13 DEF count_consecutive_approvals, S, T

-----------------------------------------------------------------------------
(* Directions *)

\* A part is no larger than the whole.
LEMMA Monotone ==
    ASSUME NEW S, NEW T, IsFiniteSet(T), S \subseteq T
    PROVE  Cardinality(S) <= Cardinality(T)
BY FS_Subset

\* The rows that count after a rejection counted before it; and those that
\* counted before an approval or an execution count after it.
LEMMA StepMoves ==
    ASSUME LadderTypeOK, LadderTypeOK', [LadderNext]_ladder, NEW i \in DOMAIN statuses
    PROVE  /\ Decide(i, "rejected") => count_consecutive_approvals' <= count_consecutive_approvals
           /\ Decide(i, "approved") \/ Execute(i) =>
                count_consecutive_approvals' >= count_consecutive_approvals
<1> DEFINE S == AfterLastRejection(statuses, Counted(statuses))
           T == AfterLastRejection(statuses', Counted(statuses'))
<1>1. /\ count_consecutive_approvals = Cardinality(S) /\ count_consecutive_approvals' = Cardinality(T)
      /\ IsFiniteSet(S) /\ IsFiniteSet(T)
  <2>1. IsFiniteSet(T)
    <3>1. statuses' \in Seq(Decided \cup {"pending"})
      BY DEF LadderTypeOK
    <3>2. DOMAIN statuses' = 1 .. Len(statuses') /\ Len(statuses') \in Nat
      BY <3>1
    <3>3. IsFiniteSet(DOMAIN statuses')
      BY <3>2, FS_Interval
    <3>4. T \subseteq DOMAIN statuses'
      BY DEF AfterLastRejection, Counted
    <3> QED
      BY <3>3, <3>4, FS_Subset
  <2> QED
    BY <2>1, LadderFinite DEF count_consecutive_approvals
<1>2. DOMAIN statuses \subseteq Nat
  BY RowsAreNumbers
<1>3. /\ \A k : k \in S <=> /\ k \in DOMAIN statuses /\ statuses[k] \in Decided
                           /\ \A j \in DOMAIN statuses : statuses[j] \in Decided /\ j >= k => statuses[j] # "rejected"
      /\ \A k : k \in T <=> /\ k \in DOMAIN statuses' /\ statuses'[k] \in Decided
                           /\ \A j \in DOMAIN statuses' : statuses'[j] \in Decided /\ j >= k => statuses'[j] # "rejected"
  BY DEF AfterLastRejection, Counted
<1> HIDE DEF S, T
<1>4. ASSUME Decide(i, "rejected")
      PROVE  Cardinality(T) <= Cardinality(S)
  <2>1. /\ DOMAIN statuses' = DOMAIN statuses /\ statuses'[i] = "rejected"
        /\ \A j \in DOMAIN statuses : j # i => statuses'[j] = statuses[j]
    BY <1>4, RowWritten DEF Decide, Decided
  <2>2. \A k \in T : k > i
    BY <1>2, <1>3, <2>1 DEF Decided
  <2>3. T \subseteq S
    BY <1>2, <1>3, <2>1, <2>2
  <2> QED
    BY <1>1, <2>3, Monotone
<1>5. ASSUME Decide(i, "approved") \/ Execute(i)
      PROVE  Cardinality(S) <= Cardinality(T)
  <2>1. /\ DOMAIN statuses' = DOMAIN statuses /\ statuses'[i] \in {"approved", "executed"}
        /\ \A j \in DOMAIN statuses : j # i => statuses'[j] = statuses[j]
    BY <1>5, RowWritten DEF Decide, Execute, Decided
  <2>2. S \subseteq T
    BY <1>3, <2>1 DEF Decided
  <2> QED
    BY <1>1, <2>2, Monotone
<1>6. Cardinality(S) \in Nat /\ Cardinality(T) \in Nat
  BY <1>1, FS_CardinalityType
<1> QED
  BY <1>1, <1>4, <1>5, <1>6

\* A pending row is not among those that count.
LEMMA CreationMovesNothing ==
    ASSUME LadderTypeOK, NewRow
    PROVE  count_consecutive_approvals' = count_consecutive_approvals
<1>1. /\ DOMAIN statuses' = DOMAIN statuses \cup {Len(statuses) + 1}
      /\ statuses'[Len(statuses) + 1] = "pending" /\ Len(statuses) + 1 \notin DOMAIN statuses
      /\ \A j \in DOMAIN statuses : statuses'[j] = statuses[j]
  BY RowCreated
<1>2. Counted(statuses') = Counted(statuses)
  BY <1>1 DEF Counted, Decided
<1>3. \A j \in Counted(statuses) : statuses'[j] = statuses[j]
  BY <1>1 DEF Counted
<1>4. AfterLastRejection(statuses', Counted(statuses')) = AfterLastRejection(statuses, Counted(statuses))
  BY <1>2, <1>3 DEF AfterLastRejection
<1> QED
  BY <1>4 DEF count_consecutive_approvals

\* No rows, no decisions.
LEMMA InitLadder == LadderInit => LadderInv
BY DEF LadderInit, LadderInv, LadderTypeOK, DecidedInOrder

(* When the owner works from the oldest action to the newest, the badge is    *)
(* the number of approvals since the last rejection, whatever is executed or *)
(* created in between (trust_ladder_service.py:24-39).                       *)
THEOREM BadgeAgreesInOrder == LadderSpec => []AgreesInOrder
BY InitLadder, NextLadder, CountsDecisions, PTL DEF LadderSpec

(* In whatever order the owner decides, and decides again, approving and     *)
(* executing never shorten the streak, rejecting never lengthens it, and a   *)
(* new action leaves it alone (trust_ladder_service.py:24-39).               *)
THEOREM StreakMovesTheRightWay == LadderSpec => StreakMoves
<1> DEFINE Moves ==
             /\ \A i \in DOMAIN statuses : Decide(i, "rejected") =>
                   count_consecutive_approvals' <= count_consecutive_approvals
             /\ \A i \in DOMAIN statuses : Decide(i, "approved") \/ Execute(i) =>
                   count_consecutive_approvals' >= count_consecutive_approvals
             /\ NewRow => count_consecutive_approvals' = count_consecutive_approvals
<1>1. LadderTypeOK /\ LadderTypeOK' /\ [LadderNext]_ladder => [Moves]_ladder
  BY StepMoves, CreationMovesNothing
<1>2. LadderInv => LadderTypeOK
  BY DEF LadderInv
<1> HIDE DEF Moves
<1>3. LadderSpec => [][Moves]_ladder
  BY <1>1, <1>2, InitLadder, NextLadder, PTL DEF LadderSpec
<1> QED
  BY <1>3 DEF StreakMoves, Moves
=============================================================================
