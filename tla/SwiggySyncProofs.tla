-------------------------- MODULE SwiggySyncProofs --------------------------
(***************************************************************************)
(* Proofs, for any number of syncs and orders, whatever the calls, Redis,  *)
(* the database and the server do, of what a sync leaves behind and of what*)
(* the failure counter of the breaker counts.                              *)
(***************************************************************************)
EXTENDS SwiggySyncProperties, TLAPS

History == BeforeAreOver /\ RowsFit /\ TrackedIsNew /\ NotBeforeItself /\ FeedbackDuplicatesOverlap

LEMMA InitInv == Init => IInv
<1> SUFFICES ASSUME Init PROVE IInv
  OBVIOUS
<1>1. TypeOK
  BY DEF Init, TypeOK, Steps
<1>2. History
  BY DEF Init, History, BeforeAreOver, RowsFit, TrackedIsNew, NotBeforeItself,
         FeedbackDuplicatesOverlap
<1>3. SyncingExplained
  BY DEF Init, SyncingExplained
<1> QED
  BY <1>1, <1>2, <1>3 DEF IInv, History

\* A sync that runs moves on, without a row and without taking up an order.
LEMMA MoveKeepsHistory ==
    ASSUME IInv, NEW p \in Callers, Running(p), NEW s \in Steps \ {"idle", "track"},
           step' = [step EXCEPT ![p] = s],
           UNCHANGED <<tracking, before, feedback>>
    PROVE  History'
<1>1. /\ step'[p] = s /\ step[p] \notin {"idle", "ended", "dead", "broken"}
      /\ \A q \in Callers \ {p} : step'[q] = step[q]
  BY DEF IInv, TypeOK, Running
<1>2. BeforeAreOver'
  BY <1>1 DEF IInv, TypeOK, BeforeAreOver, Over
<1>3. RowsFit'
  BY <1>1 DEF IInv, RowsFit
<1>4. TrackedIsNew'
  BY <1>1 DEF IInv, TrackedIsNew
<1> QED
  BY <1>2, <1>3, <1>4 DEF IInv, History, NotBeforeItself, FeedbackDuplicatesOverlap

\* What the connector shows stays explained while p runs or was cut short.
LEMMA MoveKeepsStatus ==
    ASSUME IInv, NEW p \in Callers, NEW s \in Steps \ {"idle"},
           step' = [step EXCEPT ![p] = s],
           status' # "syncing" \/ s # "ended"
    PROVE  SyncingExplained'
<1>1. step'[p] = s
  BY DEF IInv, TypeOK
<1> QED
  BY <1>1 DEF SyncingExplained, Running

\* A sync starts: what has ended is before it, and it is before nobody.
LEMMA StartInv ==
    ASSUME IInv, NEW p \in Callers, start_sync(p)
    PROVE  IInv'
<1>1. /\ step[p] = "idle" /\ step' = [step EXCEPT ![p] = "orders"]
      /\ before' = [before EXCEPT ![p] = {q \in Callers : Over(q)}]
      /\ UNCHANGED <<left, tracking, imported, feedback>>
  BY DEF start_sync, Goes
<1>2. /\ step'[p] = "orders" /\ before'[p] = {q \in Callers : Over(q)}
      /\ \A q \in Callers \ {p} : step'[q] = step[q] /\ before'[q] = before[q]
  BY <1>1 DEF IInv, TypeOK
<1>3. TypeOK'
  BY <1>1 DEF IInv, TypeOK, Steps, start_sync, update_sync_status
<1>4. BeforeAreOver' /\ NotBeforeItself'
  BY <1>1, <1>2 DEF IInv, TypeOK, BeforeAreOver, NotBeforeItself, Over
<1>5. RowsFit' /\ TrackedIsNew'
  BY <1>1, <1>2 DEF IInv, RowsFit, TrackedIsNew
<1>6. FeedbackDuplicatesOverlap'
  BY <1>1, <1>2 DEF IInv, RowsFit, FeedbackDuplicatesOverlap
<1>7. SyncingExplained'
  BY <1>1, MoveKeepsStatus DEF Steps
<1> QED
  BY <1>3, <1>4, <1>5, <1>6, <1>7 DEF IInv

\* An order is tracked only when there is no feedback for it.
LEMMA ChooseInv ==
    ASSUME IInv, NEW p \in Callers, choose_order(p)
    PROVE  IInv'
<1>1. PICK o \in left[p] :
        /\ step[p] = "choose" /\ left' = [left EXCEPT ![p] = @ \ {o}]
        /\ \/ UNCHANGED <<step, tracking>>
           \/ /\ ~_feedback_exists(o)
              /\ step' = [step EXCEPT ![p] = "track"]
              /\ tracking' = [tracking EXCEPT ![p] = o]
        /\ UNCHANGED <<before, status, imported, feedback>>
  BY DEF choose_order, Goes
<1>2. TypeOK'
  BY <1>1 DEF IInv, TypeOK, Steps
<1>3. CASE UNCHANGED <<step, tracking>>
  BY <1>1, <1>2, <1>3 DEF IInv, BeforeAreOver, RowsFit, TrackedIsNew, NotBeforeItself,
     FeedbackDuplicatesOverlap, SyncingExplained, Over, Running
<1>4. CASE /\ ~_feedback_exists(o)
           /\ step' = [step EXCEPT ![p] = "track"]
           /\ tracking' = [tracking EXCEPT ![p] = o]
  <2>1. /\ step'[p] = "track" /\ tracking'[p] = o
        /\ \A q \in Callers \ {p} : step'[q] = step[q] /\ tracking'[q] = tracking[q]
    BY <1>4 DEF IInv, TypeOK
  <2>2. BeforeAreOver' /\ RowsFit' /\ NotBeforeItself' /\ FeedbackDuplicatesOverlap'
    BY <1>1, <2>1 DEF IInv, TypeOK, BeforeAreOver, RowsFit, NotBeforeItself,
       FeedbackDuplicatesOverlap, Over
  <2>3. TrackedIsNew'
    BY <1>1, <1>4, <2>1 DEF IInv, TrackedIsNew, _feedback_exists
  <2>4. SyncingExplained'
    BY <1>4, MoveKeepsStatus DEF Steps
  <2> QED
    BY <1>2, <2>2, <2>3, <2>4 DEF IInv
<1> QED
  BY <1>1, <1>3, <1>4

\* The row of a sync that runs: it is over before nobody, and nobody who left a
\* row for the order was over before it.
LEMMA TrackInv ==
    ASSUME IInv, NEW p \in Callers, track_order(p)
    PROVE  IInv'
<1>1. PICK row : /\ row.order = tracking[p] /\ row.by = p
                 /\ feedback' \in {feedback, feedback \cup {row}}
  BY DEF track_order, record_feedback
<1>2. /\ step[p] = "track" /\ step' = [step EXCEPT ![p] = "choose"]
      /\ UNCHANGED <<left, tracking, before, status, imported>>
  BY DEF track_order, Goes
<1>3. /\ step'[p] = "choose"
      /\ \A q \in Callers \ {p} : step'[q] = step[q]
  BY <1>2 DEF IInv, TypeOK
<1>4. \A q \in Callers : p \notin before[q]
  BY <1>2 DEF IInv, TypeOK, BeforeAreOver, Over
<1>5. TypeOK'
  BY <1>2 DEF IInv, TypeOK, Steps
<1>6. BeforeAreOver' /\ NotBeforeItself'
  BY <1>2, <1>3 DEF IInv, TypeOK, BeforeAreOver, NotBeforeItself, Over
<1>7. RowsFit'
  BY <1>1, <1>3 DEF IInv, RowsFit
<1>8. TrackedIsNew'
  BY <1>1, <1>2, <1>3, <1>4 DEF IInv, TrackedIsNew
<1>9. FeedbackDuplicatesOverlap'
  <2> SUFFICES ASSUME NEW f \in feedback', NEW g \in feedback', f.order = g.order, f # g
               PROVE  f.by \notin before[g.by] /\ g.by \notin before[f.by]
    BY <1>2 DEF FeedbackDuplicatesOverlap
  <2>1. CASE f \in feedback /\ g \in feedback
    BY <2>1 DEF IInv, FeedbackDuplicatesOverlap
  <2>2. CASE f = row /\ g \in feedback
    BY <1>1, <1>2, <1>4, <2>2 DEF IInv, TrackedIsNew, RowsFit
  <2>3. CASE g = row /\ f \in feedback
    BY <1>1, <1>2, <1>4, <2>3 DEF IInv, TrackedIsNew, RowsFit
  <2> QED
    BY <1>1, <2>1, <2>2, <2>3
<1>10. SyncingExplained'
  BY <1>2, MoveKeepsStatus DEF Steps
<1> QED
  BY <1>5, <1>6, <1>7, <1>8, <1>9, <1>10 DEF IInv

\* Nothing of the sync changes.
LEMMA IdleInv ==
    ASSUME IInv, UNCHANGED sync
    PROVE  IInv'
<1>1. TypeOK'
  BY DEF IInv, TypeOK, sync
<1>2. BeforeAreOver' /\ RowsFit' /\ TrackedIsNew' /\ NotBeforeItself'
  BY DEF IInv, BeforeAreOver, RowsFit, TrackedIsNew, NotBeforeItself, Over, sync
<1>3. FeedbackDuplicatesOverlap' /\ SyncingExplained'
  BY DEF IInv, FeedbackDuplicatesOverlap, SyncingExplained, Running, sync
<1> QED
  BY <1>1, <1>2, <1>3 DEF IInv

\* The other steps of a sync that runs.
LEMMA MoveInv ==
    ASSUME IInv, NEW p \in Callers,
           \/ sync_orders(p) \/ read_delivered(p) \/ end_sync(p) \/ sync_raises(p) \/ Crash(p)
    PROVE  IInv'
<1>1. /\ Running(p)
      /\ \E s \in Steps \ {"idle", "track"} :
           /\ step' = [step EXCEPT ![p] = s]
           /\ status' # "syncing" \/ s # "ended"
      /\ UNCHANGED <<tracking, before, feedback>>
  <2>1. CASE sync_orders(p) \/ read_delivered(p)
    BY <2>1 DEF sync_orders, read_delivered, Goes, Running, Steps
  <2>2. CASE end_sync(p)
    BY <2>2 DEF end_sync, update_sync_status, Goes, Running, Steps
  <2>4. CASE sync_raises(p)
    <3>1. Running(p) /\ UNCHANGED <<tracking, before, feedback>>
      BY <2>4 DEF sync_raises, Raises, Running
    <3>2. \/ status' = "error" /\ step' = [step EXCEPT ![p] = "ended"]
          \/ step' = [step EXCEPT ![p] = "broken"]
      BY <2>4 DEF sync_raises, update_sync_status, Goes
    <3> QED
      BY <3>1, <3>2 DEF Steps
  <2>3. CASE Crash(p)
    <3>1. /\ Running(p) /\ step' = [step EXCEPT ![p] = "dead"]
          /\ UNCHANGED <<tracking, before, feedback>>
      BY <2>3 DEF Crash, Goes
    <3>2. "dead" \in Steps \ {"idle", "track"} /\ "dead" # "ended"
      BY DEF Steps
    <3> QED
      BY <3>1, <3>2
  <2> QED
    BY <2>1, <2>2, <2>3, <2>4
<1>2. TypeOK'
  <2>1. left' \in [Callers -> SUBSET Orders] /\ imported' \subseteq Orders
    BY DEF IInv, TypeOK, sync_orders, read_delivered, end_sync, sync_raises, Raises, Crash
  <2>2. status' \in {"never_synced", "syncing", "success", "error"}
    BY DEF IInv, TypeOK, sync_orders, read_delivered, end_sync, sync_raises, Raises, Crash,
           update_sync_status
  <2> QED
    BY <1>1, <2>1, <2>2 DEF IInv, TypeOK
<1>3. History' /\ SyncingExplained'
  BY <1>1, MoveKeepsHistory, MoveKeepsStatus
<1> QED
  BY <1>2, <1>3 DEF IInv, History

LEMMA NextInv == IInv /\ [Next]_vars => IInv'
<1> SUFFICES ASSUME IInv, [Next]_vars PROVE IInv'
  OBVIOUS
<1>1. ASSUME NEW p \in Callers, start_sync(p) \/ Proceed(p) \/ sync_raises(p) \/ Crash(p)
      PROVE  IInv'
  <2>1. CASE start_sync(p)
    BY <2>1, StartInv
  <2>2. CASE choose_order(p)
    BY <2>2, ChooseInv
  <2>3. CASE track_order(p)
    BY <2>3, TrackInv
  <2>4. CASE Ask(p)
    BY <2>4, IdleInv DEF Ask
  <2>5. CASE Client(p) /\ UNCHANGED sync
    BY <2>5, IdleInv
  <2>6. CASE sync_orders(p) \/ read_delivered(p) \/ end_sync(p) \/ sync_raises(p) \/ Crash(p)
    BY <2>6, MoveInv
  <2> QED
    BY <1>1, <2>1, <2>2, <2>3, <2>4, <2>5, <2>6 DEF Proceed
<1>2. CASE Tick
  BY <1>2, IdleInv DEF Tick
<1>3. CASE UNCHANGED vars
  BY <1>3, IdleInv DEF vars, sync
<1> QED
  BY <1>1, <1>2, <1>3 DEF Next

LEMMA Invariant == Spec => []IInv
BY InitInv, NextInv, PTL DEF Spec

-----------------------------------------------------------------------------
(* Two rows of feedback for one order come from syncs that overlapped        *)
(* (feedback_sync.py:77).                                                    *)
THEOREM DuplicatesOverlap == Spec => []FeedbackDuplicatesOverlap
<1>1. IInv => FeedbackDuplicatesOverlap
  BY DEF IInv
<1> QED
  BY <1>1, Invariant, PTL

(* "syncing" is shown only while a sync runs, or since one was cut short by  *)
(* a crash or was left with a Session on which it could not report           *)
(* (swiggy_connector.py:55-91).                                              *)
THEOREM SyncingIsExplained == Spec => []SyncingExplained
<1>1. IInv => SyncingExplained
  BY DEF IInv
<1> QED
  BY <1>1, Invariant, PTL

-----------------------------------------------------------------------------
(* The breaker *)

LEMMA InitBreaker == Init => BreakerInv
<1> SUFFICES ASSUME Init PROVE BreakerInv
  OBVIOUS
<1>1. /\ count = 0 /\ failTtl = 0 /\ openTtl = 0 /\ \A p \in Callers : call[p] = "idle"
      /\ DOMAIN call = Callers /\ within \in [1 .. WINDOW -> Nat]
      /\ \A n \in 1 .. WINDOW : within[n] = 0
  BY DEF Init, ClientInit
<1> QED
  BY <1>1, ClientAssumption DEF BreakerInv, ClientTypeOK

\* A call moves on, and sets no expiry later for what it moves to.
LEMMA CallMoves ==
    ASSUME BreakerInv, NEW p \in Callers, NEW s, s # "expire", Becomes(p, s),
           UNCHANGED <<count, failTtl, within>>, openTtl' \in Nat
    PROVE  BreakerInv'
<1>1. DOMAIN call' = Callers /\ \A q \in Callers : call'[q] = "expire" => call[q] = "expire"
  BY DEF BreakerInv, ClientTypeOK, Becomes
<1> QED
  BY <1>1 DEF BreakerInv, ClientTypeOK

\* A failure is counted, in the counter and in what was recorded of every age.
LEMMA FailureCounted ==
    ASSUME BreakerInv, NEW p \in Callers, record_failure(p)
    PROVE  BreakerInv'
<1>1. /\ count' = count + 1 /\ openTtl' = openTtl
      /\ failTtl' = IF count = 0 THEN Never ELSE failTtl
      /\ within' = [n \in 1 .. WINDOW |-> within[n] + 1]
  BY DEF record_failure
<1>2. /\ DOMAIN call' = Callers
      /\ \A q \in Callers : call'[q] = "expire" => call[q] = "expire" \/ count = 0
  BY DEF record_failure, Becomes, BreakerInv, ClientTypeOK
<1>3. WINDOW \in Nat \ {0} /\ Never \notin Nat /\ 1 \in 1 .. WINDOW
  BY ClientAssumption
<1>4. count \in Nat /\ within \in [1 .. WINDOW -> Nat]
  BY DEF BreakerInv, ClientTypeOK
<1>5. \A n \in 1 .. WINDOW : within'[n] = within[n] + 1 /\ within[n] \in Nat
  BY <1>1, <1>4
<1>6. ClientTypeOK'
  BY <1>1, <1>2, <1>4 DEF BreakerInv, ClientTypeOK
<1>7. \A m, n \in 1 .. WINDOW : m <= n => within'[m] <= within'[n]
  BY <1>5 DEF BreakerInv
<1>8. failTtl' = 0 => count' = 0
  BY <1>1, <1>3 DEF BreakerInv
<1>9. \A q \in Callers : call'[q] = "expire" => count' <= within'[1]
  BY <1>1, <1>2, <1>3, <1>4, <1>5 DEF BreakerInv
<1>10. ASSUME failTtl' \in 1 .. WINDOW
       PROVE  count' <= within'[WINDOW - failTtl' + 1]
  <2>1. failTtl' = failTtl
    BY <1>1, <1>3, <1>10
  <2>2. WINDOW - failTtl + 1 \in 1 .. WINDOW /\ count <= within[WINDOW - failTtl + 1]
    BY <1>3, <1>10, <2>1 DEF BreakerInv
  <2> QED
    BY <1>1, <1>4, <1>5, <2>1, <2>2
<1> QED
  BY <1>6, <1>7, <1>8, <1>9, <1>10 DEF BreakerInv

\* A tick: what was recorded is a tick older, and the counter a tick closer to its end.
LEMMA TickBreaker ==
    ASSUME BreakerInv, Elapse
    PROVE  BreakerInv'
<1>1. /\ \A q \in Callers : call[q] # "expire"
      /\ call' = call /\ openTtl' = IF openTtl = 0 THEN 0 ELSE openTtl - 1
      /\ failTtl' = IF failTtl \in {0, Never} THEN failTtl ELSE failTtl - 1
      /\ count' = IF failTtl = 1 THEN 0 ELSE count
      /\ within' = [n \in 1 .. WINDOW |-> IF n = 1 THEN 0 ELSE within[n - 1]]
  BY DEF Elapse
<1>2. WINDOW \in Nat \ {0} /\ Never \notin Nat
  BY ClientAssumption
<1>3. /\ count \in Nat /\ openTtl \in Nat /\ failTtl \in (0 .. WINDOW) \cup {Never}
      /\ within \in [1 .. WINDOW -> Nat] /\ DOMAIN call = Callers
  BY DEF BreakerInv, ClientTypeOK
<1>4. \A n \in 1 .. WINDOW : within'[n] = IF n = 1 THEN 0 ELSE within[n - 1]
  BY <1>1
<1>5. \A n \in 1 .. WINDOW : n # 1 => n - 1 \in 1 .. WINDOW
  BY <1>2
<1>6. ClientTypeOK'
  <2>1. within' \in [1 .. WINDOW -> Nat]
    BY <1>1, <1>3, <1>5
  <2>2. failTtl' \in (0 .. WINDOW) \cup {Never}
    BY <1>1, <1>2, <1>3
  <2> QED
    BY <1>1, <1>3, <2>1, <2>2 DEF ClientTypeOK
<1>7. ASSUME NEW m \in 1 .. WINDOW, NEW n \in 1 .. WINDOW, m <= n
      PROVE  within'[m] <= within'[n]
  <2>1. CASE m = 1
    BY <1>4, <1>6, <2>1 DEF ClientTypeOK
  <2>2. CASE m # 1
    <3>1. n # 1 /\ m - 1 <= n - 1
      BY <1>2, <1>7, <2>2
    <3> QED
      BY <1>4, <1>5, <2>2, <3>1 DEF BreakerInv
  <2> QED
    BY <2>1, <2>2
<1>8. failTtl' = 0 => count' = 0
  BY <1>1, <1>2, <1>3 DEF BreakerInv
<1>9. ASSUME failTtl' \in 1 .. WINDOW
      PROVE  count' <= within'[WINDOW - failTtl' + 1]
  <2>1. failTtl \in 2 .. WINDOW /\ failTtl' = failTtl - 1
    BY <1>1, <1>2, <1>3, <1>9
  <2>2. count' = count /\ count <= within[WINDOW - failTtl + 1]
    BY <1>1, <1>2, <2>1 DEF BreakerInv
  <2> DEFINE n == WINDOW - failTtl' + 1
  <2>3. n \in 1 .. WINDOW /\ n # 1 /\ n - 1 = WINDOW - failTtl + 1
    BY <1>2, <2>1
  <2> HIDE DEF n
  <2>4. within'[n] = within[n - 1]
    BY <1>4, <2>3
  <2> QED
    BY <2>2, <2>3, <2>4 DEF n
<1> QED
  BY <1>1, <1>6, <1>7, <1>8, <1>9 DEF BreakerInv

\* The other requests to Redis, and the posts.
LEMMA ClientBreaker ==
    ASSUME BreakerInv, NEW p \in Callers, Client(p)
    PROVE  BreakerInv'
<1>1. /\ WINDOW \in Nat \ {0} /\ Never \notin Nat /\ 1 \in 1 .. WINDOW /\ WINDOW \in 1 .. WINDOW
      /\ OPEN \in Nat
  BY ClientAssumption
<1>2. openTtl \in Nat /\ within \in [1 .. WINDOW -> Nat] /\ count \in Nat
  BY DEF BreakerInv, ClientTypeOK
<1>3. CASE _post(p)
  BY <1>2, <1>3, CallMoves DEF _post
<1>4. CASE record_success(p)
  <2>1. CASE UNCHANGED <<count, failTtl>>
    BY <1>2, <1>4, <2>1, CallMoves DEF record_success
  <2>2. CASE count' = 0 /\ failTtl' = 0
    <3>1. /\ UNCHANGED <<openTtl, within>>
          /\ DOMAIN call' = Callers
      BY <1>4 DEF record_success, Becomes, BreakerInv, ClientTypeOK
    <3>2. within[1] \in Nat
      BY <1>1, <1>2
    <3> QED
      BY <1>1, <2>2, <3>1, <3>2 DEF BreakerInv, ClientTypeOK
  <2> QED
    BY <1>4, <2>1, <2>2 DEF record_success
<1>5. CASE record_failure(p)
  BY <1>5, FailureCounted
<1>6. CASE set_expiry(p)
  <2>1. /\ call[p] = "expire" /\ UNCHANGED <<count, openTtl, within>>
        /\ failTtl' = IF count = 0 THEN 0 ELSE WINDOW
    BY <1>6 DEF set_expiry, At
  <2>2. DOMAIN call' = Callers /\ \A q \in Callers : call'[q] = "expire" => call[q] = "expire"
    BY <1>6 DEF set_expiry, Becomes, BreakerInv, ClientTypeOK
  <2>3. count <= within[1] /\ (failTtl' # 0 => WINDOW - failTtl' + 1 = 1)
    BY <1>1, <2>1 DEF BreakerInv
  <2> QED
    BY <1>1, <2>1, <2>2, <2>3 DEF BreakerInv, ClientTypeOK
<1>7. CASE set_open(p)
  BY <1>1, <1>7, CallMoves DEF set_open
<1>8. CASE record_lost(p)
  BY <1>2, <1>8, CallMoves DEF record_lost
<1> QED
  BY <1>3, <1>4, <1>5, <1>6, <1>7, <1>8 DEF Client

LEMMA NextBreaker == BreakerInv /\ [Next]_vars => BreakerInv'
<1> SUFFICES ASSUME BreakerInv, [Next]_vars PROVE BreakerInv'
  OBVIOUS
<1>1. openTtl \in Nat
  BY DEF BreakerInv, ClientTypeOK
<1>2. CASE UNCHANGED client
  BY <1>2 DEF client, BreakerInv, ClientTypeOK
<1>3. ASSUME NEW p \in Callers, Taken(p)
      PROVE  BreakerInv'
  BY <1>1, <1>3, CallMoves DEF Taken
<1>4. ASSUME NEW p \in Callers, call_tool(p)
      PROVE  BreakerInv'
  BY <1>1, <1>4, CallMoves DEF call_tool, is_open
<1>5. ASSUME NEW p \in Callers, start_sync(p) \/ Proceed(p) \/ sync_raises(p) \/ Crash(p)
      PROVE  BreakerInv'
  <2>1. UNCHANGED client \/ Taken(p) \/ call_tool(p) \/ Client(p)
    BY <1>5 DEF start_sync, Proceed, Ask, sync_orders, read_delivered, choose_order, track_order,
       end_sync, sync_raises, Raises, Crash
  <2> QED
    BY <1>2, <1>3, <1>4, <2>1, ClientBreaker
<1>6. CASE Tick
  BY <1>6, TickBreaker DEF Tick
<1>7. CASE UNCHANGED vars
  BY <1>2, <1>7 DEF vars, client
<1> QED
  BY <1>5, <1>6, <1>7 DEF Next

(* While the counter has an expiry, it counts no failure older than the      *)
(* window, whichever requests to Redis are lost or interleave                *)
(* (circuit_breaker.py:58).                                                  *)
THEOREM CountsAreRecent == Spec => []CountIsRecent
<1>1. BreakerInv => CountIsRecent
  <2> SUFFICES ASSUME BreakerInv, failTtl # Never
               PROVE  count <= within[WINDOW]
    BY DEF CountIsRecent
  <2>1. WINDOW \in Nat \ {0} /\ WINDOW \in 1 .. WINDOW
    BY ClientAssumption
  <2>2. CASE failTtl = 0
    BY <2>1, <2>2 DEF BreakerInv, ClientTypeOK
  <2>3. CASE failTtl \in 1 .. WINDOW
    <3> DEFINE n == WINDOW - failTtl + 1
    <3>1. n \in 1 .. WINDOW /\ n <= WINDOW /\ count <= within[n]
      BY <2>1, <2>3 DEF BreakerInv
    <3> HIDE DEF n
    <3>2. within[n] <= within[WINDOW]
      BY <2>1, <3>1 DEF BreakerInv
    <3> QED
      BY <2>1, <3>1, <3>2 DEF BreakerInv, ClientTypeOK
  <2> QED
    BY <2>1, <2>2, <2>3 DEF BreakerInv, ClientTypeOK
<1> QED
  BY <1>1, InitBreaker, NextBreaker, PTL DEF Spec
=============================================================================
