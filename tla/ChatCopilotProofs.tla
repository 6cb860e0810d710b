-------------------------- MODULE ChatCopilotProofs --------------------------
(***************************************************************************)
(* Proof, for any number of requests, users, organizations and actions and *)
(* any times, that a reply tells its reader of nothing but the reader's    *)
(* own organization, and from the tools nothing too old; that it follows a *)
(* question of the conversation's owner; and that an approval is told, or  *)
(* why not.                                                                *)
(***************************************************************************)
EXTENDS ChatCopilotProperties, TLAPS

\* What the reader of conversation s may be told in message m.
MessageFits(s, m) == m.role = "assistant" =>
  \A c \in m.says : /\ QueueOf[c.action] = OrgOf[sessions[s].user]
                    /\ c.source = "tool" => m.at - c.as_of <= TTL + 2 * Patience

MessagesFit(s) ==
  \A i \in 1 .. Len(sessions[s].messages) : MessageFits(s, sessions[s].messages[i])

\* The inductive invariant by request, point and conversation.
ByPart ==
  /\ TypeOK
  /\ \A r \in Requests :
       TurnFits(turn[r]) /\ SessionFits(turn[r]) /\ OwnerFits(r) /\ MessagesFit(r)
  /\ \A e \in cache : PointFits(e)

LEMMA ByPartIsAll == ClaimInv <=> ByPart
<1> SUFFICES ASSUME TypeOK
             PROVE  ClaimsAreOwnAndRecent <=> \A s \in Requests : MessagesFit(s)
  BY DEF ClaimInv, ByPart
<1>1. ASSUME NEW s \in Requests
      PROVE  DOMAIN sessions[s].messages = 1 .. Len(sessions[s].messages)
  BY DEF TypeOK
<1>2. ASSUME ClaimsAreOwnAndRecent, NEW s \in Requests PROVE MessagesFit(s)
  BY <1>1, <1>2 DEF ClaimsAreOwnAndRecent, MessagesFit, MessageFits, Replies, Messages
<1>3. ASSUME \A s \in Requests : MessagesFit(s) PROVE ClaimsAreOwnAndRecent
  BY <1>1, <1>3 DEF ClaimsAreOwnAndRecent, MessagesFit, MessageFits, Replies, Messages
<1> QED
  BY <1>2, <1>3

LEMMA ByPartIsAllNext == ClaimInv' <=> ByPart'
BY ByPartIsAll, PTL

LEMMA InitClaims == Init => ClaimInv
<1> SUFFICES ASSUME Init PROVE ByPart
  BY ByPartIsAll
<1>1. NoTurn.at \notin Stages
  BY DEF NoTurn, Stages
<1>2. TypeOK
  BY DEF Init, TypeOK, Absent, Statuses
<1>3. \A r \in Requests : TurnFits(turn[r]) /\ SessionFits(turn[r])
  BY <1>1 DEF Init, TurnFits, SessionFits
<1>4. \A r \in Requests : OwnerFits(r) /\ MessagesFit(r)
  BY DEF Init, OwnerFits, MessagesFit, Live, Absent
<1> QED
  BY <1>2, <1>3, <1>4 DEF Init, ByPart

\* A turn that has begun is a record, one that has not is NoTurn.
LEMMA TurnIsRecord ==
    ASSUME TypeOK, NEW r \in Requests
    PROVE  /\ turn[r] \in Turns <=> turn[r].at \in Stages
           /\ turn[r] \in Turns \/ turn[r].at = "idle"
BY DEF TypeOK, Turns, NoTurn, Stages

(* A step of a turn that has begun: the turn stays whose it is, and what it  *)
(* holds and what it stores fits.                                            *)
LEMMA StepClaims ==
    ASSUME ClaimInv, NEW r \in Requests, turn[r].at \in Stages, clock' = clock,
           NEW t \in Turns, turn' = [turn EXCEPT ![r] = t],
           t.user = turn[r].user, t.session = turn[r].session,
           TurnFits(t), UNCHANGED sessions,
           cache' \subseteq [org : Orgs, question : Questions, answer : SUBSET Claims, at : Nat],
           \A e \in cache' : e \in cache \/ PointFits(e),
           queue' \in [Actions -> Statuses]
    PROVE  ClaimInv'
<1>1. ByPart /\ TypeOK /\ t.at \in Stages
  BY ByPartIsAll DEF ByPart, Turns
<1>2. /\ turn' \in [Requests -> Turns \cup {NoTurn}] /\ turn'[r] = t
      /\ \A s \in Requests \ {r} : turn'[s] = turn[s]
  BY <1>1 DEF TypeOK
<1>3. TypeOK'
  BY <1>1, <1>2 DEF TypeOK
<1>4. \A s \in Requests : TurnFits(turn'[s])
  BY <1>1, <1>2 DEF ByPart
<1>5. \A s \in Requests : TurnFits(turn[s])'
  BY <1>4 DEF TurnFits, Own
<1>6. \A s \in Requests : SessionFits(turn[s])'
  <2> SUFFICES ASSUME NEW s \in Requests, turn'[s].at \in Stages
               PROVE  /\ turn'[turn'[s].session].at \in Stages
                      /\ turn'[turn'[s].session].user = turn'[s].user
    BY DEF SessionFits
  <2>1. turn[s].at \in Stages /\ turn'[s].session = turn[s].session /\ turn'[s].user = turn[s].user
    BY <1>2
  <2>2. turn[s].session \in Requests
    BY <1>1, <2>1, TurnIsRecord DEF Turns
  <2> QED
    BY <1>1, <1>2, <2>1, <2>2 DEF ByPart, SessionFits
<1>7. \A s \in Requests : OwnerFits(s)' /\ MessagesFit(s)'
  BY <1>1, <1>2 DEF ByPart, OwnerFits, Live, MessagesFit, MessageFits
<1>8. \A e \in cache' : PointFits(e)'
  BY <1>1 DEF ByPart, PointFits
<1> QED
  BY <1>3, <1>5, <1>6, <1>7, <1>8, ByPartIsAllNext DEF ByPart

\* What holds of a turn in progress.
LEMMA Running ==
    ASSUME ClaimInv, NEW r \in Requests, turn[r].at \in Stages
    PROVE  /\ turn \in [Requests -> Turns \cup {NoTurn}] /\ turn[r] \in Turns
           /\ TurnFits(turn[r]) /\ clock \in Nat /\ queue \in [Actions -> Statuses]
           /\ cache \subseteq [org : Orgs, question : Questions, answer : SUBSET Claims, at : Nat]
           /\ \A e \in cache : PointFits(e)
BY ByPartIsAll, TurnIsRecord DEF ByPart, TypeOK

\* The steps that change nothing but where the turn is and its counters.
LEMMA MoveClaims ==
    ASSUME ClaimInv, NEW r \in Requests,
           CacheMiss(r) \/ AsksForTools(r) \/ OtherTool(r) \/ ToolsDone(r) \/ AnswersNothing(r)
    PROVE  ClaimInv'
<1>1. turn[r].at \in Stages \ {"ended"}
  BY DEF CacheMiss, AsksForTools, OtherTool, ToolsDone, AnswersNothing, Calls, Stages
<1>2. turn[r] \in Turns /\ TurnFits(turn[r]) /\ turn \in [Requests -> Turns \cup {NoTurn}]
  BY <1>1, Running
<1>3. \E t \in Turns :
        /\ turn' = [turn EXCEPT ![r] = t]
        /\ t.user = turn[r].user /\ t.session = turn[r].session /\ t.since = turn[r].since
        /\ t.results \in {turn[r].results, {}} /\ t.answer = turn[r].answer /\ t.history = turn[r].history
  <2>1. CASE CacheMiss(r)
    <3> DEFINE t == [turn[r] EXCEPT !.at = "thinking"]
    <3>1. turn' = [turn EXCEPT ![r] = t]
      BY <2>1, <1>2 DEF CacheMiss, Enter
    <3>2. /\ t \in Turns /\ t.user = turn[r].user /\ t.session = turn[r].session
          /\ t.since = turn[r].since /\ t.results \in {turn[r].results, {}}
          /\ t.answer = turn[r].answer /\ t.history = turn[r].history
      BY <1>2 DEF Turns, Stages
    <3> HIDE DEF t
    <3> QED
      BY <3>1, <3>2
  <2>2. CASE AsksForTools(r)
    <3> DEFINE n == turn[r].round + 1
               t == [turn[r] EXCEPT !.at = "calling", !.round = n, !.calls = 0]
    <3>3. n \in Nat
      BY <1>2 DEF Turns
    <3>1. turn' = [turn EXCEPT ![r] = t]
      BY <2>2, <1>2 DEF AsksForTools
    <3> HIDE DEF n
    <3>2. /\ t \in Turns /\ t.user = turn[r].user /\ t.session = turn[r].session
          /\ t.since = turn[r].since /\ t.results \in {turn[r].results, {}}
          /\ t.answer = turn[r].answer /\ t.history = turn[r].history
      BY <1>2, <3>3 DEF Turns, Stages
    <3> HIDE DEF t
    <3> QED
      BY <3>1, <3>2
  <2>3. CASE OtherTool(r)
    <3> DEFINE t == [turn[r] EXCEPT !.calls = @ + 1]
    <3>1. turn' = [turn EXCEPT ![r] = t]
      BY <2>3, <1>2 DEF OtherTool
    <3>2. /\ t \in Turns /\ t.user = turn[r].user /\ t.session = turn[r].session
          /\ t.since = turn[r].since /\ t.results \in {turn[r].results, {}}
          /\ t.answer = turn[r].answer /\ t.history = turn[r].history
      BY <1>2 DEF Turns
    <3> HIDE DEF t
    <3> QED
      BY <3>1, <3>2
  <2>4. CASE ToolsDone(r)
    <3> DEFINE t == [turn[r] EXCEPT !.at = "thinking", !.calls = 0]
    <3>1. turn' = [turn EXCEPT ![r] = t]
      BY <2>4, <1>2 DEF ToolsDone
    <3>2. /\ t \in Turns /\ t.user = turn[r].user /\ t.session = turn[r].session
          /\ t.since = turn[r].since /\ t.results \in {turn[r].results, {}}
          /\ t.answer = turn[r].answer /\ t.history = turn[r].history
      BY <1>2 DEF Turns, Stages
    <3> HIDE DEF t
    <3> QED
      BY <3>1, <3>2
  <2>5. CASE AnswersNothing(r)
    <3> DEFINE t == [turn[r] EXCEPT !.at = "streaming", !.results = {}, !.round = 0, !.calls = 0]
    <3>1. turn' = [turn EXCEPT ![r] = t]
      BY <2>5, <1>2 DEF AnswersNothing
    <3>2. /\ t \in Turns /\ t.user = turn[r].user /\ t.session = turn[r].session
          /\ t.since = turn[r].since /\ t.results \in {turn[r].results, {}}
          /\ t.answer = turn[r].answer /\ t.history = turn[r].history
      BY <1>2 DEF Turns, Stages
    <3> HIDE DEF t
    <3> QED
      BY <3>1, <3>2
  <2> QED
    BY <2>1, <2>2, <2>3, <2>4, <2>5
<1>4. PICK t \in Turns :
        /\ turn' = [turn EXCEPT ![r] = t]
        /\ t.user = turn[r].user /\ t.session = turn[r].session /\ t.since = turn[r].since
        /\ t.results \in {turn[r].results, {}} /\ t.answer = turn[r].answer /\ t.history = turn[r].history
  BY <1>3
<1>5. TurnFits(t)
  BY <1>1, <1>2, <1>4 DEF TurnFits, Own, Turns
<1>6. UNCHANGED <<clock, sessions, cache, queue>>
  BY DEF CacheMiss, AsksForTools, OtherTool, ToolsDone, AnswersNothing
<1> QED
  BY <1>1, <1>4, <1>5, <1>6, Running, StepClaims

\* All that a turn holds but its answer is forgotten when it ends.
LEMMA EndFits ==
    ASSUME ClaimInv, NEW r \in Requests, turn[r].at \in Stages,
           NEW end \in {"none", "fallback", "error", "gone", "unsaved"}, EndsWith(r, end)
    PROVE  \E t \in Turns : /\ turn' = [turn EXCEPT ![r] = t] /\ TurnFits(t)
                            /\ t.user = turn[r].user /\ t.session = turn[r].session
<1> DEFINE t == [turn[r] EXCEPT !.at = "ended", !.end = end, !.since = 0,
                   !.round = 0, !.calls = 0, !.results = {}, !.history = {}]
<1>1. turn[r] \in Turns /\ turn \in [Requests -> Turns \cup {NoTurn}] /\ TurnFits(turn[r])
  BY Running
<1>2. turn' = [turn EXCEPT ![r] = t]
  BY <1>1 DEF EndsWith
<1>3. t \in Turns /\ t.user = turn[r].user /\ t.session = turn[r].session
      /\ t.at = "ended" /\ t.since = 0 /\ t.results = {} /\ t.history = {}
      /\ t.answer = turn[r].answer
  BY <1>1 DEF Turns, Stages
<1> HIDE DEF t
<1>4. TurnFits(t)
  <2>1. Own(turn[r].answer, turn[r].user) /\ turn[r].answer \in SUBSET Claims
    BY <1>1 DEF TurnFits, Turns
  <2>2. ASSUME NEW c \in turn[r].answer PROVE 0 - c.as_of <= TTL + Patience
    <3>1. c.as_of \in Nat
      BY <2>1 DEF Claims
    <3> QED
      BY <3>1, ChatAssumption
  <2> QED
    BY <1>3, <2>1, <2>2 DEF TurnFits, Own
<1> QED
  BY <1>2, <1>3, <1>4

\* A cached answer is of the organization, and was recent when it was stored.
LEMMA CacheHitClaims ==
    ASSUME ClaimInv, NEW r \in Requests, CacheHit(r)
    PROVE  ClaimInv'
<1>1. turn[r].at = "looking" /\ turn[r].at \in Stages /\ UNCHANGED <<clock, sessions, cache, queue>>
  BY DEF CacheHit, Stages
<1>2. turn[r] \in Turns /\ TurnFits(turn[r]) /\ turn \in [Requests -> Turns \cup {NoTurn}]
      /\ clock \in Nat
  BY <1>1, Running
<1>3. PICK e \in cache :
        /\ e.org = OrgOf[turn[r].user] /\ clock - e.at <= TTL
        /\ turn' = [turn EXCEPT ![r].at = "answered", ![r].answer = e.answer]
  BY DEF CacheHit, get, Near
<1>4. PointFits(e) /\ e.answer \in SUBSET Claims /\ e.at \in Nat
  BY <1>1, Running
<1> DEFINE t == [turn[r] EXCEPT !.at = "answered", !.answer = e.answer]
<1>5. turn' = [turn EXCEPT ![r] = t]
  BY <1>2, <1>3
<1>6. t \in Turns /\ t.user = turn[r].user /\ t.session = turn[r].session
      /\ t.since = turn[r].since /\ t.results = turn[r].results /\ t.answer = e.answer
      /\ t.history = turn[r].history
  BY <1>2, <1>4 DEF Turns, Stages
<1> HIDE DEF t
<1>7. TurnFits(t)
  <2>1. turn[r].since <= clock /\ clock - turn[r].since <= Patience /\ turn[r].since \in Nat
    BY <1>1, <1>2 DEF TurnFits, Stages, Turns
  <2>2. ASSUME NEW c \in e.answer
        PROVE  /\ QueueOf[c.action] = OrgOf[turn[r].user]
               /\ c.source = "tool" => turn[r].since - c.as_of <= TTL + Patience
    <3>1. /\ c.as_of \in Nat /\ QueueOf[c.action] = e.org
          /\ c.source = "tool" => e.at - c.as_of <= Patience
      BY <1>4 DEF PointFits, Claims
    <3> QED
      BY <1>2, <1>3, <1>4, <2>1, <3>1, ChatAssumption
  <2> QED
    BY <1>1, <1>2, <1>6, <2>1, <2>2 DEF TurnFits, Own
<1> QED
  BY <1>1, <1>5, <1>6, <1>7, Running, StepClaims

\* A text says what the tools said and the history; it goes to the cache as it is.
LEMMA AnswersClaims ==
    ASSUME ClaimInv, NEW r \in Requests, AnswersInText(r) \/ Streams(r)
    PROVE  ClaimInv'
<1>1. turn[r].at \in Stages \ {"ended"} /\ UNCHANGED <<clock, sessions, queue>>
  BY DEF AnswersInText, Streams, Answers, Stages
<1>2. turn[r] \in Turns /\ TurnFits(turn[r]) /\ turn \in [Requests -> Turns \cup {NoTurn}]
      /\ clock \in Nat
  BY <1>1, Running
<1>3. /\ turn[r].since <= clock /\ clock - turn[r].since <= Patience /\ turn[r].since \in Nat
      /\ turn[r].user \in Users /\ turn[r].question \in Questions
      /\ turn[r].results \in SUBSET Claims /\ turn[r].history \in SUBSET Claims
  BY <1>1, <1>2 DEF TurnFits, Turns
<1>4. PICK says \in {turn[r].results \cup turn[r].history, turn[r].history},
           end \in {"none", "fallback"} : Answers(r, says, end)
  BY DEF AnswersInText, Streams
<1>5. says \in SUBSET Claims
  BY <1>3, <1>4
<1>6. \A c \in says : /\ QueueOf[c.action] = OrgOf[turn[r].user] /\ c.as_of \in Nat
                      /\ c.source = "tool" => turn[r].since <= c.as_of
  <2> SUFFICES ASSUME NEW c \in says
               PROVE  /\ QueueOf[c.action] = OrgOf[turn[r].user] /\ c.as_of \in Nat
                      /\ c.source = "tool" => turn[r].since <= c.as_of
    OBVIOUS
  <2>1. c.as_of \in Nat
    BY <1>5 DEF Claims
  <2>2. CASE c \in turn[r].results
    BY <1>1, <1>2, <2>1, <2>2 DEF TurnFits, Own
  <2>3. CASE c \in turn[r].history
    <3>1. c.source = "client" /\ QueueOf[c.action] = OrgOf[turn[r].user]
      BY <1>1, <1>2, <2>3 DEF TurnFits, Own
    <3> QED
      BY <2>1, <3>1
  <2> QED
    BY <1>4, <2>2, <2>3
<1>7. /\ cache' \subseteq [org : Orgs, question : Questions, answer : SUBSET Claims, at : Nat]
      /\ \A e \in cache' : e \in cache \/ PointFits(e)
  <2> DEFINE x == [org |-> OrgOf[turn[r].user], question |-> turn[r].question,
                   answer |-> says, at |-> clock]
  <2>1. x \in [org : Orgs, question : Questions, answer : SUBSET Claims, at : Nat]
    BY <1>2, <1>3, <1>5, ChatAssumption
  <2>2. PointFits(x)
    BY <1>2, <1>3, <1>6, ChatAssumption DEF PointFits
  <2>3. cache' = cache \/ cache' = cache \cup {x}
    BY <1>4 DEF Answers, set
  <2> HIDE DEF x
  <2> QED
    BY <1>1, <2>1, <2>2, <2>3, Running
<1> DEFINE t == [turn[r] EXCEPT !.at = "answered", !.answer = says, !.end = end,
                   !.results = {}, !.history = {}, !.round = 0, !.calls = 0]
<1>8. turn' = [turn EXCEPT ![r] = t]
  BY <1>2, <1>4 DEF Answers
<1>9. t \in Turns /\ t.user = turn[r].user /\ t.session = turn[r].session
      /\ t.since = turn[r].since /\ t.results = {} /\ t.history = {} /\ t.answer = says
  BY <1>2, <1>4, <1>5 DEF Turns, Stages
<1> HIDE DEF t
<1>10. ASSUME NEW c \in says, c.source = "tool"
       PROVE  turn[r].since - c.as_of <= TTL + Patience
  <2>1. c.as_of \in Nat /\ turn[r].since <= c.as_of
    BY <1>6, <1>10
  <2> QED
    BY <1>3, <2>1, ChatAssumption
<1>11. TurnFits(t)
  BY <1>1, <1>2, <1>3, <1>6, <1>9, <1>10 DEF TurnFits, Own
<1> QED
  BY <1>1, <1>7, <1>8, <1>9, <1>11, Running, StepClaims

\* The model fails, or the client goes away.
LEMMA FailsClaims ==
    ASSUME ClaimInv, NEW r \in Requests, ModelFails(r) \/ Disconnect(r)
    PROVE  ClaimInv'
<1>1. turn[r].at \in Stages /\ UNCHANGED <<clock, sessions, cache, queue>>
  <2>1. turn[r].at \in Stages \/ turn[r].at = "idle"
    BY TurnIsRecord DEF ClaimInv, Turns
  <2> QED
    BY <2>1 DEF ModelFails, Disconnect, InProgress, Stages
<1>2. turn[r] \in Turns /\ TurnFits(turn[r]) /\ turn \in [Requests -> Turns \cup {NoTurn}]
  BY <1>1, Running
<1>3. \E t \in Turns : /\ turn' = [turn EXCEPT ![r] = t] /\ TurnFits(t)
                       /\ t.user = turn[r].user /\ t.session = turn[r].session
  <2>1. CASE EndsWith(r, "error") \/ EndsWith(r, "gone")
    BY <1>1, <2>1, EndFits
  <2>2. ASSUME turn[r].at = "streaming", NEW says \in SUBSET turn[r].history,
               turn' = [turn EXCEPT ![r].at = "answered", ![r].answer = says, ![r].end = "error"]
        PROVE  \E t \in Turns : /\ turn' = [turn EXCEPT ![r] = t] /\ TurnFits(t)
                                /\ t.user = turn[r].user /\ t.session = turn[r].session
    <3> DEFINE t == [turn[r] EXCEPT !.at = "answered", !.answer = says, !.end = "error"]
    <3>1. turn' = [turn EXCEPT ![r] = t]
      BY <2>2, <1>2
    <3>2. t \in Turns /\ t.user = turn[r].user /\ t.session = turn[r].session
          /\ t.since = turn[r].since /\ t.results = turn[r].results /\ t.answer = says
          /\ t.history = turn[r].history
      BY <1>2 DEF Turns, Stages
    <3> HIDE DEF t
    <3>3. \A c \in says : c.source = "client" /\ QueueOf[c.action] = OrgOf[turn[r].user]
      BY <1>1, <1>2 DEF TurnFits, Own
    <3>4. TurnFits(t)
      BY <1>1, <1>2, <2>2, <3>2, <3>3 DEF TurnFits, Own, Stages
    <3> QED
      BY <3>1, <3>2, <3>4
  <2> QED
    BY <2>1, <2>2 DEF ModelFails, Disconnect
<1> QED
  BY <1>1, <1>3, Running, StepClaims

\* What a tool tells is of the organization, and of now.
LEMMA ToldClaims ==
    ASSUME ClaimInv, NEW r \in Requests, Calls(r), UNCHANGED <<clock, sessions, cache>>,
           queue' \in [Actions -> Statuses],
           NEW as \in SUBSET Actions, NEW done \in SUBSET Actions,
           Told(r, queue', as, done), \A a \in as : QueueOf[a] = OrgOf[turn[r].user]
    PROVE  ClaimInv'
<1>1. turn[r].at \in Stages \ {"ended"}
  BY DEF Calls, Stages
<1>2. turn[r] \in Turns /\ TurnFits(turn[r]) /\ turn \in [Requests -> Turns \cup {NoTurn}]
      /\ clock \in Nat
  BY <1>1, Running
<1> DEFINE told == {c \in turn[r].results : c.action \notin as} \cup
                     {[action |-> a, status |-> queue'[a], as_of |-> clock,
                       source |-> "tool"] : a \in as}
           t == [turn[r] EXCEPT !.calls = turn[r].calls + 1, !.results = told,
                                !.did = turn[r].did \cup done]
<1>6. turn' = [turn EXCEPT ![r] = t]
  BY <1>2 DEF Told
<1>7. /\ told \in SUBSET Claims
      /\ \A c \in told : \/ c \in turn[r].results
                         \/ c.as_of = clock /\ QueueOf[c.action] = OrgOf[turn[r].user]
  <2>1. turn[r].results \in SUBSET Claims
    BY <1>2 DEF Turns
  <2>2. ASSUME NEW a \in as
        PROVE  /\ [action |-> a, status |-> queue'[a], as_of |-> clock,
                  source |-> "tool"] \in Claims
               /\ QueueOf[a] = OrgOf[turn[r].user]
    BY <1>2 DEF Claims
  <2>3. ASSUME NEW c \in told
        PROVE  /\ c \in Claims
               /\ \/ c \in turn[r].results
                  \/ c.as_of = clock /\ QueueOf[c.action] = OrgOf[turn[r].user]
    <3>1. CASE c \in turn[r].results
      BY <2>1, <3>1
    <3>2. CASE c \notin turn[r].results
      <4>1. PICK a \in as : c = [action |-> a, status |-> queue'[a], as_of |-> clock,
                                  source |-> "tool"]
        BY <2>3, <3>2
      <4> QED
        BY <2>2, <4>1
    <3> QED
      BY <3>1, <3>2
  <2> HIDE DEF told
  <2> QED
    BY <2>3
<1>8. turn[r].calls + 1 \in Nat /\ turn[r].did \cup done \in SUBSET Actions
  BY <1>2 DEF Turns
<1> HIDE DEF told
<1>9. t \in Turns /\ t.user = turn[r].user /\ t.session = turn[r].session
      /\ t.since = turn[r].since /\ t.results = told /\ t.answer = turn[r].answer
      /\ t.history = turn[r].history
  BY <1>2, <1>7, <1>8 DEF Turns
<1> HIDE DEF t
<1>10. TurnFits(t)
  BY <1>1, <1>2, <1>7, <1>9 DEF TurnFits, Own, Turns
<1> QED
  BY <1>1, <1>6, <1>9, <1>10, Running, StepClaims

LEMMA ToolClaims ==
    ASSUME ClaimInv, NEW r \in Requests, get_action_queue(r) \/ approve_action(r)
    PROVE  ClaimInv'
<1>1. Calls(r) /\ UNCHANGED <<clock, sessions, cache>> /\ turn[r].at \in Stages \ {"ended"}
  BY DEF get_action_queue, approve_action, Calls, Stages
<1>2. turn[r] \in Turns /\ TurnFits(turn[r]) /\ turn \in [Requests -> Turns \cup {NoTurn}]
      /\ queue \in [Actions -> Statuses]
  BY <1>1, Running
<1>3. queue' \in [Actions -> Statuses]
  BY <1>2 DEF get_action_queue, approve_action, Statuses
<1>4. CASE get_action_queue(r)
  <2> DEFINE as == {a \in Actions : QueueOf[a] = OrgOf[turn[r].user]}
  <2>1. Told(r, queue, as, {}) /\ queue' = queue
    BY <1>4 DEF get_action_queue
  <2>3. as \in SUBSET Actions /\ {} \in SUBSET Actions
        /\ \A a \in as : QueueOf[a] = OrgOf[turn[r].user]
    OBVIOUS
  <2> HIDE DEF as
  <2>2. Told(r, queue', as, {})
    BY <2>1, Zenon DEF Told
  <2> QED
    BY <1>1, <1>3, <2>2, <2>3, ToldClaims
<1>5. ASSUME NEW a \in Actions, QueueOf[a] = OrgOf[turn[r].user], Told(r, queue', {a}, {a})
      PROVE  ClaimInv'
  <2> DEFINE as == {a}
  <2>1. as \in SUBSET Actions /\ \A b \in as : QueueOf[b] = OrgOf[turn[r].user]
    BY <1>5
  <2>2. Told(r, queue', as, as)
    BY <1>5
  <2> HIDE DEF as
  <2> QED
    BY <1>1, <1>3, <2>1, <2>2, ToldClaims
<1>6. ASSUME NEW a \in Actions,
             turn' = [turn EXCEPT ![r].calls = @ + 1, ![r].did = @ \cup {a},
                                  ![r].raised = @ \cup {a}]
      PROVE  ClaimInv'
  <2> DEFINE calls == turn[r].calls + 1
             did == turn[r].did \cup {a}
             raised == turn[r].raised \cup {a}
             t == [turn[r] EXCEPT !.calls = calls, !.did = did, !.raised = raised]
  <2>1. turn' = [turn EXCEPT ![r] = t]
    BY <1>2, <1>6
  <2>2. calls \in Nat /\ did \in SUBSET Actions /\ raised \in SUBSET Actions
    BY <1>2 DEF Turns
  <2> HIDE DEF calls, did, raised
  <2>3. t \in Turns /\ t.at = turn[r].at /\ t.user = turn[r].user /\ t.session = turn[r].session
        /\ t.since = turn[r].since /\ t.results = turn[r].results
        /\ t.history = turn[r].history /\ t.answer = turn[r].answer
    BY <1>2, <2>2 DEF Turns
  <2> HIDE DEF t
  <2>4. TurnFits(t)
    BY <1>2, <2>3 DEF TurnFits, Own
  <2> QED
    BY <1>1, <1>3, <2>1, <2>3, <2>4, Running, StepClaims
<1> QED
  BY <1>4, <1>5, <1>6 DEF approve_action, may_approve

\* What a client sends along is what its user has been answered.
LEMMA SentFits ==
    ASSUME ClaimInv, NEW u \in Users, NEW says \in SUBSET Heard(u)
    PROVE  /\ Sent(says) \in SUBSET Claims
           /\ \A c \in Sent(says) : c.source = "client" /\ QueueOf[c.action] = OrgOf[u]
<1>1. ByPart
  BY ByPartIsAll
<1> SUFFICES ASSUME NEW c \in Sent(says)
             PROVE  c \in Claims /\ c.source = "client" /\ QueueOf[c.action] = OrgOf[u]
  OBVIOUS
<1>2. PICK d \in says : c = [d EXCEPT !.source = "client"]
  BY DEF Sent
<1>3. PICK q \in Requests : turn[q].at # "idle" /\ turn[q].user = u /\ d \in turn[q].answer
  BY DEF Heard
<1>4. turn[q] \in Turns /\ turn[q].at \in Stages /\ TurnFits(turn[q])
  BY <1>1, <1>3, TurnIsRecord DEF ByPart, Turns
<1>5. d \in Claims /\ QueueOf[d.action] = OrgOf[u]
  BY <1>3, <1>4 DEF TurnFits, Own, Turns
<1>6. c \in Claims /\ c.source = "client" /\ c.action = d.action
  BY <1>2, <1>5 DEF Claims
<1> QED
  BY <1>5, <1>6

\* Request r of user u begins as turn t, with message m, in conversation s.
ChatMakes(r, s, u, t, old, m) ==
    /\ t.at = "looking" /\ t.user = u /\ t.session = s /\ t.since = clock
    /\ t.results = {} /\ t.did = {} /\ t.answer = {} /\ t.end = "none"
    /\ \A c \in t.history : c.source = "client" /\ QueueOf[c.action] = OrgOf[u]
    /\ m.role = "user" /\ m.by = r
    /\ old = IF s = r THEN <<>> ELSE sessions[s].messages
    /\ s # r => mine(s, u)
    /\ turn' = [turn EXCEPT ![r] = t]
    /\ sessions' \in [Requests -> [user : Users \cup {None}, messages : Seq(Said)]]
    /\ sessions'[s].user = u /\ sessions'[s].messages = Append(old, m)
    /\ \A q \in Requests \ {s} : sessions'[q] = sessions[q]

\* A question opens a conversation, or is added to one of its user's.
LEMMA ChatEffect ==
    ASSUME ClaimInv, NEW r \in Requests, chat(r)
    PROVE  \E s \in Requests, u \in Users, t \in Turns, old \in Seq(Said), m \in Said :
             ChatMakes(r, s, u, t, old, m)
<1>1. TypeOK
  BY DEF ClaimInv
<1>2. PICK ask \in Asks, s \in Requests :
        /\ \/ s = r
           \/ mine(s, ask[1])
        /\ sessions' = LET now == IF s = r
                                   THEN [sessions EXCEPT ![r] = [user |-> ask[1], messages |-> <<>>]]
                                   ELSE sessions
                       IN [now EXCEPT ![s].messages = Append(@, Asked(r))]
        /\ \E says \in SUBSET Heard(ask[1]) : turn' = [turn EXCEPT ![r] =
             [at |-> "looking", user |-> ask[1], question |-> ask[2], session |-> s,
              since |-> clock, round |-> 0, calls |-> 0, history |-> Sent(says),
              results |-> {}, did |-> {}, raised |-> {}, answer |-> {}, end |-> "none"]]
  BY DEF chat
<1>13. PICK says \in SUBSET Heard(ask[1]) : turn' = [turn EXCEPT ![r] =
             [at |-> "looking", user |-> ask[1], question |-> ask[2], session |-> s,
              since |-> clock, round |-> 0, calls |-> 0, history |-> Sent(says),
              results |-> {}, did |-> {}, raised |-> {}, answer |-> {}, end |-> "none"]]
  BY <1>2
<1> DEFINE u == ask[1]
           m == Asked(r)
           sent == Sent(says)
           t == [at |-> "looking", user |-> u, question |-> ask[2], session |-> s,
                 since |-> clock, round |-> 0, calls |-> 0, history |-> sent,
                 results |-> {}, did |-> {}, raised |-> {}, answer |-> {}, end |-> "none"]
           old == IF s = r THEN <<>> ELSE sessions[s].messages
<1>3. u \in Users /\ ask[2] \in Questions /\ u # None /\ clock \in Nat
  BY <1>1, ChatAssumption DEF Questions, TypeOK
<1>12. sent \in SUBSET Claims
       /\ \A c \in sent : c.source = "client" /\ QueueOf[c.action] = OrgOf[u]
  BY <1>3, SentFits
<1> HIDE DEF sent
<1>4. t \in Turns /\ t.at = "looking" /\ t.user = u /\ t.session = s /\ t.since = clock
      /\ t.results = {} /\ t.did = {} /\ t.answer = {} /\ t.history = sent
      /\ t.end = "none"
  BY <1>3, <1>12 DEF Turns, Stages
<1>5. m \in Said /\ m.role = "user" /\ m.by = r
  BY <1>3 DEF Asked, Said
<1>6. old \in Seq(Said) /\ (s # r => mine(s, u))
  BY <1>1, <1>2 DEF TypeOK
<1>7. turn' = [turn EXCEPT ![r] = t]
  BY <1>13 DEF sent
<1>8. /\ sessions' \in [Requests -> [user : Users \cup {None}, messages : Seq(Said)]]
      /\ sessions'[s].user = u /\ sessions'[s].messages = Append(old, m)
      /\ \A q \in Requests \ {s} : sessions'[q] = sessions[q]
  <2> DEFINE rec == [user |-> u, messages |-> Append(old, m)]
  <2>1. rec \in [user : Users \cup {None}, messages : Seq(Said)]
    BY <1>3, <1>5, <1>6
  <2>2. sessions \in [Requests -> [user : Users \cup {None}, messages : Seq(Said)]]
    BY <1>1 DEF TypeOK
  <2>3. sessions' = [sessions EXCEPT ![s] = rec]
    <3>1. CASE s = r
      BY <1>2, <2>2, <3>1
    <3>2. CASE s # r
      <4>1. sessions[s] \in [user : Users \cup {None}, messages : Seq(Said)]
            /\ sessions[s].user = u /\ old = sessions[s].messages
        BY <1>6, <2>2, <3>2 DEF mine
      <4> DEFINE next == [sessions[s] EXCEPT !.messages = Append(sessions[s].messages, m)]
      <4>2. next = rec
        <5>1. PICK v \in Users \cup {None}, w \in Seq(Said) :
                sessions[s] = [user |-> v, messages |-> w]
          BY <4>1
        <5>2. v = u /\ w = old
          BY <4>1, <5>1
        <5> DEFINE more == Append(w, m)
        <5>4. next = [[user |-> v, messages |-> w] EXCEPT !.messages = more]
          BY <5>1
        <5> HIDE DEF more, next
        <5>5. next = [user |-> v, messages |-> more]
          BY <5>4
        <5>3. next = [user |-> v, messages |-> Append(w, m)]
          BY <5>5 DEF more
        <5> QED
          BY <5>2, <5>3
      <4>3. sessions' = [sessions EXCEPT ![s] = next]
        BY <1>2, <2>2, <3>2
      <4> QED
        BY <4>2, <4>3
    <3> QED
      BY <3>1, <3>2
  <2> HIDE DEF rec
  <2>4. sessions'[s] = rec /\ rec.user = u /\ rec.messages = Append(old, m)
    BY <2>2, <2>3 DEF rec
  <2> QED
    BY <2>1, <2>2, <2>3, <2>4
<1>9. old = IF s = r THEN <<>> ELSE sessions[s].messages
  OBVIOUS
<1>10. s \in Requests /\ u \in Users /\ t \in Turns /\ old \in Seq(Said) /\ m \in Said
  BY <1>2, <1>3, <1>4, <1>5, <1>6
<1> HIDE DEF t, m, u, old
<1>11. ChatMakes(r, s, u, t, old, m)
  BY <1>4, <1>5, <1>6, <1>7, <1>8, <1>9, <1>12 DEF ChatMakes
<1> QED
  BY <1>10, <1>11

LEMMA ChatClaims ==
    ASSUME ClaimInv, NEW r \in Requests, chat(r)
    PROVE  ClaimInv'
<1>1. ByPart /\ TypeOK /\ turn[r].at = "idle" /\ UNCHANGED <<clock, cache, queue>>
      /\ turn[r].at \notin Stages
  BY ByPartIsAll DEF ByPart, chat, Stages
<1>2. PICK s \in Requests, u \in Users, t \in Turns, old \in Seq(Said), m \in Said :
             ChatMakes(r, s, u, t, old, m)
  BY <1>1, ChatEffect
<1> USE DEF ChatMakes
<1>3. u # None /\ clock \in Nat
  BY <1>1, ChatAssumption DEF TypeOK
<1>4. t.at \in Stages /\ TurnFits(t)
  BY <1>2, <1>3, ChatAssumption DEF Stages, TurnFits, Own
<1>5. /\ turn' \in [Requests -> Turns \cup {NoTurn}] /\ turn'[r] = t
      /\ \A q \in Requests \ {r} : turn'[q] = turn[q]
  BY <1>1, <1>2 DEF TypeOK
<1>6. TypeOK'
  BY <1>1, <1>2, <1>5 DEF TypeOK
<1>7. \A q \in Requests : TurnFits(turn[q])'
  <2>1. \A q \in Requests : TurnFits(turn'[q])
    BY <1>1, <1>4, <1>5 DEF ByPart
  <2> QED
    BY <1>1, <2>1 DEF TurnFits, Own
<1>8. turn'[s].at \in Stages /\ turn'[s].user = u
  BY <1>1, <1>2, <1>4, <1>5 DEF ByPart, OwnerFits, mine
<1>9. \A q \in Requests : SessionFits(turn[q])'
  <2> SUFFICES ASSUME NEW q \in Requests, turn'[q].at \in Stages
               PROVE  /\ turn'[turn'[q].session].at \in Stages
                      /\ turn'[turn'[q].session].user = turn'[q].user
    BY DEF SessionFits
  <2>1. CASE q = r
    BY <1>2, <1>4, <1>5, <1>8, <2>1
  <2>2. CASE q # r
    <3>1. turn'[q] = turn[q] /\ turn[q].session \in Requests
      BY <1>1, <1>5, <2>2, TurnIsRecord DEF Turns
    <3> QED
      BY <1>1, <1>5, <3>1 DEF ByPart, SessionFits
  <2> QED
    BY <2>1, <2>2
<1>10. \A q \in Requests : OwnerFits(q)'
  BY <1>1, <1>2, <1>3, <1>5, <1>8 DEF ByPart, OwnerFits, Live
<1>11. \A q \in Requests : MessagesFit(q)'
  <2>1. ASSUME NEW q \in Requests \ {s} PROVE MessagesFit(q)'
    <3>1. sessions'[q] = sessions[q] /\ clock' = clock
      BY <1>1, <1>2
    <3> QED
      BY <1>1, <3>1 DEF ByPart, MessagesFit, MessageFits
  <2>2. MessagesFit(s)'
    <3> SUFFICES ASSUME NEW i \in 1 .. Len(Append(old, m)), Append(old, m)[i].role = "assistant",
                        NEW c \in Append(old, m)[i].says
                 PROVE  /\ QueueOf[c.action] = OrgOf[sessions'[s].user]
                        /\ c.source = "tool" =>
                             Append(old, m)[i].at - c.as_of <= TTL + 2 * Patience
      BY <1>2 DEF MessagesFit, MessageFits
    <3>1. i \in 1 .. Len(old) /\ Append(old, m)[i] = old[i]
      BY <1>2
    <3>2. s # r /\ old = sessions[s].messages /\ sessions[s].user = u
      BY <1>2, <3>1 DEF mine
    <3> QED
      BY <1>1, <1>2, <3>1, <3>2 DEF ByPart, MessagesFit, MessageFits
  <2> QED
    BY <2>1, <2>2
<1>12. \A e \in cache' : PointFits(e)'
  BY <1>1 DEF ByPart, PointFits
<1> QED
  BY <1>6, <1>7, <1>9, <1>10, <1>11, <1>12, ByPartIsAllNext DEF ByPart

\* The two ways a reply ends: stored, if its conversation is still there, or lost.
Stores(r) ==
  /\ turn[r].at = "answered" /\ UNCHANGED <<clock, cache, queue>>
  /\ EndsWith(r, turn[r].end)
  /\ sessions' = IF Live(turn[r].session) THEN Append1(turn[r].session, Replied(r)) ELSE sessions
Loses(r) ==
  /\ turn[r].at = "answered" /\ UNCHANGED <<clock, sessions, cache, queue>>
  /\ EndsWith(r, IF turn[r].end = "none" THEN "unsaved" ELSE turn[r].end)

LEMMA Finishes ==
    ASSUME NEW r, Finish(r)
    PROVE  Stores(r) \/ Loses(r)
BY DEF Finish, persist, Stores, Loses

\* Request r ends as turn t, with message m for conversation s.
FinishMakes(r, s, t, m) ==
    /\ turn[r] \in Turns /\ turn[r].at = "answered" /\ turn' = [turn EXCEPT ![r] = t]
    /\ t.at = "ended" /\ t.user = turn[r].user /\ t.session = s
    /\ t.did = turn[r].did /\ t.raised = turn[r].raised /\ t.end = turn[r].end
    /\ t.since = 0 /\ t.results = {} /\ t.history = {} /\ t.answer = turn[r].answer
    /\ m.role = "assistant" /\ m.by = r /\ m.says = turn[r].answer /\ m.at = clock
    /\ sessions' \in [Requests -> [user : Users \cup {None}, messages : Seq(Said)]]
    /\ \A q \in Requests : sessions'[q].user = sessions[q].user
    /\ \A q \in Requests \ {s} : sessions'[q] = sessions[q]
    /\ sessions'[s].messages = IF Live(s) THEN Append(sessions[s].messages, m)
                              ELSE sessions[s].messages

\* The reply is stored in the conversation, if it is still there.
LEMMA FinishEffect ==
    ASSUME TypeOK, NEW r \in Requests, NEW s \in Requests, turn[r].session = s, Stores(r)
    PROVE  \E t \in Turns, m \in Said :
             FinishMakes(r, s, t, m)
<1> DEFINE m == Replied(r)
           t == [turn[r] EXCEPT !.at = "ended", !.end = turn[r].end, !.since = 0,
                   !.round = 0, !.calls = 0, !.results = {}, !.history = {}]
           next == [sessions[s] EXCEPT !.messages = Append(sessions[s].messages, m)]
<1>1. turn[r].at = "answered" /\ turn[r] \in Turns
  BY TurnIsRecord DEF Stores, Stages
<1>2. clock \in Nat /\ turn \in [Requests -> Turns \cup {NoTurn}]
      /\ sessions \in [Requests -> [user : Users \cup {None}, messages : Seq(Said)]]
  BY DEF TypeOK
<1>3. turn' = [turn EXCEPT ![r] = t]
  BY <1>2 DEF Stores, EndsWith
<1>4. /\ t \in Turns /\ t.at = "ended" /\ t.user = turn[r].user /\ t.session = s
      /\ t.did = turn[r].did /\ t.raised = turn[r].raised /\ t.end = turn[r].end
      /\ t.since = 0 /\ t.results = {} /\ t.history = {} /\ t.answer = turn[r].answer
  BY <1>1 DEF Turns, Stages
<1>5. /\ m \in Said /\ m.role = "assistant" /\ m.by = r /\ m.says = turn[r].answer
      /\ m.at = clock
  BY <1>1, <1>2 DEF Replied, Said, Turns
<1>6. sessions' = IF Live(s) THEN [sessions EXCEPT ![s] = next] ELSE sessions
  BY <1>2 DEF Stores, Append1
<1> HIDE DEF m, t
<1>7. /\ next \in [user : Users \cup {None}, messages : Seq(Said)]
      /\ next.user = sessions[s].user /\ next.messages = Append(sessions[s].messages, m)
  <2>1. sessions[s] \in [user : Users \cup {None}, messages : Seq(Said)]
    BY <1>2
  <2>2. Append(sessions[s].messages, m) \in Seq(Said)
    BY <1>5, <2>1
  <2> QED
    BY <2>1, <2>2
<1> HIDE DEF next
<1>8. /\ sessions' \in [Requests -> [user : Users \cup {None}, messages : Seq(Said)]]
      /\ \A q \in Requests : sessions'[q].user = sessions[q].user
      /\ \A q \in Requests \ {s} : sessions'[q] = sessions[q]
      /\ sessions'[s].messages = IF Live(s) THEN Append(sessions[s].messages, m)
                                ELSE sessions[s].messages
  <2>1. CASE Live(s)
    BY <1>2, <1>6, <1>7, <2>1
  <2>2. CASE ~Live(s)
    BY <1>2, <1>6, <2>2
  <2> QED
    BY <2>1, <2>2
<1>9. FinishMakes(r, s, t, m)
  BY <1>1, <1>3, <1>4, <1>5, <1>8 DEF FinishMakes
<1> QED
  BY <1>4, <1>5, <1>9

LEMMA StoresClaims ==
    ASSUME ClaimInv, NEW r \in Requests, Stores(r)
    PROVE  ClaimInv'
<1> DEFINE s == turn[r].session
           u == turn[r].user
<1>1. ByPart /\ TypeOK /\ turn[r].at \in Stages \ {"ended"} /\ UNCHANGED <<clock, cache, queue>>
      /\ turn[r] \in Turns /\ s \in Requests /\ u \in Users
  <2>1. ByPart /\ TypeOK /\ turn[r].at = "answered" /\ turn[r].at \in Stages
    BY ByPartIsAll DEF ByPart, Stores, Stages
  <2>2. turn[r] \in Turns
    BY <2>1, TurnIsRecord
  <2> QED
    BY <2>1, <2>2 DEF Stores, Turns
<1>2. PICK t \in Turns, m \in Said : FinishMakes(r, s, t, m)
  BY <1>1, FinishEffect
<1> USE DEF FinishMakes
<1>12. TurnFits(t)
  <2>1. EndsWith(r, turn[r].end) /\ turn[r].end \in {"none", "fallback", "error", "gone", "unsaved"}
    BY <1>1 DEF Stores, Turns
  <2>2. PICK x \in Turns : turn' = [turn EXCEPT ![r] = x] /\ TurnFits(x)
    BY <1>1, <2>1, EndFits
  <2>3. turn \in [Requests -> Turns \cup {NoTurn}]
    BY <1>1 DEF TypeOK
  <2>4. x = turn'[r] /\ t = turn'[r]
    BY <1>2, <2>2, <2>3
  <2> QED
    BY <2>2, <2>4
<1>3. /\ clock \in Nat /\ t.at \in Stages /\ TurnFits(t)
      /\ turn[s].at \in Stages /\ turn[s].user = u
      /\ sessions \in [Requests -> [user : Users \cup {None}, messages : Seq(Said)]]
  BY <1>1, <1>2, <1>12 DEF ByPart, TypeOK, SessionFits, Stages
<1>4. \A c \in m.says : /\ QueueOf[c.action] = OrgOf[u]
                        /\ c.source = "tool" => m.at - c.as_of <= TTL + 2 * Patience
  <2> SUFFICES ASSUME NEW c \in turn[r].answer
               PROVE  /\ QueueOf[c.action] = OrgOf[u]
                      /\ c.source = "tool" => clock - c.as_of <= TTL + 2 * Patience
    BY <1>2
  <2>1. /\ clock - turn[r].since <= Patience /\ turn[r].since \in Nat /\ c.as_of \in Nat
        /\ c.source = "tool" => turn[r].since - c.as_of <= TTL + Patience
        /\ QueueOf[c.action] = OrgOf[u]
    <3>1. TurnFits(turn[r]) /\ c \in Claims /\ turn[r].since \in Nat
      BY <1>1 DEF ByPart, Turns
    <3>2. c.as_of \in Nat
      BY <3>1 DEF Claims
    <3> QED
      BY <1>1, <3>1, <3>2 DEF TurnFits, Own
  <2> QED
    BY <1>3, <2>1, ChatAssumption
<1> HIDE DEF s, u
<1>5. /\ turn' \in [Requests -> Turns \cup {NoTurn}] /\ turn'[r] = t
      /\ \A q \in Requests \ {r} : turn'[q] = turn[q]
  BY <1>1, <1>2 DEF TypeOK
<1>6. TypeOK'
  BY <1>1, <1>2, <1>5 DEF TypeOK
<1>7. \A q \in Requests : TurnFits(turn[q])'
  <2>1. \A q \in Requests : TurnFits(turn'[q])
    BY <1>1, <1>2, <1>3, <1>5 DEF ByPart
  <2> QED
    BY <1>1, <2>1 DEF TurnFits, Own
<1>8. \A q \in Requests : SessionFits(turn[q])'
  <2> SUFFICES ASSUME NEW q \in Requests, turn'[q].at \in Stages
               PROVE  /\ turn'[turn'[q].session].at \in Stages
                      /\ turn'[turn'[q].session].user = turn'[q].user
    BY DEF SessionFits
  <2>1. turn[q].at \in Stages /\ turn'[q].session = turn[q].session /\ turn'[q].user = turn[q].user
    BY <1>1, <1>2, <1>3, <1>5 DEF s
  <2>2. turn[q].session \in Requests
    BY <1>1, <2>1, TurnIsRecord DEF Turns
  <2> QED
    BY <1>1, <1>2, <1>3, <1>5, <2>1, <2>2 DEF ByPart, SessionFits
<1>9. \A q \in Requests : OwnerFits(q)'
  BY <1>1, <1>2, <1>3, <1>5 DEF ByPart, OwnerFits, Live
<1>10. ASSUME NEW q \in Requests PROVE MessagesFit(q)'
  <2>1. CASE sessions'[q] = sessions[q]
    BY <1>1, <2>1 DEF ByPart, MessagesFit, MessageFits
  <2>2. CASE q = s /\ Live(s)
    <3> DEFINE said == sessions[s].messages
    <3>1. said \in Seq(Said)
      BY <1>1, <1>3
    <3>2. sessions'[s].user = u /\ sessions[s].user = u
      BY <1>1, <1>2, <1>3, <2>2 DEF ByPart, OwnerFits
    <3> SUFFICES ASSUME NEW i \in 1 .. Len(Append(said, m)), Append(said, m)[i].role = "assistant",
                        NEW c \in Append(said, m)[i].says
                 PROVE  /\ QueueOf[c.action] = OrgOf[u]
                        /\ c.source = "tool" =>
                             Append(said, m)[i].at - c.as_of <= TTL + 2 * Patience
      <4>1. sessions'[s].messages = Append(said, m)
        BY <1>2, <2>2
      <4> QED
        BY <2>2, <3>2, <4>1 DEF MessagesFit, MessageFits
    <3>3. CASE i \in 1 .. Len(said)
      <4>1. Append(said, m)[i] = said[i]
        BY <3>1, <3>3
      <4> QED
        BY <1>1, <1>3, <3>2, <3>3, <4>1 DEF ByPart, MessagesFit, MessageFits
    <3>4. CASE i \notin 1 .. Len(said)
      <4>1. Append(said, m)[i] = m
        BY <3>1, <3>4
      <4> QED
        BY <1>4, <4>1
    <3> QED
      BY <3>3, <3>4
  <2>3. CASE q = s /\ ~Live(s)
    BY <1>1, <1>2, <2>3 DEF ByPart, MessagesFit, MessageFits
  <2> QED
    BY <1>2, <2>1, <2>2, <2>3
<1>11. \A e \in cache' : PointFits(e)'
  BY <1>1 DEF ByPart, PointFits
<1> QED
  BY <1>6, <1>7, <1>8, <1>9, <1>10, <1>11, ByPartIsAllNext DEF ByPart

LEMMA FinishClaims ==
    ASSUME ClaimInv, NEW r \in Requests, Finish(r)
    PROVE  ClaimInv'
<1>1. CASE Stores(r)
  BY <1>1, StoresClaims
<1>2. CASE Loses(r)
  <2> DEFINE end == IF turn[r].end = "none" THEN "unsaved" ELSE turn[r].end
  <2>1. turn[r].at \in Stages /\ UNCHANGED <<clock, sessions, cache, queue>> /\ EndsWith(r, end)
    BY <1>2 DEF Loses, Stages
  <2>2. turn[r] \in Turns /\ queue \in [Actions -> Statuses]
        /\ cache \subseteq [org : Orgs, question : Questions, answer : SUBSET Claims, at : Nat]
    BY <2>1, Running
  <2>3. end \in {"none", "fallback", "error", "gone", "unsaved"}
    BY <2>2 DEF Turns
  <2> HIDE DEF end
  <2>4. \E t \in Turns : /\ turn' = [turn EXCEPT ![r] = t] /\ TurnFits(t)
                         /\ t.user = turn[r].user /\ t.session = turn[r].session
    BY <2>1, <2>3, EndFits
  <2> QED
    BY <2>1, <2>2, <2>4, StepClaims
<1> QED
  BY <1>1, <1>2, Finishes

\* Nothing changes but the conversations, the queue and the time.
LEMMA OtherClaims ==
    ASSUME ClaimInv, UNCHANGED <<turn, cache>>,
           clock' \in Nat, queue' \in [Actions -> Statuses],
           \/ clock' = clock
           \/ /\ clock' = clock + 1
              /\ \A r \in Requests : InProgress(r) => clock - turn[r].since < Patience,
           \A s \in Requests : sessions'[s] \in {sessions[s], Absent},
           sessions' \in [Requests -> [user : Users \cup {None}, messages : Seq(Said)]]
    PROVE  ClaimInv'
<1>1. ByPart /\ TypeOK /\ clock \in Nat
  BY ByPartIsAll DEF ByPart, TypeOK
<1>2. TypeOK'
  BY <1>1 DEF TypeOK
<1>3. \A r \in Requests : TurnFits(turn[r])'
  <2> SUFFICES ASSUME NEW r \in Requests, turn[r].at \in Stages
               PROVE  TurnFits(turn[r])'
    BY DEF TurnFits, Stages
  <2>1. turn[r].since \in Nat /\ TurnFits(turn[r])
    BY <1>1, TurnIsRecord DEF ByPart, Turns
  <2>2. turn[r].at \in Stages \ {"ended"} =>
          turn[r].since <= clock' /\ clock' - turn[r].since <= Patience
    <3> SUFFICES ASSUME turn[r].at \in Stages \ {"ended"}
                 PROVE  turn[r].since <= clock' /\ clock' - turn[r].since <= Patience
      OBVIOUS
    <3>1. /\ turn[r].since <= clock /\ clock - turn[r].since <= Patience
          /\ InProgress(r) /\ Patience \in Nat
      BY <2>1, ChatAssumption DEF TurnFits, InProgress, Stages
    <3> QED
      BY <1>1, <2>1, <3>1
  <2> QED
    BY <2>1, <2>2 DEF TurnFits, Own
<1>4. \A r \in Requests : SessionFits(turn[r])'
  BY <1>1 DEF ByPart, SessionFits
<1>5. \A s \in Requests : OwnerFits(s)'
  BY <1>1 DEF ByPart, OwnerFits, Live, Absent
<1>6. \A s \in Requests : MessagesFit(s)'
  <2> SUFFICES ASSUME NEW s \in Requests PROVE MessagesFit(s)'
    OBVIOUS
  <2>1. CASE sessions'[s] = sessions[s]
    BY <1>1, <2>1 DEF ByPart, MessagesFit, MessageFits
  <2>2. CASE sessions'[s] = Absent
    BY <2>2 DEF MessagesFit, Absent
  <2> QED
    BY <2>1, <2>2
<1>7. \A e \in cache' : PointFits(e)'
  BY <1>1 DEF ByPart, PointFits
<1> QED
  BY <1>2, <1>3, <1>4, <1>5, <1>6, <1>7, ByPartIsAllNext DEF ByPart

LEMMA NextClaims == ClaimInv /\ [Next]_vars => ClaimInv'
<1> SUFFICES ASSUME ClaimInv, [Next]_vars PROVE ClaimInv'
  OBVIOUS
<1>1. /\ clock \in Nat /\ queue \in [Actions -> Statuses]
      /\ sessions \in [Requests -> [user : Users \cup {None}, messages : Seq(Said)]]
  BY DEF ClaimInv, TypeOK
<1>2. CASE Tick
  BY <1>1, <1>2, OtherClaims DEF Tick
<1>3. ASSUME NEW r \in Requests, stream_reply(r) PROVE ClaimInv'
  BY <1>3, MoveClaims, CacheHitClaims, AnswersClaims, FailsClaims, ToolClaims, FinishClaims DEF stream_reply
<1>4. ASSUME NEW r \in Requests, chat(r) \/ Disconnect(r) PROVE ClaimInv'
  BY <1>4, ChatClaims, FailsClaims
<1>5. ASSUME NEW s \in Requests, delete_chat_session(s) PROVE ClaimInv'
  <2>1. Absent \in [user : Users \cup {None}, messages : Seq(Said)]
    BY DEF Absent
  <2>2. sessions' = [sessions EXCEPT ![s] = Absent] /\ UNCHANGED <<clock, turn, cache, queue>>
    BY <1>5 DEF delete_chat_session
  <2>3. /\ sessions' \in [Requests -> [user : Users \cup {None}, messages : Seq(Said)]]
        /\ \A q \in Requests : sessions'[q] \in {sessions[q], Absent}
    <3> HIDE DEF Absent
    <3> QED
      BY <1>1, <2>1, <2>2
  <2> QED
    BY <1>1, <2>2, <2>3, OtherClaims
<1>6. ASSUME NEW a \in Actions, DecideOnPage(a) PROVE ClaimInv'
  BY <1>1, <1>6, OtherClaims DEF DecideOnPage, Statuses
<1>7. CASE UNCHANGED vars
  BY <1>1, <1>7, OtherClaims DEF vars
<1> QED
  BY <1>2, <1>3, <1>4, <1>5, <1>6, <1>7 DEF Next

-----------------------------------------------------------------------------
(* Who speaks in a conversation, and what is told there                      *)

\* Replies in conversation s follow their questions, and nobody speaks twice.
FollowsFit(s) ==
  LET said == sessions[s].messages
  IN  /\ \A i \in DOMAIN said : said[i].role = "assistant" =>
           \E j \in 1 .. i - 1 : said[j].role = "user" /\ said[j].by = said[i].by
      /\ \A i, j \in DOMAIN said :
           said[i].role = said[j].role /\ said[i].by = said[j].by => i = j

\* What request r did is told, also in its conversation, or there is a reason.
Ends == {"fallback", "error", "gone"}
ToldFits(r) ==
  LET said == sessions[turn[r].session].messages
  IN  turn[r].at = "ended" => \A a \in turn[r].did \ turn[r].raised :
        \/ turn[r].end \in Ends
        \/ /\ Tells(turn[r].answer, a)
           /\ \/ \E i \in DOMAIN said : /\ said[i].role = "assistant" /\ said[i].by = r
                                        /\ Tells(said[i].says, a)
              \/ turn[r].end = "unsaved"
              \/ ~Live(turn[r].session)

TalkFits(r) ==
  SpeakersFit(r) /\ QuestionStands(r) /\ DeedsFit(turn[r]) /\ FollowsFit(r) /\ ToldFits(r)

LEMMA TalkByPart == TalkInv <=> \A r \in Requests : TalkFits(r)
<1>1. ASSUME NEW r \in Requests
      PROVE  ToldFits(r) <=>
               (turn[r].at = "ended" => \A a \in turn[r].did \ turn[r].raised :
                 \/ turn[r].end \in {"fallback", "error", "gone"}
                 \/ /\ Tells(turn[r].answer, a)
                    /\ \/ \E m \in Replies(turn[r].session) : m.by = r /\ Tells(m.says, a)
                       \/ turn[r].end = "unsaved"
                       \/ ~Live(turn[r].session))
  BY DEF ToldFits, Ends, Replies, Messages
<1>2. (\A r \in Requests : ToldFits(r)) <=> UntoldExplained
  BY <1>1 DEF UntoldExplained
<1>3. (\A s \in Requests : SpeakersFit(s)) =>
        (RepliesFollowQuestions <=> \A s \in Requests : FollowsFit(s))
  BY DEF RepliesFollowQuestions, SpeakersFit, FollowsFit
<1> QED
  BY <1>2, <1>3 DEF TalkInv, TalkFits

LEMMA TalkByPartNext == TalkInv' <=> (\A r \in Requests : TalkFits(r))'
BY TalkByPart, PTL

\* The messages of a conversation, and the conversation of a turn.
LEMMA Talks ==
    ASSUME TypeOK, NEW r \in Requests
    PROVE  /\ sessions[r].messages \in Seq(Said)
           /\ DOMAIN sessions[r].messages = 1 .. Len(sessions[r].messages)
           /\ \A i \in DOMAIN sessions[r].messages : sessions[r].messages[i].by \in Requests
           /\ turn[r].at \in Stages => turn[r].session \in Requests
<1>1. sessions[r].messages \in Seq(Said)
  BY DEF TypeOK
<1>2. ASSUME NEW i \in 1 .. Len(sessions[r].messages)
      PROVE  sessions[r].messages[i].by \in Requests
  <2>1. sessions[r].messages[i] \in Said
    BY <1>1
  <2> QED
    BY <2>1 DEF Said
<1> QED
  BY <1>1, <1>2, TurnIsRecord DEF Turns

\* A message more.
LEMMA Appended ==
    ASSUME NEW said \in Seq(Said), NEW m \in Said
    PROVE  /\ DOMAIN said = 1 .. Len(said) /\ Len(said) \in Nat
           /\ DOMAIN Append(said, m) = 1 .. Len(said) + 1
           /\ \A i \in 1 .. Len(said) : Append(said, m)[i] = said[i]
           /\ Append(said, m)[Len(said) + 1] = m
OBVIOUS

\* A turn t has ended for a reason, or with all of it told but not stored.
EndFitly(t) ==
  \/ t.end \in Ends
  \/ t.end = "unsaved" /\ \A a \in t.did \ t.raised : Tells(t.answer, a)

\* Request r goes on, or ends so, and nothing is said.
Quiet(r) ==
  /\ InProgress(r) /\ turn[r].at \in Stages
  /\ sessions' = sessions
  /\ \A q \in Requests \ {r} : turn'[q] = turn[q]
  /\ turn'[r].at \in Stages /\ turn'[r].user = turn[r].user /\ turn'[r].session = turn[r].session
  /\ DeedsFit(turn'[r])
  /\ turn'[r].at = "ended" => EndFitly(turn'[r])

LEMMA QuietTalk ==
    ASSUME ClaimInv, TalkInv, NEW r \in Requests, Quiet(r)
    PROVE  TalkInv'
<1>1. TypeOK /\ \A q \in Requests : TalkFits(q)
  BY TalkByPart DEF ClaimInv
<1>2. \A q \in Requests :
        /\ turn[q].at \in Stages => /\ turn'[q].at \in Stages /\ turn'[q].user = turn[q].user
                                    /\ turn'[q].session = turn[q].session
        /\ turn[q].at = "ended" => turn'[q] = turn[q]
  BY DEF Quiet, InProgress
<1>3. \A s \in Requests : SpeakersFit(s)'
  BY <1>1, <1>2, Talks DEF TalkFits, SpeakersFit, Quiet
<1>4. \A q \in Requests : QuestionStands(q)'
  BY <1>1 DEF TalkFits, QuestionStands, Quiet, InProgress, Live
<1>5. \A q \in Requests : DeedsFit(turn[q])'
  BY <1>1 DEF TalkFits, DeedsFit, Quiet
<1>6. \A s \in Requests : FollowsFit(s)'
  BY <1>1 DEF TalkFits, FollowsFit, Quiet
<1>7. \A q \in Requests : ToldFits(q)'
  BY <1>1 DEF TalkFits, ToldFits, Quiet, EndFitly, Live
<1> QED
  BY <1>3, <1>4, <1>5, <1>6, <1>7, TalkByPartNext DEF TalkFits

\* Nothing is said, and no turn gets on.
LEMMA OtherTalk ==
    ASSUME TalkInv, UNCHANGED <<turn, sessions>>
    PROVE  TalkInv'
<1>1. \A r \in Requests : SpeakersFit(r)' /\ QuestionStands(r)' /\ DeedsFit(turn[r])'
  BY DEF TalkInv, SpeakersFit, QuestionStands, DeedsFit, InProgress, Live
<1>2. RepliesFollowQuestions'
  BY DEF TalkInv, RepliesFollowQuestions
<1>3. UntoldExplained'
  BY DEF TalkInv, UntoldExplained, Replies, Messages, Live
<1> QED
  BY <1>1, <1>2, <1>3 DEF TalkInv

\* The steps of a reply but the last are quiet, and so is a client that leaves.
LEMMA StepsAreQuiet ==
    ASSUME TypeOK, NEW r \in Requests, DeedsFit(turn[r]),
           \/ CacheHit(r) \/ CacheMiss(r) \/ AsksForTools(r) \/ AnswersInText(r)
           \/ AnswersNothing(r) \/ Streams(r) \/ ModelFails(r) \/ get_action_queue(r)
           \/ approve_action(r) \/ OtherTool(r) \/ ToolsDone(r) \/ Disconnect(r)
    PROVE  Quiet(r)
<1>1. InProgress(r) /\ turn[r].at \in Stages /\ sessions' = sessions
  <2>1. turn[r].at \in Stages \/ turn[r].at = "idle"
    BY TurnIsRecord DEF Turns
  <2> QED
    BY <2>1 DEF CacheHit, CacheMiss, AsksForTools, AnswersInText, AnswersNothing, Streams, Answers, ModelFails,
       get_action_queue, approve_action, OtherTool, ToolsDone, Disconnect, Calls, InProgress, Stages
<1>2. turn[r] \in Turns /\ turn \in [Requests -> Turns \cup {NoTurn}]
  BY <1>1, TurnIsRecord DEF TypeOK
<1>3. SUFFICES /\ \A q \in Requests \ {r} : turn'[q] = turn[q]
               /\ turn'[r].at \in Stages
               /\ turn'[r].user = turn[r].user /\ turn'[r].session = turn[r].session
               /\ DeedsFit(turn'[r])
               /\ turn'[r].at = "ended" => EndFitly(turn'[r])
  BY <1>1 DEF Quiet
<1>4. ASSUME NEW end \in {"error", "gone"}, EndsWith(r, end)
      PROVE  /\ \A q \in Requests \ {r} : turn'[q] = turn[q]
             /\ turn'[r].at = "ended" /\ turn'[r].end = end
             /\ turn'[r].user = turn[r].user /\ turn'[r].session = turn[r].session
  BY <1>2, <1>4 DEF EndsWith, Turns
<1>5. CASE CacheHit(r)
  <2>1. PICK answer : turn' = [turn EXCEPT ![r].at = "answered", ![r].answer = answer]
    BY <1>5 DEF CacheHit
  <2>2. /\ \A q \in Requests \ {r} : turn'[q] = turn[q]
        /\ turn'[r].at = "answered" /\ turn'[r].did = turn[r].did
        /\ turn'[r].raised = turn[r].raised /\ turn'[r].end = turn[r].end
        /\ turn'[r].user = turn[r].user /\ turn'[r].session = turn[r].session
    BY <1>2, <2>1 DEF Turns
  <2> QED
    BY <1>5, <2>2 DEF CacheHit, DeedsFit, Stages
<1>6. CASE CacheMiss(r)
  <2>1. /\ \A q \in Requests \ {r} : turn'[q] = turn[q]
        /\ turn'[r].at = "thinking" /\ turn'[r].did = turn[r].did
        /\ turn'[r].raised = turn[r].raised /\ turn'[r].end = turn[r].end
        /\ turn'[r].user = turn[r].user /\ turn'[r].session = turn[r].session
    BY <1>2, <1>6 DEF CacheMiss, Enter, Turns
  <2> QED
    BY <1>6, <2>1 DEF CacheMiss, DeedsFit, Stages
<1>7. CASE AsksForTools(r)
  <2>1. /\ \A q \in Requests \ {r} : turn'[q] = turn[q]
        /\ turn'[r].at = "calling" /\ turn'[r].did = turn[r].did
        /\ turn'[r].raised = turn[r].raised /\ turn'[r].end = turn[r].end
        /\ turn'[r].results = turn[r].results
        /\ turn'[r].user = turn[r].user /\ turn'[r].session = turn[r].session
    BY <1>2, <1>7 DEF AsksForTools, Turns
  <2> QED
    BY <1>7, <2>1 DEF AsksForTools, DeedsFit, Stages
<1>8. CASE AnswersInText(r)
  <2>1. /\ \A q \in Requests \ {r} : turn'[q] = turn[q]
        /\ turn'[r].at = "answered" /\ turn'[r].did = turn[r].did
        /\ turn'[r].raised = turn[r].raised /\ turn'[r].end = "none"
        /\ turn'[r].answer = turn[r].results \cup turn[r].history
        /\ turn'[r].user = turn[r].user /\ turn'[r].session = turn[r].session
    BY <1>2, <1>8 DEF AnswersInText, Answers, Turns
  <2>2. \A a \in turn[r].did \ turn[r].raised : Tells(turn[r].results, a)
    BY <1>8 DEF AnswersInText, DeedsFit
  <2>3. \A a \in turn'[r].did \ turn'[r].raised : Tells(turn'[r].answer, a)
    BY <2>1, <2>2 DEF Tells
  <2> QED
    BY <2>1, <2>3 DEF DeedsFit, Stages
<1>9. CASE AnswersNothing(r)
  <2>1. /\ \A q \in Requests \ {r} : turn'[q] = turn[q]
        /\ turn'[r].at = "streaming" /\ turn'[r].end = turn[r].end
        /\ turn'[r].user = turn[r].user /\ turn'[r].session = turn[r].session
    BY <1>2, <1>9 DEF AnswersNothing, Turns
  <2> QED
    BY <1>9, <2>1 DEF AnswersNothing, DeedsFit, Stages
<1>10. CASE Streams(r)
  <2>1. /\ \A q \in Requests \ {r} : turn'[q] = turn[q]
        /\ turn'[r].at = "answered" /\ turn'[r].end = "fallback"
        /\ turn'[r].user = turn[r].user /\ turn'[r].session = turn[r].session
    BY <1>2, <1>10 DEF Streams, Answers, Turns
  <2> QED
    BY <2>1 DEF DeedsFit, Stages
<1>11. CASE ModelFails(r)
  <2>1. CASE EndsWith(r, "error")
    BY <1>4, <2>1 DEF DeedsFit, EndFitly, Ends, Stages
  <2>2. ASSUME NEW says,
               turn' = [turn EXCEPT ![r].at = "answered", ![r].answer = says, ![r].end = "error"]
        PROVE  /\ \A q \in Requests \ {r} : turn'[q] = turn[q]
               /\ turn'[r].at \in Stages
               /\ turn'[r].user = turn[r].user /\ turn'[r].session = turn[r].session
               /\ DeedsFit(turn'[r])
               /\ turn'[r].at = "ended" => EndFitly(turn'[r])
    <3>1. /\ \A q \in Requests \ {r} : turn'[q] = turn[q]
          /\ turn'[r].at = "answered" /\ turn'[r].end = "error"
          /\ turn'[r].user = turn[r].user /\ turn'[r].session = turn[r].session
      BY <1>2, <2>2 DEF Turns
    <3> QED
      BY <3>1 DEF DeedsFit, Stages
  <2> QED
    BY <1>11, <2>1, <2>2 DEF ModelFails
<1>12. ASSUME NEW status, NEW as, NEW done, done \subseteq as, Told(r, status, as, done), Calls(r)
       PROVE  /\ \A q \in Requests \ {r} : turn'[q] = turn[q]
              /\ turn'[r].at \in Stages
              /\ turn'[r].user = turn[r].user /\ turn'[r].session = turn[r].session
              /\ DeedsFit(turn'[r])
              /\ turn'[r].at = "ended" => EndFitly(turn'[r])
  <2> DEFINE new == {[action |-> a, status |-> status[a], as_of |-> clock,
                      source |-> "tool"] : a \in as}
             told == {c \in turn[r].results : c.action \notin as} \cup new
  <2>1. \A a \in as : Tells(told, a)
    <3> TAKE a \in as
    <3> DEFINE c == [action |-> a, status |-> status[a], as_of |-> clock, source |-> "tool"]
    <3>1. c \in told /\ c.action = a /\ c.source = "tool"
      OBVIOUS
    <3> QED
      BY <3>1 DEF Tells
  <2>2. \A c \in turn[r].results : c.action \notin as => c \in told
    OBVIOUS
  <2>3. turn' = [turn EXCEPT ![r].calls = @ + 1, ![r].results = told, ![r].did = @ \cup done]
    BY <1>12 DEF Told
  <2> HIDE DEF told
  <2> DEFINE calls == turn[r].calls + 1
             did == turn[r].did \cup done
             t == [turn[r] EXCEPT !.calls = calls, !.results = told, !.did = did]
  <2>7. turn' = [turn EXCEPT ![r] = t]
    BY <1>2, <2>3
  <2> HIDE DEF calls, did
  <2>8. /\ t.at = turn[r].at /\ t.did = did /\ t.raised = turn[r].raised /\ t.results = told
        /\ t.end = turn[r].end /\ t.user = turn[r].user /\ t.session = turn[r].session
    BY <1>2 DEF Turns
  <2> HIDE DEF t
  <2>9. turn'[r] = t /\ \A q \in Requests \ {r} : turn'[q] = turn[q]
    BY <1>2, <2>7
  <2>4. /\ \A q \in Requests \ {r} : turn'[q] = turn[q]
        /\ turn'[r].at = "calling" /\ turn'[r].did = turn[r].did \cup done
        /\ turn'[r].raised = turn[r].raised /\ turn'[r].results = told
        /\ turn'[r].end = turn[r].end
        /\ turn'[r].user = turn[r].user /\ turn'[r].session = turn[r].session
    BY <1>12, <2>8, <2>9 DEF did, Calls
  <2>5. \A a \in turn[r].did \ turn[r].raised : Tells(turn[r].results, a)
    <3>1. turn[r].at = "calling"
      BY <1>12 DEF Calls
    <3> QED
      BY <3>1 DEF DeedsFit
  <2>6. \A a \in (turn[r].did \cup done) \ turn[r].raised : Tells(told, a)
    <3> TAKE a \in (turn[r].did \cup done) \ turn[r].raised
    <3>1. CASE a \in as
      BY <2>1, <3>1
    <3>2. CASE a \notin as
      <4>1. PICK c \in turn[r].results : c.action = a /\ c.source = "tool"
        BY <1>12, <2>5, <3>2 DEF Tells
      <4> QED
        BY <2>2, <3>2, <4>1 DEF Tells
    <3> QED
      BY <3>1, <3>2
  <2> QED
    <3>1. turn[r].at = "calling" /\ turn'[r].end # "unsaved"
      BY <1>12, <2>4 DEF Calls, DeedsFit, Stages
    <3>2. \A a \in turn'[r].did \ turn'[r].raised : Tells(turn'[r].results, a)
      BY <2>4, <2>6
    <3>3. DeedsFit(turn'[r])
      BY <2>4, <3>1, <3>2 DEF DeedsFit
    <3> QED
      BY <2>4, <3>3 DEF Stages
<1>13. CASE get_action_queue(r)
  BY <1>12, <1>13 DEF get_action_queue
<1>14. CASE approve_action(r)
  <2>1. ASSUME NEW a \in Actions, Told(r, queue', {a}, {a})
        PROVE  /\ \A q \in Requests \ {r} : turn'[q] = turn[q]
               /\ turn'[r].at \in Stages
               /\ turn'[r].user = turn[r].user /\ turn'[r].session = turn[r].session
               /\ DeedsFit(turn'[r])
               /\ turn'[r].at = "ended" => EndFitly(turn'[r])
    BY <1>12, <1>14, <2>1 DEF approve_action
  <2>2. ASSUME NEW a \in Actions,
               turn' = [turn EXCEPT ![r].calls = @ + 1, ![r].did = @ \cup {a},
                                    ![r].raised = @ \cup {a}]
        PROVE  /\ \A q \in Requests \ {r} : turn'[q] = turn[q]
               /\ turn'[r].at \in Stages
               /\ turn'[r].user = turn[r].user /\ turn'[r].session = turn[r].session
               /\ DeedsFit(turn'[r])
               /\ turn'[r].at = "ended" => EndFitly(turn'[r])
    <3>1. /\ \A q \in Requests \ {r} : turn'[q] = turn[q]
          /\ turn'[r].at = "calling" /\ turn'[r].did = turn[r].did \cup {a}
          /\ turn'[r].raised = turn[r].raised \cup {a} /\ turn'[r].results = turn[r].results
          /\ turn'[r].end = turn[r].end
          /\ turn'[r].user = turn[r].user /\ turn'[r].session = turn[r].session
      BY <1>2, <1>14, <2>2 DEF approve_action, Calls, Turns
    <3>2. \A b \in turn[r].did \ turn[r].raised : Tells(turn[r].results, b)
      BY <1>14 DEF approve_action, Calls, DeedsFit
    <3> QED
      BY <1>14, <3>1, <3>2 DEF approve_action, Calls, DeedsFit, Stages
  <2> QED
    BY <1>14, <2>1, <2>2 DEF approve_action
<1>15. CASE OtherTool(r)
  <2>1. /\ \A q \in Requests \ {r} : turn'[q] = turn[q]
        /\ turn'[r].at = "calling" /\ turn'[r].did = turn[r].did
        /\ turn'[r].raised = turn[r].raised /\ turn'[r].end = turn[r].end
        /\ turn'[r].results = turn[r].results
        /\ turn'[r].user = turn[r].user /\ turn'[r].session = turn[r].session
    BY <1>2, <1>15 DEF OtherTool, Calls, Turns
  <2> QED
    BY <1>15, <2>1 DEF OtherTool, Calls, DeedsFit, Stages
<1>16. CASE ToolsDone(r)
  <2>1. /\ \A q \in Requests \ {r} : turn'[q] = turn[q]
        /\ turn'[r].at = "thinking" /\ turn'[r].did = turn[r].did
        /\ turn'[r].raised = turn[r].raised /\ turn'[r].end = turn[r].end
        /\ turn'[r].results = turn[r].results
        /\ turn'[r].user = turn[r].user /\ turn'[r].session = turn[r].session
    BY <1>2, <1>16 DEF ToolsDone, Turns
  <2> QED
    BY <1>16, <2>1 DEF ToolsDone, DeedsFit, Stages
<1>17. CASE Disconnect(r)
  BY <1>4, <1>17 DEF Disconnect, DeedsFit, EndFitly, Ends, Stages
<1> QED
  BY <1>5, <1>6, <1>7, <1>8, <1>9, <1>10, <1>11, <1>13, <1>14, <1>15, <1>16, <1>17

\* So is a reply that is not stored.
LEMMA LosesIsQuiet ==
    ASSUME TypeOK, NEW r \in Requests, DeedsFit(turn[r]), Loses(r)
    PROVE  Quiet(r)
<1> DEFINE end == IF turn[r].end = "none" THEN "unsaved" ELSE turn[r].end
<1>1. turn[r].at = "answered" /\ turn[r].at \in Stages /\ sessions' = sessions
      /\ InProgress(r) /\ EndsWith(r, end)
  BY DEF Loses, InProgress, Stages
<1>2. turn[r] \in Turns /\ turn \in [Requests -> Turns \cup {NoTurn}]
  BY <1>1, TurnIsRecord DEF TypeOK
<1>3. /\ turn[r].end \in Ends \cup {"none"}
      /\ turn[r].end = "none" => \A a \in turn[r].did \ turn[r].raised : Tells(turn[r].answer, a)
  BY <1>1, <1>2 DEF DeedsFit, Turns, Ends
<1>4. end \in Ends \/ (end = "unsaved" /\ turn[r].end = "none")
  BY <1>3 DEF Ends
<1> HIDE DEF end
<1>5. /\ \A q \in Requests \ {r} : turn'[q] = turn[q]
      /\ turn'[r].at = "ended" /\ turn'[r].end = end
      /\ turn'[r].did = turn[r].did /\ turn'[r].raised = turn[r].raised
      /\ turn'[r].answer = turn[r].answer
      /\ turn'[r].user = turn[r].user /\ turn'[r].session = turn[r].session
  BY <1>1, <1>2 DEF EndsWith, Turns
<1>6. DeedsFit(turn'[r]) /\ EndFitly(turn'[r])
  BY <1>3, <1>4, <1>5 DEF DeedsFit, EndFitly, Stages
<1> QED
  BY <1>1, <1>5, <1>6 DEF Quiet, Stages

\* The reply comes after its question, and of a turn that is done.
LEMMA StoresTalk ==
    ASSUME ClaimInv, TalkInv, NEW r \in Requests, Stores(r)
    PROVE  TalkInv'
<1>1. TypeOK /\ ByPart /\ \A q \in Requests : TalkFits(q)
  BY TalkByPart, ByPartIsAll DEF ClaimInv
<1>2. PICK s \in Requests : turn[r].session = s
  BY <1>1, Talks DEF Stores, Stages
<1>3. PICK t \in Turns, m \in Said : FinishMakes(r, s, t, m)
  BY <1>1, <1>2, FinishEffect
<1> DEFINE said == sessions[s].messages
<1>4. /\ turn'[r] = t /\ \A q \in Requests \ {r} : turn'[q] = turn[q]
      /\ \A q \in Requests : Live(q)' <=> Live(q)
      /\ \A q \in Requests \ {s} : sessions'[q] = sessions[q]
      /\ Live(s) => sessions'[s].messages = Append(said, m)
      /\ ~Live(s) => sessions'[s].messages = said
      /\ sessions'[s].user = sessions[s].user
  BY <1>1, <1>3 DEF FinishMakes, TypeOK, Live
<1>5. /\ turn[r].at = "answered" /\ turn[r].user = t.user /\ t.at = "ended" /\ t.session = s
      /\ t.did = turn[r].did /\ t.raised = turn[r].raised /\ t.end = turn[r].end
      /\ t.answer = turn[r].answer
      /\ m.role = "assistant" /\ m.by = r /\ m.says = turn[r].answer
  BY <1>3 DEF FinishMakes
<1>6. /\ said \in Seq(Said) /\ DOMAIN said = 1 .. Len(said) /\ Len(said) \in Nat
      /\ DOMAIN Append(said, m) = 1 .. Len(said) + 1
      /\ \A i \in 1 .. Len(said) : Append(said, m)[i] = said[i]
      /\ Append(said, m)[Len(said) + 1] = m
      /\ \A i \in 1 .. Len(said) : said[i].by \in Requests
  <2>1. said \in Seq(Said) /\ \A i \in DOMAIN said : said[i].by \in Requests
    BY <1>1, Talks
  <2> HIDE DEF said
  <2> QED
    BY <2>1, Appended
<1> HIDE DEF said
<1>7. /\ \A q \in Requests : turn[q].at \in Stages =>
           turn'[q].at \in Stages /\ turn'[q].user = turn[q].user /\ turn'[q].session = turn[q].session
      /\ \A q \in Requests : turn[q].at = "ended" => turn'[q] = turn[q]
  BY <1>2, <1>4, <1>5 DEF Stages
<1>8. Live(s) => sessions[s].user = turn[r].user
  BY <1>1, <1>2, <1>5 DEF ByPart, OwnerFits, SessionFits, Stages
<1>9. ASSUME NEW q \in Requests, sessions'[q].messages = sessions[q].messages,
             sessions'[q].user = sessions[q].user
      PROVE  SpeakersFit(q)' /\ FollowsFit(q)'
  <2>1. SpeakersFit(q)'
    BY <1>1, <1>7, <1>9, Talks DEF TalkFits, SpeakersFit
  <2>2. FollowsFit(q)'
    BY <1>1, <1>9 DEF TalkFits, FollowsFit
  <2> QED
    BY <2>1, <2>2
<1>10. ASSUME Live(s) PROVE SpeakersFit(s)' /\ FollowsFit(s)'
  <2>1. sessions'[s].messages = Append(said, m)
    BY <1>4, <1>10
  <2>2. /\ \A i \in 1 .. Len(said) : LET x == turn[said[i].by] IN
             /\ x.at \in Stages /\ x.user = sessions[s].user /\ x.session = s
             /\ said[i].role = "assistant" => x.at = "ended"
        /\ \A i \in DOMAIN said : said[i].role = "assistant" =>
             \E j \in 1 .. i - 1 : said[j].role = "user" /\ said[j].by = said[i].by
        /\ \A i, j \in DOMAIN said :
             said[i].role = said[j].role /\ said[i].by = said[j].by => i = j
    <3>1. SpeakersFit(s) /\ FollowsFit(s)
      BY <1>1 DEF TalkFits
    <3>2. \A i \in 1 .. Len(said) : LET x == turn[said[i].by] IN
            /\ x.at \in Stages /\ x.user = sessions[s].user /\ x.session = s
            /\ said[i].role = "assistant" => x.at = "ended"
      BY <1>6, <3>1 DEF SpeakersFit, said
    <3> QED
      BY <3>1, <3>2 DEF FollowsFit, said
  <2>3. PICK k \in 1 .. Len(said) : said[k].role = "user" /\ said[k].by = r
    BY <1>1, <1>2, <1>5, <1>6, <1>10 DEF TalkFits, QuestionStands, InProgress, said
  <2>4. SpeakersFit(s)'
    <3> SUFFICES ASSUME NEW i \in 1 .. Len(said) + 1
                 PROVE  LET x == turn'[Append(said, m)[i].by] IN
                        /\ x.at \in Stages /\ x.user = sessions[s].user /\ x.session = s
                        /\ Append(said, m)[i].role = "assistant" => x.at = "ended"
      BY <1>4, <1>6, <2>1 DEF SpeakersFit
    <3>1. CASE i \in 1 .. Len(said)
      BY <1>6, <1>7, <2>2, <3>1
    <3>2. CASE i = Len(said) + 1
      BY <1>4, <1>5, <1>6, <1>8, <1>10, <3>2 DEF Stages
    <3> QED
      BY <1>6, <3>1, <3>2
  <2>5. ASSUME NEW i \in 1 .. Len(said) + 1, Append(said, m)[i].role = "assistant"
        PROVE  \E j \in 1 .. i - 1 : /\ Append(said, m)[j].role = "user"
                                     /\ Append(said, m)[j].by = Append(said, m)[i].by
    <3>1. CASE i \in 1 .. Len(said)
      <4>1. PICK j \in 1 .. i - 1 : said[j].role = "user" /\ said[j].by = said[i].by
        BY <1>6, <2>2, <2>5, <3>1
      <4>2. j \in 1 .. Len(said)
        BY <1>6, <3>1
      <4> QED
        BY <1>6, <3>1, <4>1, <4>2
    <3>2. CASE i = Len(said) + 1
      <4>1. k \in 1 .. i - 1
        BY <1>6, <3>2
      <4> QED
        BY <1>5, <1>6, <2>3, <3>2, <4>1
    <3> QED
      BY <1>6, <3>1, <3>2
  <2>6. \A i \in 1 .. Len(said) : said[i].role = "assistant" => said[i].by # r
    BY <1>5, <2>2
  <2>7. ASSUME NEW i \in 1 .. Len(said) + 1, NEW j \in 1 .. Len(said) + 1,
               Append(said, m)[i].role = Append(said, m)[j].role,
               Append(said, m)[i].by = Append(said, m)[j].by
        PROVE  i = j
    <3>1. CASE i \in 1 .. Len(said) /\ j \in 1 .. Len(said)
      BY <1>6, <2>2, <2>7, <3>1
    <3>2. CASE i = Len(said) + 1 \/ j = Len(said) + 1
      BY <1>5, <1>6, <2>6, <2>7, <3>2
    <3> QED
      BY <1>6, <3>1, <3>2
  <2>8. FollowsFit(s)'
    BY <1>6, <2>1, <2>5, <2>7 DEF FollowsFit
  <2> QED
    BY <2>4, <2>8
<1>11. \A q \in Requests : SpeakersFit(q)' /\ FollowsFit(q)'
  BY <1>4, <1>9, <1>10 DEF said
\* What was said stays.
<1>12. ASSUME NEW q \in Requests, NEW i \in DOMAIN sessions[q].messages
       PROVE  /\ i \in DOMAIN sessions'[q].messages
              /\ sessions'[q].messages[i] = sessions[q].messages[i]
  <2>1. CASE q = s /\ Live(s)
    BY <1>4, <1>6, <1>12, <2>1 DEF said
  <2>2. CASE ~(q = s /\ Live(s))
    BY <1>4, <1>12, <2>2 DEF said
  <2> QED
    BY <2>1, <2>2
<1>13. ASSUME NEW q \in Requests PROVE QuestionStands(q)'
  <2>1. CASE q = r
    BY <1>4, <1>5, <2>1 DEF QuestionStands, InProgress
  <2>2. CASE q # r
    <3> SUFFICES ASSUME InProgress(q), Live(turn[q].session)'
                 PROVE  \E i \in DOMAIN sessions'[turn[q].session].messages :
                          /\ sessions'[turn[q].session].messages[i].role = "user"
                          /\ sessions'[turn[q].session].messages[i].by = q
      BY <1>4, <2>2 DEF QuestionStands, InProgress, Live
    <3>1. turn[q].session \in Requests
      BY <1>1, TurnIsRecord DEF InProgress, Turns
    <3>2. PICK i \in DOMAIN sessions[turn[q].session].messages :
            /\ sessions[turn[q].session].messages[i].role = "user"
            /\ sessions[turn[q].session].messages[i].by = q
      BY <1>1, <1>4, <2>2, <3>1 DEF TalkFits, QuestionStands, Live
    <3> QED
      BY <1>12, <3>1, <3>2
  <2> QED
    BY <2>1, <2>2
<1>14. ASSUME NEW q \in Requests PROVE DeedsFit(turn[q])'
  BY <1>1, <1>4, <1>5 DEF TalkFits, DeedsFit
<1>15. ASSUME NEW q \in Requests PROVE ToldFits(q)'
  <2>1. CASE q = r
    <3>1. ASSUME t.end \notin Ends, NEW a \in t.did \ t.raised
          PROVE  Tells(t.answer, a) /\ Tells(m.says, a)
      BY <1>1, <1>3, <1>5, <3>1 DEF TalkFits, DeedsFit, FinishMakes, Turns, Ends
    <3>2. ASSUME Live(s), NEW a, Tells(m.says, a)
          PROVE  \E i \in DOMAIN sessions'[s].messages :
                   /\ sessions'[s].messages[i].role = "assistant"
                   /\ sessions'[s].messages[i].by = r
                   /\ Tells(sessions'[s].messages[i].says, a)
      <4>1. /\ Len(said) + 1 \in DOMAIN sessions'[s].messages
            /\ sessions'[s].messages[Len(said) + 1] = m
        BY <1>4, <1>6, <3>2
      <4> QED
        BY <1>5, <3>2, <4>1
    <3>3. turn'[q] = t /\ turn'[q].session = s /\ (~Live(s) => ~Live(s)')
      BY <1>4, <1>5, <2>1
    <3> SUFFICES ASSUME turn'[q].end \notin Ends, Live(s)', NEW a \in turn'[q].did \ turn'[q].raised
                 PROVE  /\ Tells(t.answer, a)
                        /\ \E i \in DOMAIN sessions'[s].messages :
                             /\ sessions'[s].messages[i].role = "assistant"
                             /\ sessions'[s].messages[i].by = q
                             /\ Tells(sessions'[s].messages[i].says, a)
      BY <3>1, <3>3 DEF ToldFits, Tells, Live
    <3> QED
      BY <2>1, <3>1, <3>2, <3>3
  <2>2. CASE q # r
    <3> SUFFICES ASSUME turn[q].at = "ended", turn[q].end \notin Ends,
                        NEW a \in turn[q].did \ turn[q].raised
                 PROVE  /\ Tells(turn[q].answer, a)
                        /\ turn[q].end # "unsaved" /\ Live(turn[q].session)' =>
                             \E i \in DOMAIN sessions'[turn[q].session].messages :
                               /\ sessions'[turn[q].session].messages[i].role = "assistant"
                               /\ sessions'[turn[q].session].messages[i].by = q
                               /\ Tells(sessions'[turn[q].session].messages[i].says, a)
      BY <1>4, <2>2 DEF ToldFits, Tells, Live
    <3>1. turn[q].session \in Requests
      BY <1>1, Talks DEF Stages
    <3>2. Tells(turn[q].answer, a)
      BY <1>1 DEF TalkFits, ToldFits
    <3>3. ASSUME turn[q].end # "unsaved", Live(turn[q].session)'
          PROVE  \E i \in DOMAIN sessions'[turn[q].session].messages :
                   /\ sessions'[turn[q].session].messages[i].role = "assistant"
                   /\ sessions'[turn[q].session].messages[i].by = q
                   /\ Tells(sessions'[turn[q].session].messages[i].says, a)
      <4>1. PICK i \in DOMAIN sessions[turn[q].session].messages :
              /\ sessions[turn[q].session].messages[i].role = "assistant"
              /\ sessions[turn[q].session].messages[i].by = q
              /\ Tells(sessions[turn[q].session].messages[i].says, a)
        BY <1>1, <1>4, <2>2, <3>1, <3>3 DEF TalkFits, ToldFits, Live
      <4> QED
        BY <1>12, <3>1, <4>1
    <3> QED
      BY <3>2, <3>3
  <2> QED
    BY <2>1, <2>2
<1> QED
  BY <1>11, <1>13, <1>14, <1>15, TalkByPartNext DEF TalkFits

LEMMA FinishTalk ==
    ASSUME ClaimInv, TalkInv, NEW r \in Requests, Finish(r)
    PROVE  TalkInv'
<1>1. TypeOK /\ DeedsFit(turn[r])
  BY TalkByPart DEF ClaimInv, TalkFits
<1> QED
  BY <1>1, Finishes, StoresTalk, LosesIsQuiet, QuietTalk

\* A question comes in, from the owner of its conversation.
LEMMA ChatTalk ==
    ASSUME ClaimInv, TalkInv, NEW r \in Requests, chat(r)
    PROVE  TalkInv'
<1>1. TypeOK /\ ByPart /\ (\A q \in Requests : TalkFits(q)) /\ turn[r].at = "idle"
  BY TalkByPart, ByPartIsAll DEF ClaimInv, chat
<1>2. PICK s \in Requests, u \in Users, t \in Turns, old \in Seq(Said), m \in Said :
             ChatMakes(r, s, u, t, old, m)
  BY <1>1, ChatEffect
<1>3. /\ turn'[r] = t /\ \A q \in Requests \ {r} : turn'[q] = turn[q]
      /\ t.at = "looking" /\ t.end = "none" /\ t.user = u /\ t.session = s /\ t.did = {}
      /\ m.role = "user" /\ m.by = r
      /\ \A q \in Requests \ {s} : sessions'[q] = sessions[q]
      /\ sessions'[s].messages = Append(old, m) /\ sessions'[s].user = u
  BY <1>1, <1>2 DEF ChatMakes, TypeOK
<1>4. s # r => Live(s) /\ sessions[s].user = u /\ old = sessions[s].messages
  BY <1>2 DEF ChatMakes, mine
<1>5. s = r => old = <<>>
  BY <1>2 DEF ChatMakes
<1>6. /\ DOMAIN old = 1 .. Len(old) /\ Len(old) \in Nat
      /\ DOMAIN Append(old, m) = 1 .. Len(old) + 1
      /\ \A i \in 1 .. Len(old) : Append(old, m)[i] = old[i]
      /\ Append(old, m)[Len(old) + 1] = m
  BY Appended
<1>7. r \notin {q \in Requests : turn[q].at \in Stages}
  BY <1>1 DEF Stages
\* The messages that were there are of others.
<1>8. ASSUME NEW i \in 1 .. Len(old)
      PROVE  LET x == turn[old[i].by] IN
             /\ s # r /\ old[i].by \in Requests /\ old[i].by # r
             /\ x.at \in Stages /\ x.user = u /\ x.session = s
             /\ old[i].role = "assistant" => x.at = "ended"
  <2>1. s # r
    BY <1>5
  <2> QED
    BY <1>1, <1>4, <1>6, <1>7, <2>1, Talks DEF TalkFits, SpeakersFit
<1>9. ASSUME NEW q \in Requests, q # s PROVE SpeakersFit(q)' /\ FollowsFit(q)'
  <2>1. \A i \in DOMAIN sessions[q].messages :
          sessions[q].messages[i].by \in Requests /\ sessions[q].messages[i].by # r
    BY <1>1, <1>7, Talks DEF TalkFits, SpeakersFit
  <2>2. SpeakersFit(q)'
    BY <1>1, <1>3, <1>9, <2>1 DEF TalkFits, SpeakersFit
  <2>3. FollowsFit(q)'
    BY <1>1, <1>3, <1>9 DEF TalkFits, FollowsFit
  <2> QED
    BY <2>2, <2>3
<1>10. SpeakersFit(s)'
  <2> SUFFICES ASSUME NEW i \in 1 .. Len(old) + 1
               PROVE  LET x == turn'[Append(old, m)[i].by] IN
                      /\ x.at \in Stages /\ x.user = u /\ x.session = s
                      /\ Append(old, m)[i].role = "assistant" => x.at = "ended"
    BY <1>3, <1>6 DEF SpeakersFit
  <2>1. CASE i \in 1 .. Len(old)
    BY <1>3, <1>6, <1>8, <2>1
  <2>2. CASE i = Len(old) + 1
    BY <1>3, <1>6, <2>2 DEF Stages
  <2> QED
    BY <1>6, <2>1, <2>2
<1>11. FollowsFit(s)'
  <2>1. /\ \A i \in 1 .. Len(old) : old[i].role = "assistant" =>
             \E j \in 1 .. i - 1 : old[j].role = "user" /\ old[j].by = old[i].by
        /\ \A i, j \in 1 .. Len(old) :
             old[i].role = old[j].role /\ old[i].by = old[j].by => i = j
    <3>1. CASE s = r
      <4>1. Len(old) = 0
        BY <1>5, <3>1
      <4> QED
        BY <4>1
    <3>2. CASE s # r
      <4>1. FollowsFit(s) /\ old = sessions[s].messages
        BY <1>1, <1>4, <3>2 DEF TalkFits
      <4> QED
        BY <1>6, <4>1 DEF FollowsFit
    <3> QED
      BY <3>1, <3>2
  <2>2. ASSUME NEW i \in 1 .. Len(old) + 1, Append(old, m)[i].role = "assistant"
        PROVE  \E j \in 1 .. i - 1 : /\ Append(old, m)[j].role = "user"
                                     /\ Append(old, m)[j].by = Append(old, m)[i].by
    <3>1. i \in 1 .. Len(old)
      BY <1>3, <1>6, <2>2
    <3>2. PICK j \in 1 .. i - 1 : old[j].role = "user" /\ old[j].by = old[i].by
      BY <1>6, <2>1, <2>2, <3>1
    <3>3. j \in 1 .. Len(old)
      BY <1>6, <3>1
    <3> QED
      BY <1>6, <3>1, <3>2, <3>3
  <2>3. ASSUME NEW i \in 1 .. Len(old) + 1, NEW j \in 1 .. Len(old) + 1,
               Append(old, m)[i].role = Append(old, m)[j].role,
               Append(old, m)[i].by = Append(old, m)[j].by
        PROVE  i = j
    <3>1. CASE i \in 1 .. Len(old) /\ j \in 1 .. Len(old)
      BY <1>6, <2>1, <2>3, <3>1
    <3>2. CASE i = Len(old) + 1 \/ j = Len(old) + 1
      BY <1>3, <1>6, <1>8, <2>3, <3>2
    <3> QED
      BY <1>6, <3>1, <3>2
  <2> QED
    BY <1>3, <1>6, <2>2, <2>3 DEF FollowsFit
\* A conversation somebody has asked in is not the new one, and keeps what was said.
<1>12. ASSUME NEW q \in Requests, turn[q].at \in Stages
       PROVE  LET c == turn[q].session IN
              /\ c \in Requests /\ (Live(c)' => Live(c))
              /\ \A i \in DOMAIN sessions[c].messages :
                   i \in DOMAIN sessions'[c].messages
                   /\ sessions'[c].messages[i] = sessions[c].messages[i]
  <2> DEFINE c == turn[q].session
  <2>1. c \in Requests /\ turn[c].at \in Stages
    BY <1>1, <1>12, Talks DEF ByPart, SessionFits
  <2> HIDE DEF c
  <2>2. c # r
    BY <1>7, <2>1
  <2>3. CASE c = s
    BY <1>3, <1>4, <1>6, <2>1, <2>2, <2>3 DEF c
  <2>4. CASE c # s
    <3>1. turn'[q] = turn[q]
      BY <1>3, <1>7, <1>12
    <3>2. sessions'[c] = sessions[c]
      BY <1>3, <2>1, <2>4
    <3> QED
      BY <2>1, <3>1, <3>2 DEF c, Live
  <2> QED
    BY <2>3, <2>4
<1>13. ASSUME NEW q \in Requests PROVE QuestionStands(q)'
  <2>1. CASE q = r
    <3>1. /\ Len(old) + 1 \in DOMAIN sessions'[s].messages
          /\ sessions'[s].messages[Len(old) + 1] = m
      BY <1>3, <1>6
    <3>2. turn'[q].session = s /\ m.role = "user" /\ m.by = q
      BY <1>3, <2>1
    <3> QED
      BY <3>1, <3>2 DEF QuestionStands
  <2>2. CASE q # r
    <3> SUFFICES ASSUME InProgress(q), Live(turn[q].session)'
                 PROVE  \E i \in DOMAIN sessions'[turn[q].session].messages :
                          /\ sessions'[turn[q].session].messages[i].role = "user"
                          /\ sessions'[turn[q].session].messages[i].by = q
      BY <1>3, <2>2 DEF QuestionStands, InProgress, Live
    <3>1. turn[q].at \in Stages
      BY <1>1, TurnIsRecord DEF InProgress, Turns
    <3>2. Live(turn[q].session)
      BY <1>12, <3>1
    <3>3. PICK i \in DOMAIN sessions[turn[q].session].messages :
            /\ sessions[turn[q].session].messages[i].role = "user"
            /\ sessions[turn[q].session].messages[i].by = q
      BY <1>1, <3>2 DEF TalkFits, QuestionStands
    <3> QED
      BY <1>12, <3>1, <3>3
  <2> QED
    BY <2>1, <2>2
<1>14. ASSUME NEW q \in Requests PROVE DeedsFit(turn[q])'
  BY <1>1, <1>3 DEF TalkFits, DeedsFit
<1>15. ASSUME NEW q \in Requests PROVE ToldFits(q)'
  <2>1. CASE q = r
    BY <1>3, <2>1 DEF ToldFits
  <2>2. CASE q # r
    <3> SUFFICES ASSUME turn[q].at = "ended", turn[q].end \notin Ends,
                        NEW a \in turn[q].did \ turn[q].raised
                 PROVE  /\ Tells(turn[q].answer, a)
                        /\ turn[q].end # "unsaved" /\ Live(turn[q].session)' =>
                             \E i \in DOMAIN sessions'[turn[q].session].messages :
                               /\ sessions'[turn[q].session].messages[i].role = "assistant"
                               /\ sessions'[turn[q].session].messages[i].by = q
                               /\ Tells(sessions'[turn[q].session].messages[i].says, a)
      BY <1>3, <2>2 DEF ToldFits, Tells, Live
    <3>1. turn[q].at \in Stages
      BY DEF Stages
    <3>2. Tells(turn[q].answer, a)
      BY <1>1 DEF TalkFits, ToldFits
    <3>3. ASSUME turn[q].end # "unsaved", Live(turn[q].session)'
          PROVE  \E i \in DOMAIN sessions'[turn[q].session].messages :
                   /\ sessions'[turn[q].session].messages[i].role = "assistant"
                   /\ sessions'[turn[q].session].messages[i].by = q
                   /\ Tells(sessions'[turn[q].session].messages[i].says, a)
      <4>1. Live(turn[q].session)
        BY <1>12, <3>1, <3>3
      <4>2. PICK i \in DOMAIN sessions[turn[q].session].messages :
              /\ sessions[turn[q].session].messages[i].role = "assistant"
              /\ sessions[turn[q].session].messages[i].by = q
              /\ Tells(sessions[turn[q].session].messages[i].says, a)
        BY <1>1, <3>3, <4>1 DEF TalkFits, ToldFits
      <4> QED
        BY <1>12, <3>1, <4>2
    <3> QED
      BY <3>2, <3>3
  <2> QED
    BY <2>1, <2>2
<1> QED
  BY <1>9, <1>10, <1>11, <1>13, <1>14, <1>15, TalkByPartNext DEF TalkFits

\* What is deleted is not missed.
LEMMA DeleteTalk ==
    ASSUME ClaimInv, TalkInv, NEW s \in Requests, delete_chat_session(s)
    PROVE  TalkInv'
<1>1. TypeOK /\ \A q \in Requests : TalkFits(q)
  BY TalkByPart DEF ClaimInv
<1>2. /\ turn' = turn /\ \A q \in Requests \ {s} : sessions'[q] = sessions[q]
      /\ sessions'[s].messages = <<>> /\ ~Live(s)'
  BY <1>1 DEF delete_chat_session, TypeOK, Absent, Live
<1>3. ASSUME NEW q \in Requests PROVE SpeakersFit(q)' /\ FollowsFit(q)'
  <2>1. CASE q = s
    BY <1>2, <2>1 DEF SpeakersFit, FollowsFit
  <2>2. CASE q # s
    BY <1>1, <1>2, <2>2 DEF TalkFits, SpeakersFit, FollowsFit
  <2> QED
    BY <2>1, <2>2
<1>4. ASSUME NEW q \in Requests PROVE QuestionStands(q)' /\ DeedsFit(turn[q])' /\ ToldFits(q)'
  <2>1. turn[q].at \in Stages \/ turn[q].at = "idle"
    BY <1>1, TurnIsRecord DEF Turns
  <2>2. turn[q].at \in Stages => turn[q].session \in Requests
    BY <1>1, Talks
  <2>3. QuestionStands(q)'
    BY <1>1, <1>2, <2>1, <2>2 DEF TalkFits, QuestionStands, InProgress, Live
  <2>4. DeedsFit(turn[q])'
    BY <1>1, <1>2 DEF TalkFits, DeedsFit
  <2>5. ToldFits(q)'
    BY <1>1, <1>2, <2>2 DEF TalkFits, ToldFits, Live, Stages
  <2> QED
    BY <2>3, <2>4, <2>5
<1> QED
  BY <1>3, <1>4, TalkByPartNext DEF TalkFits

-----------------------------------------------------------------------------
(* The theorems                                                              *)

LEMMA InitInv == Init => IInv
<1> SUFFICES ASSUME Init PROVE TalkInv
  BY InitClaims DEF IInv
<1>1. \A r \in Requests : /\ turn[r].at = "idle" /\ sessions[r].messages = <<>>
  BY DEF Init, NoTurn, Absent
<1>2. \A r \in Requests : TalkFits(r)
  BY <1>1 DEF TalkFits, SpeakersFit, FollowsFit, QuestionStands, InProgress, DeedsFit, ToldFits,
              Stages
<1> QED
  BY <1>2, TalkByPart

LEMMA NextInv == IInv /\ [Next]_vars => IInv'
<1> SUFFICES ASSUME ClaimInv, TalkInv, [Next]_vars PROVE TalkInv'
  BY NextClaims DEF IInv
<1>1. TypeOK /\ \A r \in Requests : DeedsFit(turn[r])
  BY DEF ClaimInv, TalkInv
<1>2. ASSUME NEW r \in Requests, stream_reply(r) \/ Disconnect(r) PROVE TalkInv'
  <2>1. CASE Finish(r)
    BY <2>1, FinishTalk
  <2>2. CASE ~Finish(r)
    BY <1>1, <1>2, <2>2, StepsAreQuiet, QuietTalk DEF stream_reply
  <2> QED
    BY <2>1, <2>2
<1>3. ASSUME UNCHANGED <<turn, sessions>> PROVE TalkInv'
  BY <1>3, OtherTalk
<1>4. CASE UNCHANGED vars \/ Tick \/ \E a \in Actions : DecideOnPage(a)
  BY <1>3, <1>4 DEF vars, Tick, DecideOnPage
<1> QED
  BY <1>2, <1>4, ChatTalk, DeleteTalk DEF Next

\* The inductive invariant holds in every reachable state.
THEOREM Invariance == Spec => []IInv
BY InitInv, NextInv, PTL DEF Spec

(* What a reply says of an action is about the reader's own organization,    *)
(* whatever was cached for others and whatever clients sent as history; and  *)
(* what of it comes from a tool, not from such a history, was read or done   *)
(* there not longer ago than the time-to-live of the cache and the time of   *)
(* two requests.  Of what comes from a history no age is claimed             *)
(* (chat_service.py:868-885; semantic_cache.py:150-172).                     *)
THEOREM ClaimsAreTrue == Spec => []ClaimsAreOwnAndRecent
<1>1. IInv => ClaimsAreOwnAndRecent
  BY DEF IInv, ClaimInv
<1> QED
  BY <1>1, Invariance, PTL

(* Whatever requests and deletions are under way in a conversation, each     *)
(* reply follows, once, a question of its owner (chat.py:53-68, 126-135).    *)
THEOREM ConversationsAreTheirOwners == Spec => []RepliesFollowQuestions
<1>1. IInv => RepliesFollowQuestions
  BY DEF IInv, TalkInv
<1> QED
  BY <1>1, Invariance, PTL

(* An approval made in a chat, unless its tool raised after the commit, is   *)
(* told to the user and in the conversation, or there is a reason: the model *)
(* failed or had nothing to say, the client left, the insert failed, or the  *)
(* conversation was deleted (chat_service.py:424-426, 957-990;               *)
(* chat.py:122-135).                                                         *)
THEOREM ApprovalsAreTold == Spec => []UntoldExplained
<1>1. IInv => UntoldExplained
  BY DEF IInv, TalkInv
<1> QED
  BY <1>1, Invariance, PTL
=============================================================================
