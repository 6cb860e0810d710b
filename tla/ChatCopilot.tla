----------------------------- MODULE ChatCopilot -----------------------------
(* The chat copilot: the routes of chat.py, the reply generator with its     *)
(* tools, the semantic cache of answers and the stored conversations.  Every *)
(* await of the generator is a point where another request, a click on the   *)
(* queue page or a deletion may come in between, so each step below ends at  *)
(* one.  The model's answers are free; of an answer only what it says of the *)
(* Action Queue is kept, and it says nothing that neither a tool nor the     *)
(* history the client has sent with the question has told it.                *)
EXTENDS Naturals, Sequences, FiniteSets

CONSTANTS
  Requests,       \* POST /chat requests, each made once
  Users, Orgs,
  OrgOf,          \* [Users -> Orgs]
  Asks,           \* questions the users may put, by user: <<user, question>>
  Similar,        \* pairs of questions at least 0.92 alike
  Actions,        \* rows of the Action Queue
  QueueOf,        \* [Actions -> Orgs]
  MaxIterations,  \* _MAX_TOOL_ITERATIONS
  MaxCalls,       \* bound of the model on the tool calls of one iteration
  TTL,            \* CHAT_TTL_HOURS, in ticks
  Patience,       \* the most ticks a request is in progress
  MaxClock,       \* bound of the model on the clock
  None

Questions == {ask[2] : ask \in Asks}

ASSUME ChatAssumption ==
  /\ None \notin Users /\ OrgOf \in [Users -> Orgs] /\ QueueOf \in [Actions -> Orgs]
  /\ \A ask \in Asks : ask[1] \in Users
  /\ Similar \subseteq Questions \X Questions
  /\ {MaxIterations, MaxCalls, TTL, Patience, MaxClock} \subseteq Nat

VARIABLES
  clock,
  turn,      \* turn[r]: what the request has got to, NoTurn before it is made
  sessions,  \* sessions[r]: the conversation request r opened, or its absence
  cache,     \* points of the chat cache, never replaced nor deleted
  queue      \* status of each action

vars == <<clock, turn, sessions, cache, queue>>

\* Whether an approved action is also executed is left to ActionQueue.
Statuses == {"pending", "approved", "rejected"}

NoTurn == [at |-> "idle"]
Stages == {"looking", "thinking", "calling", "streaming", "answered", "ended"}
InProgress(r) == turn[r].at \notin {"idle", "ended"}
Enter(r, stage) == turn' = [turn EXCEPT ![r].at = stage]

\* The turn is over: of what it held only what it did and what it answered, and
\* how it ended, remain.
EndsWith(r, end) ==
  turn' = [turn EXCEPT ![r] = [@ EXCEPT !.at = "ended", !.end = end, !.since = 0,
             !.round = 0, !.calls = 0, !.results = {}, !.history = {}]]

Absent == [user |-> None, messages |-> <<>>]
Live(s) == sessions[s].user # None

\* A message; of a question, neither what it says nor its time matters.
Asked(r) == [role |-> "user", by |-> r, says |-> {}, at |-> 0]
Replied(r) == [role |-> "assistant", by |-> r, says |-> turn[r].answer, at |-> clock]
Append1(s, message) == [sessions EXCEPT ![s].messages = Append(@, message)]

\* What user u has been answered, in whatever conversation.
Heard(u) ==
  UNION {turn[q].answer : q \in {q \in Requests : turn[q].at # "idle" /\ turn[q].user = u}}

\* What has been said, when the client sends it along.
Sent(says) == {[c EXCEPT !.source = "client"] : c \in says}

-----------------------------------------------------------------------------
(* The question is stored before anything else: in the conversation the      *)
(* request names, which must be one of the user's, or in a new one.  The     *)
(* history is whatever the client sends as such, taken to be some of what    *)
(* its user has been answered before; nothing compares it with what is       *)
(* stored.                                                                   *)
\* As mine, any conversation of the organization.
mine_org(s, u) == Live(s) /\ OrgOf[sessions[s].user] = OrgOf[u]
mine(s, u) == Live(s) /\ sessions[s].user = u

chat(r) ==
  /\ turn[r].at = "idle"
  /\ \E ask \in Asks, s \in Requests :
       LET u == ask[1]
           new == [sessions EXCEPT ![r] = [user |-> u, messages |-> <<>>]]
       IN /\ \/ s = r
             \/ mine(s, u)
          /\ sessions' = LET now == IF s = r THEN new ELSE sessions
                         IN [now EXCEPT ![s].messages = Append(@, Asked(r))]
          /\ \E says \in SUBSET Heard(u) : turn' = [turn EXCEPT ![r] =
               [at |-> "looking", user |-> u, question |-> ask[2], session |-> s,
                since |-> clock, round |-> 0, calls |-> 0, history |-> Sent(says),
                results |-> {}, did |-> {}, raised |-> {}, answer |-> {}, end |-> "none"]]
  /\ UNCHANGED <<clock, cache, queue>>

(* The cache is searched for the nearest question of the organization; a     *)
(* lookup that fails counts as a miss.                                       *)
Near(org, q) ==
  LET candidates == {e \in cache : e.org = org /\ (e.question = q \/ <<e.question, q>> \in Similar)}
      same == {e \in candidates : e.question = q}
  IN  IF same # {} THEN same ELSE candidates

\* As get, an expired point found all the same.
get_expired(org, q) == Near(org, q)
get(org, q) == {e \in Near(org, q) : clock - e.at <= TTL}

CacheHit(r) ==
  /\ turn[r].at = "looking"
  /\ \E e \in get(OrgOf[turn[r].user], turn[r].question) :
       turn' = [turn EXCEPT ![r].at = "answered", ![r].answer = e.answer]
  /\ UNCHANGED <<clock, sessions, cache, queue>>

CacheMiss(r) ==
  /\ turn[r].at = "looking"
  /\ Enter(r, "thinking")
  /\ UNCHANGED <<clock, sessions, cache, queue>>

(* One call of the language model: tool calls, as long as iterations are     *)
(* left, or a text.  Anything it says of the queue it has from the tools, or *)
(* repeats from the history.                                                 *)
AsksForTools(r) ==
  /\ turn[r].at = "thinking"
  /\ turn[r].round < MaxIterations
  /\ turn' = [turn EXCEPT ![r].at = "calling", ![r].round = @ + 1, ![r].calls = 0]
  /\ UNCHANGED <<clock, sessions, cache, queue>>

(* The answer goes to the cache before it goes to the user; a failure to     *)
(* store it is swallowed.                                                    *)
set(r, says) ==
  \/ UNCHANGED cache
  \/ cache' = cache \cup {[org |-> OrgOf[turn[r].user], question |-> turn[r].question,
                           answer |-> says, at |-> clock]}

Answers(r, says, end) ==
  /\ turn' = [turn EXCEPT ![r].at = "answered", ![r].answer = says, ![r].end = end,
                          ![r].results = {}, ![r].history = {}, ![r].round = 0, ![r].calls = 0]
  /\ set(r, says)
  /\ UNCHANGED <<clock, sessions, queue>>

AnswersInText(r) ==
  turn[r].at = "thinking" /\ Answers(r, turn[r].results \cup turn[r].history, "none")

(* An empty text: the question is put again, with the history but without    *)
(* what the tools said.                                                      *)
AnswersNothing(r) ==
  /\ turn[r].at = "thinking"
  /\ turn' = [turn EXCEPT ![r].at = "streaming", ![r].results = {},
                          ![r].round = 0, ![r].calls = 0]
  /\ UNCHANGED <<clock, sessions, cache, queue>>

Streams(r) == turn[r].at = "streaming" /\ Answers(r, turn[r].history, "fallback")

(* The model fails: an error event, and nothing to store unless some of the  *)
(* streamed text is already out.                                             *)
ModelFails(r) ==
  /\ \/ turn[r].at = "thinking"
          /\ EndsWith(r, "error")
     \/ turn[r].at = "streaming"
          /\ \/ EndsWith(r, "error")
             \/ \E says \in SUBSET turn[r].history :
                  turn' = [turn EXCEPT ![r].at = "answered", ![r].answer = says,
                                       ![r].end = "error"]
  /\ UNCHANGED <<clock, sessions, cache, queue>>

-----------------------------------------------------------------------------
(* The tools.  They run on the event loop, without an await in between, but  *)
(* the queue page works in threads of its own: see ActionQueue.              *)
Told(r, status, as, done) ==
  turn' = [turn EXCEPT ![r].calls = @ + 1,
             ![r].results = {c \in @ : c.action \notin as} \cup
               {[action |-> a, status |-> status[a], as_of |-> clock, source |-> "tool"] : a \in as},
             ![r].did = @ \cup done]

Calls(r) ==
  /\ turn[r].at = "calling"
  /\ turn[r].calls < MaxCalls

get_action_queue(r) ==
  /\ Calls(r)
  /\ Told(r, queue, {a \in Actions : QueueOf[a] = OrgOf[turn[r].user]}, {})
  /\ UNCHANGED <<clock, sessions, cache, queue>>

may_approve(r, a) == QueueOf[a] = OrgOf[turn[r].user]

(* The approval is committed before the action is sent and the row read      *)
(* again: an exception from there on is told to the model as an error, with  *)
(* the approval standing.                                                    *)
approve_action(r) ==
  /\ Calls(r)
  /\ \E a \in Actions :
       /\ may_approve(r, a)
       /\ queue' = [queue EXCEPT ![a] = "approved"]
       /\ \/ Told(r, queue', {a}, {a})
          \/ turn' = [turn EXCEPT ![r].calls = @ + 1, ![r].did = @ \cup {a},
                                  ![r].raised = @ \cup {a}]
  /\ UNCHANGED <<clock, sessions, cache>>

(* The other tools only read, and so does any tool that fails before it has  *)
(* changed anything; the error is told to the model.                         *)
OtherTool(r) ==
  /\ Calls(r)
  /\ turn' = [turn EXCEPT ![r].calls = @ + 1]
  /\ UNCHANGED <<clock, sessions, cache, queue>>

ToolsDone(r) ==
  /\ turn[r].at = "calling" /\ turn[r].calls > 0
  /\ turn' = [turn EXCEPT ![r].at = "thinking", ![r].calls = 0]
  /\ UNCHANGED <<clock, sessions, cache, queue>>

-----------------------------------------------------------------------------
persist(r) ==
  LET s == turn[r].session
      end == turn[r].end
  IN  \/ /\ sessions' = IF Live(s) THEN Append1(s, Replied(r))
                         ELSE sessions
         /\ EndsWith(r, end)
      \/ UNCHANGED sessions /\ EndsWith(r, IF end = "none" THEN "unsaved" ELSE end)

Finish(r) ==
  /\ turn[r].at = "answered"
  /\ persist(r)
  /\ UNCHANGED <<clock, cache, queue>>

(* The client goes away: the generator is closed and stores nothing.         *)
Disconnect(r) ==
  /\ InProgress(r)
  /\ EndsWith(r, "gone")
  /\ UNCHANGED <<clock, sessions, cache, queue>>

delete_chat_session(s) ==
  /\ Live(s)
  /\ sessions' = [sessions EXCEPT ![s] = Absent]
  /\ UNCHANGED <<clock, turn, cache, queue>>

(* External: the owner decides on the queue page.                            *)
DecideOnPage(a) ==
  /\ queue[a] = "pending"
  /\ \E status \in {"approved", "rejected"} : queue' = [queue EXCEPT ![a] = status]
  /\ UNCHANGED <<clock, turn, sessions, cache>>

Tick ==
  /\ clock < MaxClock
  /\ \A r \in Requests : InProgress(r) => clock - turn[r].since < Patience
  /\ clock' = clock + 1
  /\ UNCHANGED <<turn, sessions, cache, queue>>

-----------------------------------------------------------------------------
Init ==
  /\ clock = 0
  /\ turn = [r \in Requests |-> NoTurn]
  /\ sessions = [r \in Requests |-> Absent]
  /\ cache = {}
  /\ queue = [a \in Actions |-> "pending"]

stream_reply(r) ==
  \/ CacheHit(r)
  \/ CacheMiss(r)
  \/ AsksForTools(r)
  \/ AnswersInText(r)
  \/ AnswersNothing(r)
  \/ Streams(r)
  \/ ModelFails(r)
  \/ get_action_queue(r)
  \/ approve_action(r)
  \/ OtherTool(r)
  \/ ToolsDone(r)
  \/ Finish(r)

Next ==
  \/ Tick
  \/ \E r \in Requests :
       chat(r) \/ stream_reply(r) \/ Disconnect(r) \/ delete_chat_session(r)
  \/ \E a \in Actions : DecideOnPage(a)

Spec == Init /\ [][Next]_vars
=============================================================================
