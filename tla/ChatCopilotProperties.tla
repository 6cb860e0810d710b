------------------------ MODULE ChatCopilotProperties ------------------------
(* What the chat promises of its conversations and of what it says there.    *)
EXTENDS ChatCopilot

Messages(s) == {sessions[s].messages[i] : i \in DOMAIN sessions[s].messages}
Replies(s) == {m \in Messages(s) : m.role = "assistant"}

(* What a reply says of an action is about the reader's own organization,    *)
(* though answers given to one member are replayed to another, and cached    *)
(* answers repeat what clients have sent as history.  What it has from a     *)
(* tool, not from such a history, was so not longer ago than the time-to-    *)
(* live of the cache and the time two requests may take (chat_service.py:    *)
(* 868-885; semantic_cache.py:150-172).                                      *)
ClaimsAreOwnAndRecent ==
  \A s \in Requests : \A m \in Replies(s) : \A c \in m.says :
    /\ QueueOf[c.action] = OrgOf[sessions[s].user]
    /\ c.source = "tool" => m.at - c.as_of <= TTL + 2 * Patience

(* A conversation is its owner's: every reply follows, once, a question its  *)
(* owner asked in it, also when several requests, or deletions, are under    *)
(* way in it (chat.py:53-68, 126-135).                                       *)
RepliesFollowQuestions ==
  \A s \in Requests :
    LET said == sessions[s].messages
    IN  /\ \A i \in DOMAIN said :
             /\ turn[said[i].by].user = sessions[s].user
             /\ turn[said[i].by].session = s
             /\ said[i].role = "assistant" =>
                  \E j \in 1 .. i - 1 : said[j].role = "user" /\ said[j].by = said[i].by
        /\ \A i, j \in DOMAIN said :
             said[i].role = said[j].role /\ said[i].by = said[j].by => i = j

\* Something says it of action a, and has it from a tool.
Tells(says, a) == \E c \in says : c.action = a /\ c.source = "tool"

(* An approval made in a chat is told to the user, unless the tool raised    *)
(* after it had committed, the model failed or had nothing to say after the  *)
(* tool had run, or the client went away; and it is in the conversation as   *)
(* well, unless that was deleted or the insert failed (chat_service.py:      *)
(* 424-426, 957-990; chat.py:122-135).                                       *)
UntoldExplained ==
  \A r \in Requests : turn[r].at = "ended" => \A a \in turn[r].did \ turn[r].raised :
    \/ turn[r].end \in {"fallback", "error", "gone"}
    \/ /\ Tells(turn[r].answer, a)
       /\ \/ \E m \in Replies(turn[r].session) : m.by = r /\ Tells(m.says, a)
          \/ turn[r].end = "unsaved"
          \/ ~Live(turn[r].session)

-----------------------------------------------------------------------------
(* The inductive invariant.  Behind the first property: whose claims a       *)
(* request, the cache and a conversation hold, and how old they are.         *)
Claims == [action : Actions, status : Statuses, as_of : Nat, source : {"tool", "client"}]

Turns ==
  [at : Stages, user : Users, question : Questions, session : Requests, since : Nat,
   round : Nat, calls : Nat, history : SUBSET Claims, results : SUBSET Claims,
   did : SUBSET Actions, raised : SUBSET Actions, answer : SUBSET Claims,
   end : {"none", "fallback", "error", "gone", "unsaved"}]

Said == [role : {"user", "assistant"}, by : Requests, says : SUBSET Claims, at : Nat]

TypeOK ==
  /\ clock \in Nat
  /\ turn \in [Requests -> Turns \cup {NoTurn}]
  /\ sessions \in [Requests -> [user : Users \cup {None}, messages : Seq(Said)]]
  /\ cache \subseteq [org : Orgs, question : Questions, answer : SUBSET Claims, at : Nat]
  /\ queue \in [Actions -> Statuses]

\* The claims are about the organization of u.
Own(says, u) == \A c \in says : QueueOf[c.action] = OrgOf[u]

\* A turn t holds what its tools said since it began, or a recent answer, and
\* what its client has sent.
TurnFits(t) ==
  /\ t.at \in Stages \ {"ended"} => t.since <= clock /\ clock - t.since <= Patience
  /\ t.at \in Stages =>
       /\ Own(t.results, t.user) /\ Own(t.history, t.user) /\ Own(t.answer, t.user)
       /\ \A c \in t.results : t.since <= c.as_of
       /\ \A c \in t.history : c.source = "client"
       /\ \A c \in t.answer : c.source = "tool" => t.since - c.as_of <= TTL + Patience

\* A turn is of a conversation its user opened.
SessionFits(t) ==
  t.at \in Stages => turn[t.session].at \in Stages /\ turn[t.session].user = t.user

\* A conversation is its opener's.
OwnerFits(s) == Live(s) => turn[s].at \in Stages /\ sessions[s].user = turn[s].user

\* A cached answer was recent when it was stored.
PointFits(e) ==
  \A c \in e.answer :
    QueueOf[c.action] = e.org /\ (c.source = "tool" => e.at - c.as_of <= Patience)

ClaimInv ==
  /\ TypeOK
  /\ \A r \in Requests : TurnFits(turn[r]) /\ SessionFits(turn[r]) /\ OwnerFits(r)
  /\ \A e \in cache : PointFits(e)
  /\ ClaimsAreOwnAndRecent

(* Behind the others: who speaks in a conversation, and what a turn will     *)
(* tell of what it did.                                                      *)
\* Who speaks in conversation s asked in it; who answered is done.
SpeakersFit(s) ==
  LET said == sessions[s].messages
  IN  \A i \in DOMAIN said : LET t == turn[said[i].by] IN
        /\ t.at \in Stages /\ t.user = sessions[s].user /\ t.session = s
        /\ said[i].role = "assistant" => t.at = "ended"

\* While a request is in progress its question is in its conversation.
QuestionStands(r) ==
  InProgress(r) /\ Live(turn[r].session) =>
    LET said == sessions[turn[r].session].messages
    IN  \E i \in DOMAIN said : said[i].role = "user" /\ said[i].by = r

\* What a turn t did is among what its tools said, and then in its answer.
DeedsFit(t) ==
  /\ t.at = "looking" => t.did = {}
  /\ t.at \in {"thinking", "calling"} => \A a \in t.did \ t.raised : Tells(t.results, a)
  /\ t.at \in Stages \ {"ended"} => t.end # "unsaved"
  /\ t.at = "answered" /\ t.end = "none" => \A a \in t.did \ t.raised : Tells(t.answer, a)

TalkInv ==
  /\ \A r \in Requests : SpeakersFit(r) /\ QuestionStands(r) /\ DeedsFit(turn[r])
  /\ RepliesFollowQuestions
  /\ UntoldExplained

IInv == ClaimInv /\ TalkInv
==============================================================================
