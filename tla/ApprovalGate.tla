---------------------------- MODULE ApprovalGate ----------------------------
(***************************************************************************)
(* What the Action Queue promises, with no row, status column or database  *)
(* in sight: a message to a vendor leaves the system only on behalf of a   *)
(* request that was granted for that very action, at most once per grant,  *)
(* in a wording somebody wrote down for that action, and an action is      *)
(* acknowledged as executed only after a message of it has left.           *)
(*                                                                         *)
(* ActionQueue implements this specification; Gate in                      *)
(* ActionQueueProperties gives the refinement mapping.                     *)
(***************************************************************************)
CONSTANTS
    ActionIds,   \* identifiers of queued actions
    Requests,    \* approve calls
    Wordings     \* message texts

VARIABLES
    written,        \* [ActionIds -> wordings written down for the action]
    granted,        \* [ActionIds -> requests that were granted]
    dispatched,     \* [ActionIds -> messages that left: request and wording]
    acknowledged    \* [ActionIds -> is the action recorded as executed]

vars == <<written, granted, dispatched, acknowledged>>

Message == [by : Requests, text : Wordings]

Init ==
    /\ written = [a \in ActionIds |-> {}]
    /\ granted = [a \in ActionIds |-> {}]
    /\ dispatched = [a \in ActionIds |-> {}]
    /\ acknowledged = [a \in ActionIds |-> FALSE]

\* Somebody (the planner's draft, or an owner's edit) writes a wording down.
Write(a, w) ==
    /\ written' = [written EXCEPT ![a] = @ \cup {w}]
    /\ UNCHANGED <<granted, dispatched, acknowledged>>

\* A request is granted for one action.
Grant(a, r) ==
    /\ \A b \in ActionIds : r \notin granted[b]
    /\ granted' = [granted EXCEPT ![a] = @ \cup {r}]
    /\ UNCHANGED <<written, dispatched, acknowledged>>

\* A granted request sends its one message.
Dispatch(a, r, w) ==
    /\ r \in granted[a]
    /\ w \in written[a]
    /\ \A m \in dispatched[a] : m.by # r
    /\ dispatched' = [dispatched EXCEPT ![a] = @ \cup {[by |-> r, text |-> w]}]
    /\ UNCHANGED <<written, granted, acknowledged>>

\* The action is recorded as executed.
Acknowledge(a) ==
    /\ dispatched[a] # {}
    /\ acknowledged' = [acknowledged EXCEPT ![a] = TRUE]
    /\ UNCHANGED <<written, granted, dispatched>>

Next ==
    \E a \in ActionIds :
        \/ \E w \in Wordings : Write(a, w)
        \/ \E r \in Requests : Grant(a, r)
        \/ \E r \in Requests, w \in Wordings : Dispatch(a, r, w)
        \/ Acknowledge(a)

Spec == Init /\ [][Next]_vars
=============================================================================
