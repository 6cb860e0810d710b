----------------------------- MODULE Concierge ------------------------------
(***************************************************************************)
(* The guest concierge: turns of chats, each on its own copy of a session  *)
(* that it loads from Redis first and writes back last, and the one Swiggy *)
(* account that all guests share, with its food cart, its Instamart cart   *)
(* and its orders.  Between two awaits of a turn any other turn may run.   *)
(*                                                                         *)
(* What the account does is external: the docs say that switching          *)
(* restaurant flushes the food cart, that update_cart replaces the         *)
(* Instamart cart and that orders and bookings are not idempotent; an      *)
(* order is taken to empty its cart.                                       *)
(***************************************************************************)
EXTENDS Naturals, Sequences, FiniteSets

CONSTANTS
    Turns,          \* POSTs to /concierge/chat
    Sessions,       \* session ids
    Totals,         \* totals a food cart may have, in rupees
    Cap,            \* _FOOD_ORDER_CAP_INR
    Supplies,       \* Instamart products
    MaxCalls,       \* bound: tool calls that change something, per turn
    None            \* no value

ASSUME TotalsAssumption == Totals \subseteq Nat \ {0} /\ Cap \in Nat

VARIABLES
    store,      \* Redis: the session saved under each id
    turn,       \* the turns
    food,       \* the account's food cart: its total
    mart,       \* the account's Instamart cart
    placed,     \* the account's orders and bookings
    staging,    \* _staging_enabled()
    issued,     \* history: the ids given to guests
    forgotten,  \* history: the ids whose session was deleted or expired
    martOf,     \* history: whose session is the last to have set the Instamart
                \* cart and to know it
    unnamed     \* history: what was answered without an order id, to which session

vars == <<store, turn, food, mart, placed, staging, issued, forgotten, martOf, unnamed>>
account == <<food, mart, placed, martOf, unnamed>>

Kinds == {"food", "supplies", "table"}

\* A session: its orders and bookings, without an id when no answer gave one,
\* and the Instamart cart it takes to be set.
Session == [orders : SUBSET [kind : Kinds, id : Nat \cup {None}], cart : SUBSET Supplies]
NoSession == [orders |-> {}, cart |-> {}]

ASSUME NoneAssumption == None \notin Nat /\ None \notin Sessions /\ None \notin Session

Init ==
    /\ store = [s \in Sessions |-> None]
    /\ turn = [t \in Turns |-> [at |-> "idle", id |-> None, mine |-> NoSession, read |-> None,
                                calls |-> 0, again |-> FALSE, alone |-> TRUE]]
    /\ food = 0 /\ mart = {} /\ placed = <<>> /\ martOf = None /\ unnamed = {}
    /\ staging \in BOOLEAN
    /\ issued = {} /\ forgotten = {}

-----------------------------------------------------------------------------
(* Sessions *)

Active(t) == turn[t].at \in {"thinking", "checked", "totalled", "carted"}

\* A turn on session s starts with this copy of it; turns of one session that
\* overlap are marked.
Open(t, s, session) ==
    LET others == {u \in Turns : Active(u) /\ turn[u].id = s} IN
    /\ turn' = [u \in Turns |->
            IF u = t THEN [turn[t] EXCEPT !.at = "thinking", !.id = s, !.mine = session,
                                          !.alone = (others = {})]
            ELSE IF u \in others THEN [turn[u] EXCEPT !.alone = FALSE]
            ELSE turn[u]]
    /\ issued' = issued \cup {s}
    /\ UNCHANGED <<store, account, staging, forgotten>>

\* No session id, a session that is gone, or Redis is down: a new session.
new_session(t) ==
    /\ turn[t].at = "idle"
    /\ \E s \in Sessions \ issued : Open(t, s, NoSession)

load_session(t) ==
    /\ turn[t].at = "idle"
    /\ \E s \in issued : store[s] # None /\ Open(t, s, store[s])

End(t, at, stored) ==
    /\ turn' = [turn EXCEPT ![t].at = at, ![t].mine = NoSession, ![t].read = None,
                            ![t].again = FALSE]
    /\ store' = IF stored THEN [store EXCEPT ![turn[t].id] = turn[t].mine] ELSE store
    /\ UNCHANGED <<account, staging, issued, forgotten>>

\* Mutant of save_session: an LLM that fails before the answer skips the save.
save_unless_failed(t) == Active(t) /\ \E failed \in BOOLEAN : End(t, "ended", ~failed)

\* The turn is over, because the LLM has answered or failed or the guest has
\* hung up, and the session is saved in each case.
save_session(t) == Active(t) /\ End(t, "ended", TRUE)

\* Redis is down or the server stops, and the session is not saved.
CutShort(t) == Active(t) /\ End(t, "cut", FALSE)

\* DELETE /concierge/session, or two hours without a turn.
Forget(s) ==
    /\ store[s] # None
    /\ store' = [store EXCEPT ![s] = None]
    /\ forgotten' = forgotten \cup {s}
    /\ UNCHANGED <<turn, account, staging, issued>>

-----------------------------------------------------------------------------
(* Tools.  Each returns to the LLM, which may call another. *)

Calls(t) == turn[t].at = "thinking" /\ turn[t].calls < MaxCalls

\* An order or booking as a session records it, by its id if it has one.
Recorded(kind, id) == [kind |-> kind, id |-> id]

Return(t, session) ==
    /\ turn' = [turn EXCEPT ![t].at = "thinking", ![t].calls = @ + 1, ![t].mine = session,
                            ![t].read = None, ![t].again = FALSE]
    /\ UNCHANGED <<store, staging, issued, forgotten>>

Await(t, at, read) ==
    /\ turn' = [turn EXCEPT ![t].at = at, ![t].read = read]
    /\ UNCHANGED <<store, account, staging, issued, forgotten>>

\* An order or booking is requested.  It is placed or not, and its answer may be
\* lost.  An answer that names no order, as a refusal in the payload or a plain
\* text, is an answer like any other, and gets an order without an id into the
\* session.  After a 5xx, which says nothing of whether the order was placed,
\* _post sends it once more.
Request(t, kind, total, possible, unanswered) ==
    \E accepted, answered, named, retry \in BOOLEAN :
        /\ accepted => possible
        /\ named => accepted /\ answered
        /\ retry => ~answered /\ ~turn[t].again
        /\ placed' = IF accepted
                     THEN Append(placed, [kind |-> kind, by |-> t, call |-> turn[t].calls, total |-> total,
                                          read |-> turn[t].read, named |-> named])
                     ELSE placed
        /\ food' = IF accepted /\ kind = "food" THEN 0 ELSE food
        /\ mart' = IF accepted /\ kind = "supplies" THEN {} ELSE mart
        /\ martOf' = IF accepted /\ kind = "supplies" THEN None ELSE martOf
        /\ unnamed' = IF answered /\ ~named THEN unnamed \cup {<<kind, turn[t].id>>} ELSE unnamed
        /\ IF retry
           THEN turn' = [turn EXCEPT ![t].again = TRUE] /\ UNCHANGED <<store, staging, issued, forgotten>>
           ELSE Return(t, [turn[t].mine EXCEPT !.orders =
                    @ \cup IF named THEN {Recorded(kind, Len(placed'))}
                           ELSE IF answered THEN {Recorded(kind, None)} ELSE unanswered])

\* Any items, whatever was in the cart; the update may be lost, or its answer.
add_food_to_cart(t) ==
    /\ Calls(t)
    /\ food' \in Totals \cup {food}
    /\ Return(t, turn[t].mine)
    /\ UNCHANGED <<mart, placed, martOf, unnamed>>

\* A coupon makes the cart cheaper, whoever filled it.
apply_best_coupon(t) ==
    /\ Calls(t) /\ food # 0
    /\ food' \in {n \in Totals : n <= food}
    /\ Return(t, turn[t].mine)
    /\ UNCHANGED <<mart, placed, martOf, unnamed>>

\* Mutant of view_food_cart: a cart that is too dear is only warned about.
view_food_cart_warn(t) ==
    /\ Calls(t)
    /\ \E total \in {food, None} : Await(t, "checked", total)

\* place_food_order reads the cart and goes on unless its total is over the cap.
\* A cart that cannot be read has no bill, and a total of 0.
view_food_cart(t) ==
    /\ Calls(t)
    /\ \E total \in {food, None} : (total # None => total <= Cap) /\ Await(t, "checked", total)

\* Mutant of place_food_order: an order that was not answered is shown as well.
place_food_order_hopefully(t) ==
    turn[t].at = "checked" /\ Request(t, "food", food, food # 0, {Recorded("food", Len(placed) + 1)})

place_food_order(t) ==
    turn[t].at = "checked" /\ Request(t, "food", food, food # 0, {})

\* What add_supplies_to_cart sends for these items and what it takes the cart
\* to hold if that is answered, even by a refusal.
SetCart(t, sent, known) ==
    \E accepted, answered \in BOOLEAN :
        /\ mart' = IF accepted THEN sent ELSE mart
        /\ martOf' = IF accepted THEN IF answered THEN turn[t].id ELSE None
                     ELSE IF answered /\ martOf = turn[t].id THEN None ELSE martOf
        /\ Return(t, IF answered THEN [turn[t].mine EXCEPT !.cart = known] ELSE turn[t].mine)
        /\ UNCHANGED <<food, placed, unnamed>>

\* Mutant of add_supplies_to_cart: only the new items are sent.
add_supplies_to_cart_only(t) ==
    /\ Calls(t)
    /\ \E items \in SUBSET Supplies \ {{}} : SetCart(t, items, turn[t].mine.cart \cup items)

\* update_cart replaces the cart, so that what this session has added before is
\* sent again with the new items.
add_supplies_to_cart(t) ==
    /\ Calls(t)
    /\ \E items \in SUBSET Supplies \ {{}} :
        LET merged == turn[t].mine.cart \cup items IN SetCart(t, merged, merged)

\* Without staging credentials the order or the booking is only noted.
Pending(t, kind) ==
    /\ Calls(t) /\ ~staging
    /\ Return(t, [turn[t].mine EXCEPT !.orders = @ \cup {Recorded(kind, None)}])
    /\ UNCHANGED account

order_supplies_pending(t) == Pending(t, "supplies")
book_table_pending(t) == Pending(t, "table")

\* order_supplies reads the cart for its total, and then checks out whatever
\* the cart holds by then; the session's own cart stays as it is.
view_supplies_cart(t) == Calls(t) /\ staging /\ Await(t, "totalled", None)

order_supplies(t) == turn[t].at = "totalled" /\ Request(t, "supplies", 0, mart # {}, {})

\* book_table first makes a Dineout cart for the table.
create_cart(t) == Calls(t) /\ staging /\ Await(t, "carted", None)

\* A booking without an answer is noted too, without an id.
book_table(t) == turn[t].at = "carted" /\ Request(t, "table", 0, TRUE, {Recorded("table", None)})

-----------------------------------------------------------------------------
Tool(t) ==
    \/ add_food_to_cart(t) \/ apply_best_coupon(t) \/ view_food_cart(t) \/ place_food_order(t)
    \/ add_supplies_to_cart(t) \/ view_supplies_cart(t) \/ order_supplies(t)
    \/ order_supplies_pending(t) \/ book_table_pending(t)
    \/ create_cart(t) \/ book_table(t)

Next ==
    \/ \E t \in Turns : new_session(t) \/ load_session(t) \/ Tool(t)
                        \/ save_session(t) \/ CutShort(t)
    \/ \E s \in Sessions : Forget(s)

Spec == Init /\ [][Next]_vars

-----------------------------------------------------------------------------
(* Properties *)

\* Every session in Redis or in a turn's memory.
Copies == {<<s, store[s]>> : s \in {s \in issued : store[s] # None}}
          \cup {<<turn[t].id, turn[t].mine>> : t \in {t \in Turns : Active(t)}}

\* Session s may show this order.  By an id, one that a turn of s has placed.
\* Without an id, a booking, what was only noted for want of staging, or what a
\* turn of s was answered without being given an id: placed, or refused.
MayShow(s, o) ==
    \/ /\ o.id # None /\ o.id \in DOMAIN placed
       /\ placed[o.id].kind = o.kind /\ placed[o.id].named
       /\ turn[placed[o.id].by].id = s
    \/ /\ o.id = None
       /\ o.kind = "table" \/ (o.kind = "supplies" /\ ~staging) \/ <<o.kind, s>> \in unnamed

\* The orders s shows are ones it may show.
Shown(s, orders) == \A o \in orders : MayShow(s, o)

\* Whatever is lost, refused, repeated or raced, an order that a session shows by
\* an id is that of an order of that kind, placed by a turn of that session and
\* named in its answer, never another guest's; and a food or a supplies order
\* without an id is shown only where Swiggy gave an answer that names none, or
\* where no staging was set up to send it to.
NothingFabricated == \A c \in Copies : Shown(c[1], c[2].orders)

\* Sessions outlive their turns: once a turn that overlapped with none of its
\* session has saved, the orders its answers named are in the session for as long as
\* there is one, whatever later turns of it do, even if they race, fail or stop.
NothingLost ==
    \A n \in DOMAIN placed :
        LET t == turn[placed[n].by] IN
        placed[n].named /\ t.at = "ended" /\ t.alone
        /\ store[t.id] # None /\ t.id \notin forgotten
            => Recorded(placed[n].kind, n) \in store[t.id].orders

\* Nothing has come between a session and its turns.
Undisturbed(s) ==
    /\ s \notin forgotten
    /\ \A t \in Turns : turn[t].id = s => turn[t].alone /\ turn[t].at # "cut"

\* update_cart replaces the whole cart and the account is shared; still, while
\* the last cart was set by a session and it knows, what that session's next
\* turn takes to be in the cart is what a checkout would order.  A session whose
\* update was refused in an answer takes it for made, and does not know.
CartIsWhatSessionKnows ==
    \A t \in Turns :
        Active(t) /\ martOf = turn[t].id /\ Undisturbed(turn[t].id) => mart = turn[t].mine.cart

\* An order over the cap gets through only if the cart could not be read, or
\* became another one between the check and the order.
CapBreachExplained ==
    \A n \in DOMAIN placed :
        placed[n].kind = "food" /\ placed[n].total > Cap => placed[n].read # placed[n].total

-----------------------------------------------------------------------------
(* The inductive invariant *)

Turn == [at : {"idle", "thinking", "checked", "totalled", "carted", "ended", "cut"},
         id : Sessions \cup {None}, mine : Session, read : Nat \cup {None},
         calls : Nat, again : BOOLEAN, alone : BOOLEAN]
Placed == [kind : Kinds, by : Turns, call : Nat, total : Nat, read : Nat \cup {None},
           named : BOOLEAN]

TypeOK ==
    /\ store \in [Sessions -> Session \cup {None}]
    /\ turn \in [Turns -> Turn]
    /\ food \in Nat /\ mart \in SUBSET Supplies
    /\ placed \in Seq(Placed)
    /\ staging \in BOOLEAN
    /\ issued \subseteq Sessions /\ forgotten \subseteq Sessions
    /\ martOf \in issued \cup {None}
    /\ unnamed \subseteq Kinds \X Sessions

\* A turn that has begun has an issued id, and only such turns place orders;
\* turns of one session that overlap know.
TurnInv ==
    /\ \A t \in Turns : turn[t].at = "idle" => turn[t].id = None
    /\ \A t \in Turns : turn[t].at # "idle" => turn[t].id \in issued
    /\ \A n \in DOMAIN placed : turn[placed[n].by].at # "idle"
    /\ \A t, u \in Turns :
        t # u /\ Active(t) /\ Active(u) /\ turn[t].id = turn[u].id => ~turn[t].alone

\* What Redis and the turns show.
ShownInv ==
    /\ \A s \in Sessions : store[s] # None => Shown(s, store[s].orders)
    /\ \A t \in Turns : Active(t) => Shown(turn[t].id, turn[t].mine.orders)

\* What is not to be lost of a turn that has ended.
Safe(t) == turn[t].at = "ended" /\ turn[t].alone /\ turn[t].id \notin forgotten

\* A turn holds the orders its answers named, and those of the turns that ended
\* before it began.
KeptInv ==
    \A n \in DOMAIN placed : placed[n].named => \A u \in Turns :
        Active(u) /\ (u = placed[n].by
                      \/ (Safe(placed[n].by) /\ turn[placed[n].by].id = turn[u].id))
            => Recorded(placed[n].kind, n) \in turn[u].mine.orders

\* Between the turns of the session that knows the cart, Redis knows it.
MartInv ==
    martOf # None /\ Undisturbed(martOf) =>
        \/ \E t \in Turns : Active(t) /\ turn[t].id = martOf
        \/ store[martOf] # None /\ mart = store[martOf].cart

\* A check that read a total found it within the cap.
CapInv ==
    /\ \A t \in Turns : turn[t].at = "checked" /\ turn[t].read # None => turn[t].read <= Cap
    /\ \A n \in DOMAIN placed :
        placed[n].kind = "food" /\ placed[n].read # None => placed[n].read <= Cap

IInv ==
    /\ TypeOK /\ TurnInv /\ ShownInv /\ NothingLost /\ KeptInv
    /\ CartIsWhatSessionKnows /\ MartInv /\ CapInv

-----------------------------------------------------------------------------
(* What the docs say, and the code does not keep. *)

\* SWIGGY_INTEGRATION.md: a food order over the cap is never placed.
OrderWithinCap == \A n \in DOMAIN placed : placed[n].kind = "food" => placed[n].total <= Cap
=============================================================================
