-------------------------- MODULE ConciergeProofs ---------------------------
(***************************************************************************)
(* Proofs about the guest concierge, for any number of turns, sessions,    *)
(* supplies and calls: what its sessions show of the one account they      *)
(* share is true, however turns race, fail or are cut short.               *)
(***************************************************************************)
EXTENDS Concierge, TLAPS

Stages == {"idle", "thinking", "checked", "totalled", "carted", "ended", "cut"}
ActiveStages == {"thinking", "checked", "totalled", "carted"}

\* The update of one turn.
LEMMA TurnUpdate ==
    ASSUME turn \in [Turns -> Turn], NEW t \in Turns, NEW e \in Turn,
           turn' = [turn EXCEPT ![t] = e]
    PROVE  /\ turn' \in [Turns -> Turn] /\ turn'[t] = e
           /\ \A u \in Turns \ {t} : turn'[u] = turn[u]
OBVIOUS

-----------------------------------------------------------------------------
(* What holds in the next state *)

MayShowNext(s, o) ==
    \/ /\ o.id # None /\ o.id \in DOMAIN placed'
       /\ placed'[o.id].kind = o.kind /\ placed'[o.id].named
       /\ turn'[placed'[o.id].by].id = s
    \/ /\ o.id = None
       /\ o.kind = "table" \/ (o.kind = "supplies" /\ ~staging') \/ <<o.kind, s>> \in unnamed'

ShowsNext(s, orders) == \A o \in orders : MayShowNext(s, o)

UndisturbedNext(s) ==
    /\ s \notin forgotten'
    /\ \A t \in Turns : turn'[t].id = s => turn'[t].alone /\ turn'[t].at # "cut"

ActiveNext(t) == turn'[t].at \in ActiveStages
SafeNext(t) == turn'[t].at = "ended" /\ turn'[t].alone /\ turn'[t].id \notin forgotten'

\* The conjuncts of the invariant, of the next state.
LEMMA Primed ==
    /\ (\A t, u \in Turns : t # u /\ ActiveNext(t) /\ ActiveNext(u) /\ turn'[t].id = turn'[u].id
                            => ~turn'[t].alone)
       /\ (\A t \in Turns : turn'[t].at = "idle" => turn'[t].id = None)
       /\ (\A t \in Turns : turn'[t].at # "idle" => turn'[t].id \in issued')
       /\ (\A n \in DOMAIN placed' : turn'[placed'[n].by].at # "idle")
        => TurnInv'
    /\ (\A s \in Sessions : store'[s] # None => ShowsNext(s, store'[s].orders))
       /\ (\A t \in Turns : ActiveNext(t) => ShowsNext(turn'[t].id, turn'[t].mine.orders))
        => ShownInv'
    /\ (\A n \in DOMAIN placed' :
            placed'[n].named /\ SafeNext(placed'[n].by) /\ store'[turn'[placed'[n].by].id] # None
            => Recorded(placed'[n].kind, n) \in store'[turn'[placed'[n].by].id].orders)
        => NothingLost'
    /\ (\A n \in DOMAIN placed' : placed'[n].named => \A u \in Turns :
            ActiveNext(u) /\ (u = placed'[n].by
                              \/ (SafeNext(placed'[n].by) /\ turn'[placed'[n].by].id = turn'[u].id))
            => Recorded(placed'[n].kind, n) \in turn'[u].mine.orders)
        => KeptInv'
    /\ (\A t \in Turns : ActiveNext(t) /\ martOf' = turn'[t].id /\ UndisturbedNext(turn'[t].id)
            => mart' = turn'[t].mine.cart)
        => CartIsWhatSessionKnows'
    /\ (martOf' # None /\ UndisturbedNext(martOf') =>
            \/ \E t \in Turns : ActiveNext(t) /\ turn'[t].id = martOf'
            \/ store'[martOf'] # None /\ mart' = store'[martOf'].cart)
        => MartInv'
<1>1. \A t \in Turns : ActiveNext(t) <=> Active(t)'
  BY DEF ActiveNext, Active, ActiveStages
<1>2. \A t : SafeNext(t) <=> Safe(t)'
  BY DEF SafeNext, Safe
<1> QED
  BY <1>1, <1>2 DEF TurnInv, ShownInv, Shown, MayShow, ShowsNext, MayShowNext, NothingLost, Safe, SafeNext, KeptInv, Recorded,
        CartIsWhatSessionKnows, Undisturbed, UndisturbedNext, MartInv

-----------------------------------------------------------------------------
(* Tools *)

\* A step of an active turn that stays active, and that adds to what its copy of
\* the session shows only what it has placed.
LEMMA ToolKeeps ==
    ASSUME IInv, NEW t \in Turns, Active(t),
           NEW e \in Turn, turn' = [turn EXCEPT ![t] = e],
           e.at \in ActiveStages, e.id = turn[t].id, e.alone = turn[t].alone,
           turn[t].mine.orders \subseteq e.mine.orders,
           e.at = "checked" /\ e.read # None => e.read <= Cap,
           UNCHANGED <<store, staging, issued, forgotten>>,
           food' \in Nat, mart' \in SUBSET Supplies, martOf' \in issued \cup {None},
           placed' \in Seq(Placed), unnamed' \subseteq Kinds \X Sessions, unnamed \subseteq unnamed',
           \A n \in DOMAIN placed : n \in DOMAIN placed' /\ placed'[n] = placed[n],
           \A n \in DOMAIN placed' \ DOMAIN placed :
                /\ placed'[n].by = t
                /\ placed'[n].named => Recorded(placed'[n].kind, n) \in e.mine.orders
                /\ placed'[n].kind = "food" /\ placed'[n].read # None => placed'[n].read <= Cap,
           \A o \in e.mine.orders \ turn[t].mine.orders :
                \/ /\ o.id # None /\ o.id \in DOMAIN placed' /\ placed'[o.id].kind = o.kind
                   /\ placed'[o.id].named /\ placed'[o.id].by = t
                \/ /\ o.id = None
                   /\ o.kind = "table" \/ (o.kind = "supplies" /\ ~staging)
                      \/ <<o.kind, turn[t].id>> \in unnamed',
           \/ UNCHANGED <<mart, martOf>> /\ (martOf = turn[t].id => e.mine.cart = turn[t].mine.cart)
           \/ martOf' = None
           \/ martOf' = turn[t].id /\ mart' = e.mine.cart
    PROVE  IInv'
<1>1. /\ turn \in [Turns -> Turn] /\ placed \in Seq(Placed)
      /\ store \in [Sessions -> Session \cup {None}]
  BY DEF IInv, TypeOK
<1>2. /\ turn' \in [Turns -> Turn] /\ turn'[t] = e
      /\ \A u \in Turns \ {t} : turn'[u] = turn[u]
  BY <1>1, TurnUpdate
<1>3. /\ \A u \in Turns : turn'[u].id = turn[u].id /\ turn'[u].alone = turn[u].alone
      /\ \A u \in Turns : ActiveNext(u) <=> Active(u)
      /\ \A u \in Turns : turn'[u].at = "idle" <=> turn[u].at = "idle"
      /\ \A u \in Turns : turn'[u].at = "ended" <=> turn[u].at = "ended"
      /\ \A u \in Turns : turn'[u].at = "cut" <=> turn[u].at = "cut"
      /\ \A u \in Turns : SafeNext(u) <=> Safe(u)
  BY <1>2 DEF Active, ActiveNext, ActiveStages, Safe, SafeNext
<1>4. /\ \A n \in DOMAIN placed : placed[n] \in Placed /\ placed[n].by \in Turns
      /\ \A n \in DOMAIN placed' : placed'[n] \in Placed /\ placed'[n].by \in Turns
  <2>1. \A n \in DOMAIN placed : placed[n] \in Placed
    BY <1>1
  <2>2. \A n \in DOMAIN placed' : placed'[n] \in Placed
    OBVIOUS
  <2> QED
    BY <2>1, <2>2 DEF Placed
<1>5. TypeOK'
  BY <1>2 DEF IInv, TypeOK
<1>6. TurnInv'
  <2>1. \A u \in Turns : IF turn'[u].at = "idle" THEN turn'[u].id = None ELSE turn'[u].id \in issued'
    BY <1>3 DEF IInv, TurnInv
  <2>2. \A n \in DOMAIN placed' : turn'[placed'[n].by].at # "idle"
    <3>1. turn'[t].at # "idle"
      BY <1>2 DEF ActiveStages
    <3> QED
      BY <1>3, <1>4, <3>1 DEF IInv, TurnInv
  <2>3. \A u, v \in Turns : u # v /\ ActiveNext(u) /\ ActiveNext(v) /\ turn'[u].id = turn'[v].id
                            => ~turn'[u].alone
    BY <1>3 DEF IInv, TurnInv
  <2> QED
    BY <2>1, <2>2, <2>3, Primed
<1>7. \A s, orders : Shown(s, orders) => ShowsNext(s, orders)
  BY <1>3, <1>4 DEF Shown, MayShow, ShowsNext, MayShowNext
<1>8. ShownInv'
  <2>1. \A s \in Sessions : store'[s] # None => ShowsNext(s, store'[s].orders)
    BY <1>7 DEF IInv, ShownInv
  <2>2. \A u \in Turns \ {t} : ActiveNext(u) => ShowsNext(turn'[u].id, turn'[u].mine.orders)
    BY <1>2, <1>3, <1>7 DEF IInv, ShownInv
  <2>3. ShowsNext(e.id, e.mine.orders)
    <3>1. ShowsNext(turn[t].id, turn[t].mine.orders)
      BY <1>7 DEF IInv, ShownInv
    <3> QED
      BY <1>2, <1>3, <3>1 DEF ShowsNext, MayShowNext
  <2> QED
    BY <1>2, <2>1, <2>2, <2>3, Primed
<1>9. NothingLost'
  <2>1. ASSUME NEW n \in DOMAIN placed', placed'[n].named, SafeNext(placed'[n].by),
               store'[turn'[placed'[n].by].id] # None
        PROVE  Recorded(placed'[n].kind, n) \in store'[turn'[placed'[n].by].id].orders
    <3>1. n \in DOMAIN placed
      BY <1>2, <2>1 DEF ActiveStages, SafeNext
    <3>2. placed'[n] = placed[n] /\ placed[n].by \in Turns
      BY <1>4, <3>1
    <3>3. Safe(placed[n].by) /\ turn'[placed'[n].by].id = turn[placed[n].by].id
      BY <1>3, <2>1, <3>2
    <3> QED
      BY <2>1, <3>1, <3>2, <3>3 DEF IInv, NothingLost, Safe
  <2> QED
    BY <2>1, Primed
<1>10. KeptInv'
  <2>1. ASSUME NEW n \in DOMAIN placed', placed'[n].named, NEW u \in Turns, ActiveNext(u),
               \/ u = placed'[n].by
               \/ SafeNext(placed'[n].by) /\ turn'[placed'[n].by].id = turn'[u].id
        PROVE  Recorded(placed'[n].kind, n) \in turn'[u].mine.orders
    <3>1. CASE n \in DOMAIN placed
      <4>1. Recorded(placed[n].kind, n) \in turn[u].mine.orders
        BY <1>3, <1>4, <2>1, <3>1 DEF IInv, KeptInv
      <4> QED
        BY <1>2, <3>1, <4>1
    <3>2. CASE n \notin DOMAIN placed
      <4>1. placed'[n].by = t /\ Recorded(placed'[n].kind, n) \in e.mine.orders
        BY <2>1, <3>2
      <4>2. u = t
        BY <1>2, <2>1, <4>1 DEF SafeNext, ActiveStages
      <4> QED
        BY <1>2, <4>1, <4>2
    <3> QED
      BY <3>1, <3>2
  <2> QED
    BY <2>1, Primed
<1>11. \A s : UndisturbedNext(s) => Undisturbed(s)
  BY <1>3 DEF Undisturbed, UndisturbedNext
<1>12. \A u \in Turns \ {t} : Active(u) /\ turn[u].id = turn[t].id => ~Undisturbed(turn[t].id)
  BY DEF IInv, TurnInv, Undisturbed
<1>13. turn[t].id \in issued /\ issued \subseteq Sessions /\ None \notin Sessions
  BY NoneAssumption DEF IInv, TypeOK, TurnInv, Active
<1>14. CartIsWhatSessionKnows'
  <2>1. ASSUME NEW u \in Turns, ActiveNext(u), martOf' = turn'[u].id, UndisturbedNext(turn'[u].id)
        PROVE  mart' = turn'[u].mine.cart
    <3>1. Active(u) /\ turn'[u].id = turn[u].id /\ Undisturbed(turn[u].id)
      BY <1>3, <1>11, <2>1
    <3>2. turn[u].id \in issued /\ martOf' # None
      BY <1>13, <2>1, <3>1 DEF IInv, TypeOK, TurnInv, Active
    <3>3. CASE UNCHANGED <<mart, martOf>> /\ (martOf = turn[t].id => e.mine.cart = turn[t].mine.cart)
      <4>1. mart = turn[u].mine.cart
        BY <2>1, <3>1, <3>3 DEF IInv, CartIsWhatSessionKnows
      <4> QED
        BY <1>2, <2>1, <3>1, <3>3, <4>1
    <3>4. CASE martOf' = turn[t].id /\ mart' = e.mine.cart
      <4>1. u = t
        BY <1>12, <2>1, <3>1, <3>4
      <4> QED
        BY <1>2, <3>4, <4>1
    <3> QED
      BY <3>2, <3>3, <3>4
  <2> QED
    BY <2>1, Primed
<1>15. MartInv'
  <2>1. ASSUME martOf' # None, UndisturbedNext(martOf')
        PROVE  \/ \E u \in Turns : ActiveNext(u) /\ turn'[u].id = martOf'
               \/ store'[martOf'] # None /\ mart' = store'[martOf'].cart
    <3>1. CASE UNCHANGED <<mart, martOf>>
      <4>1. Undisturbed(martOf)
        BY <1>11, <2>1, <3>1
      <4> QED
        BY <1>3, <2>1, <3>1, <4>1 DEF IInv, MartInv
    <3>2. CASE martOf' = turn[t].id
      BY <1>3, <3>2
    <3> QED
      BY <2>1, <3>1, <3>2
  <2> QED
    BY <2>1, Primed
<1>16. CapInv'
  <2>1. \A u \in Turns : turn'[u].at = "checked" /\ turn'[u].read # None => turn'[u].read <= Cap
    BY <1>2 DEF IInv, CapInv
  <2>2. \A n \in DOMAIN placed' :
            placed'[n].kind = "food" /\ placed'[n].read # None => placed'[n].read <= Cap
    BY DEF IInv, CapInv
  <2> QED
    BY <2>1, <2>2 DEF CapInv
<1> QED
  BY <1>5, <1>6, <1>8, <1>9, <1>10, <1>14, <1>15, <1>16 DEF IInv

\* A tool that asks for no order.
LEMMA ReturnKeeps ==
    ASSUME IInv, NEW t \in Turns, Active(t), NEW session \in Session, Return(t, session),
           turn[t].mine.orders \subseteq session.orders,
           \A o \in session.orders \ turn[t].mine.orders :
                o.id = None /\ (o.kind = "table" \/ (o.kind = "supplies" /\ ~staging)),
           UNCHANGED <<placed, unnamed>>, food' \in Nat, mart' \in SUBSET Supplies,
           \/ UNCHANGED <<mart, martOf>> /\ (martOf = turn[t].id => session.cart = turn[t].mine.cart)
           \/ martOf' = None
           \/ martOf' = turn[t].id /\ mart' = session.cart
    PROVE  IInv'
<1> DEFINE e == [turn[t] EXCEPT !.at = "thinking", !.calls = @ + 1, !.mine = session,
                                !.read = None, !.again = FALSE]
<1>1. turn[t] \in Turn
  BY DEF IInv, TypeOK
<1>2. /\ e \in Turn /\ e.at = "thinking" /\ e.id = turn[t].id /\ e.alone = turn[t].alone
      /\ e.mine = session
  <2>1. turn[t].calls + 1 \in Nat /\ None \in Nat \cup {None}
    BY <1>1 DEF Turn
  <2>2. e \in Turn
    BY <1>1, <2>1 DEF Turn
  <2> QED
    BY <1>1, <2>2 DEF Turn
<1>3. turn' = [turn EXCEPT ![t] = e] /\ UNCHANGED <<store, staging, issued, forgotten>>
  BY <1>1 DEF Return, Turn
<1>4. /\ placed \in Seq(Placed) /\ turn[t].id \in issued /\ martOf \in issued \cup {None}
      /\ unnamed \subseteq Kinds \X Sessions
  BY DEF IInv, TypeOK, TurnInv, Active
<1> HIDE DEF e
<1> QED
  BY <1>2, <1>3, <1>4, ToolKeeps DEF ActiveStages

\* A tool that has read something and awaits the next answer.
LEMMA AwaitKeeps ==
    ASSUME IInv, NEW t \in Turns, Active(t), NEW at \in ActiveStages, NEW read \in Nat \cup {None},
           Await(t, at, read), at = "checked" /\ read # None => read <= Cap
    PROVE  IInv'
<1> DEFINE e == [turn[t] EXCEPT !.at = at, !.read = read]
<1>1. turn[t] \in Turn
  BY DEF IInv, TypeOK
<1>2. /\ e \in Turn /\ e.at = at /\ e.read = read /\ e.id = turn[t].id
      /\ e.alone = turn[t].alone /\ e.mine = turn[t].mine
  BY <1>1 DEF Turn, ActiveStages
<1>3. turn' = [turn EXCEPT ![t] = e]
      /\ UNCHANGED <<store, staging, issued, forgotten, food, mart, placed, martOf, unnamed>>
  BY <1>1 DEF Await, account, Turn
<1>4. /\ placed \in Seq(Placed) /\ food \in Nat /\ mart \in SUBSET Supplies
      /\ martOf \in issued \cup {None} /\ unnamed \subseteq Kinds \X Sessions
  BY DEF IInv, TypeOK
<1> HIDE DEF e
<1> QED
  BY <1>2, <1>3, <1>4, ToolKeeps

\* An order or a booking: what gets into the session has been placed under the
\* id it is shown by, or was answered without one.
LEMMA RequestKeeps ==
    ASSUME IInv, NEW t \in Turns, Active(t), NEW kind \in Kinds, NEW total \in Nat, NEW possible,
           NEW unanswered \in SUBSET {Recorded("table", None)},
           Request(t, kind, total, possible, unanswered),
           kind = "food" => turn[t].at = "checked"
    PROVE  IInv'
<1>1. /\ turn[t] \in Turn /\ placed \in Seq(Placed) /\ food \in Nat /\ mart \in SUBSET Supplies
      /\ martOf \in issued \cup {None} /\ unnamed \subseteq Kinds \X Sessions
      /\ turn[t].id \in Sessions
  BY DEF IInv, TypeOK, TurnInv, Active
<1>2. turn[t].mine \in Session /\ turn[t].at \in ActiveStages
      /\ turn[t].read \in Nat \cup {None} /\ turn[t].calls \in Nat
  BY <1>1 DEF Turn, Active, ActiveStages
<1>3. PICK accepted, answered, named, retry \in BOOLEAN :
        /\ accepted => possible
        /\ named => accepted /\ answered
        /\ retry => ~answered /\ ~turn[t].again
        /\ placed' = IF accepted
                     THEN Append(placed, [kind |-> kind, by |-> t, call |-> turn[t].calls, total |-> total,
                                          read |-> turn[t].read, named |-> named])
                     ELSE placed
        /\ food' = IF accepted /\ kind = "food" THEN 0 ELSE food
        /\ mart' = IF accepted /\ kind = "supplies" THEN {} ELSE mart
        /\ martOf' = IF accepted /\ kind = "supplies" THEN None ELSE martOf
        /\ unnamed' = IF answered /\ ~named THEN unnamed \cup {<<kind, turn[t].id>>} ELSE unnamed
        /\ IF retry
           THEN turn' = [turn EXCEPT ![t].again = TRUE] /\ UNCHANGED <<store, staging, issued, forgotten>>
           ELSE Return(t, [turn[t].mine EXCEPT !.orders =
                    @ \cup IF named THEN {Recorded(kind, Len(placed'))}
                           ELSE IF answered THEN {Recorded(kind, None)} ELSE unanswered])
  BY DEF Request
<1> DEFINE p == [kind |-> kind, by |-> t, call |-> turn[t].calls, total |-> total,
                 read |-> turn[t].read, named |-> named]
           new == IF retry THEN {} ELSE IF named THEN {Recorded(kind, Len(placed'))}
                  ELSE IF answered THEN {Recorded(kind, None)} ELSE unanswered
           mine == [turn[t].mine EXCEPT !.orders = @ \cup new]
           e == IF retry THEN [turn[t] EXCEPT !.again = TRUE]
                ELSE [turn[t] EXCEPT !.at = "thinking", !.calls = @ + 1, !.mine = mine,
                                     !.read = None, !.again = FALSE]
<1>4. p \in Placed /\ p.kind = kind /\ p.by = t /\ p.read = turn[t].read /\ p.named = named
  BY <1>2 DEF Placed
<1> HIDE DEF p
<1>5. placed' = IF accepted THEN Append(placed, p) ELSE placed
  BY <1>3 DEF p
<1>6. /\ placed' \in Seq(Placed) /\ Len(placed') \in Nat
      /\ \A n \in DOMAIN placed : n \in DOMAIN placed' /\ placed'[n] = placed[n]
      /\ \A n \in DOMAIN placed' \ DOMAIN placed : accepted /\ n = Len(placed') /\ placed'[n] = p
      /\ accepted => Len(placed') \in DOMAIN placed' /\ placed'[Len(placed')] = p
  BY <1>1, <1>4, <1>5
<1>7. /\ mine \in Session /\ mine.orders = turn[t].mine.orders \cup new
      /\ mine.cart = turn[t].mine.cart
  BY <1>2, <1>6 DEF Session, Recorded, Kinds
<1>8. retry => new = {}
  OBVIOUS
<1>9. \A o \in new :
        \/ named /\ o = Recorded(kind, Len(placed'))
        \/ answered /\ ~named /\ o = Recorded(kind, None)
        \/ o = Recorded("table", None)
  OBVIOUS
<1>10. named => Recorded(kind, Len(placed')) \in new
  BY <1>3
<1> HIDE DEF new
<1>11. retry => mine = turn[t].mine
  BY <1>2, <1>8 DEF Session
<1> HIDE DEF mine
<1>12. /\ e \in Turn /\ e.at \in ActiveStages /\ e.id = turn[t].id /\ e.alone = turn[t].alone
       /\ e.mine = mine
       /\ e.at = "checked" => e.read = turn[t].read /\ turn[t].at = "checked"
  <2>1. CASE retry
    <3>1. e = [turn[t] EXCEPT !.again = TRUE]
      BY <2>1
    <3>2. e \in Turn
      BY <1>1, <3>1 DEF Turn
    <3> QED
      BY <1>1, <1>2, <1>11, <2>1, <3>1, <3>2 DEF Turn
  <2>2. CASE ~retry
    <3>1. e = [turn[t] EXCEPT !.at = "thinking", !.calls = @ + 1, !.mine = mine,
                              !.read = None, !.again = FALSE]
      BY <2>2
    <3>2. turn[t].calls + 1 \in Nat
      BY <1>2
    <3>3. e \in Turn
      BY <1>1, <1>7, <3>1, <3>2 DEF Turn
    <3> QED
      BY <1>1, <3>1, <3>3 DEF Turn, ActiveStages
  <2> QED
    BY <2>1, <2>2
<1>13. turn' = [turn EXCEPT ![t] = e] /\ UNCHANGED <<store, staging, issued, forgotten>>
  <2>1. CASE retry
    BY <1>1, <1>3, <2>1 DEF Turn
  <2>2. CASE ~retry
    BY <1>1, <1>3, <2>2 DEF Turn, Return, new, mine
  <2> QED
    BY <2>1, <2>2
<1> HIDE DEF e
<1>14. turn[t].at = "checked" /\ turn[t].read # None => turn[t].read <= Cap
  BY DEF IInv, CapInv
<1>15. food' \in Nat /\ mart' \in SUBSET Supplies /\ martOf' \in issued \cup {None}
  BY <1>1, <1>3
<1>16. UNCHANGED <<mart, martOf>> \/ martOf' = None
  BY <1>3
<1>17. /\ turn[t].mine.orders \subseteq e.mine.orders
       /\ e.at = "checked" /\ e.read # None => e.read <= Cap
  BY <1>7, <1>12, <1>14
<1>18. \A n \in DOMAIN placed' \ DOMAIN placed :
                /\ placed'[n].by = t
                /\ placed'[n].named => Recorded(placed'[n].kind, n) \in e.mine.orders
                /\ placed'[n].kind = "food" /\ placed'[n].read # None => placed'[n].read <= Cap
  BY <1>4, <1>6, <1>7, <1>10, <1>12, <1>14
<1>19. \A o \in e.mine.orders \ turn[t].mine.orders :
                \/ /\ o.id # None /\ o.id \in DOMAIN placed' /\ placed'[o.id].kind = o.kind
                   /\ placed'[o.id].named /\ placed'[o.id].by = t
                \/ /\ o.id = None
                   /\ o.kind = "table" \/ (o.kind = "supplies" /\ ~staging)
                      \/ <<o.kind, turn[t].id>> \in unnamed'
  <2> SUFFICES ASSUME NEW o \in new
               PROVE  \/ /\ o.id # None /\ o.id \in DOMAIN placed' /\ placed'[o.id].kind = o.kind
                         /\ placed'[o.id].named /\ placed'[o.id].by = t
                      \/ /\ o.id = None
                         /\ o.kind = "table" \/ <<o.kind, turn[t].id>> \in unnamed'
    BY <1>7, <1>12
  <2>1. CASE named /\ o = Recorded(kind, Len(placed'))
    BY <1>3, <1>4, <1>6, <2>1, NoneAssumption DEF Recorded
  <2>2. CASE answered /\ ~named /\ o = Recorded(kind, None)
    BY <1>3, <2>2 DEF Recorded
  <2>3. CASE o = Recorded("table", None)
    BY <2>3 DEF Recorded
  <2> QED
    BY <1>9, <2>1, <2>2, <2>3
<1>20. unnamed' \subseteq Kinds \X Sessions /\ unnamed \subseteq unnamed'
  BY <1>1, <1>3
<1> QED
  BY <1>6, <1>7, <1>12, <1>13, <1>15, <1>16, <1>17, <1>18, <1>19, <1>20, ToolKeeps

LEMMA SetCartKeeps ==
    ASSUME IInv, NEW t \in Turns, Active(t), NEW cart \in SUBSET Supplies, SetCart(t, cart, cart)
    PROVE  IInv'
<1>1. /\ turn[t] \in Turn /\ food \in Nat /\ mart \in SUBSET Supplies /\ turn[t].id \in issued
      /\ martOf \in issued \cup {None}
  BY DEF IInv, TypeOK, TurnInv, Active
<1>2. turn[t].mine \in Session
  BY <1>1 DEF Turn
<1>3. PICK accepted, answered \in BOOLEAN :
        /\ mart' = IF accepted THEN cart ELSE mart
        /\ martOf' = IF accepted THEN IF answered THEN turn[t].id ELSE None
                     ELSE IF answered /\ martOf = turn[t].id THEN None ELSE martOf
        /\ Return(t, IF answered THEN [turn[t].mine EXCEPT !.cart = cart] ELSE turn[t].mine)
        /\ UNCHANGED <<food, placed, unnamed>>
  BY DEF SetCart
<1> DEFINE session == IF answered THEN [turn[t].mine EXCEPT !.cart = cart] ELSE turn[t].mine
<1>4. /\ session \in Session /\ session.orders = turn[t].mine.orders
      /\ session.cart = IF answered THEN cart ELSE turn[t].mine.cart
  BY <1>2 DEF Session
<1>5. Return(t, session)
  BY <1>3
<1> HIDE DEF session
<1> QED
  BY <1>1, <1>3, <1>4, <1>5, ReturnKeeps

LEMMA PendingKeeps ==
    ASSUME IInv, NEW t \in Turns, NEW kind \in {"supplies", "table"}, Pending(t, kind)
    PROVE  IInv'
<1>1. /\ turn[t] \in Turn /\ food \in Nat /\ mart \in SUBSET Supplies
  BY DEF IInv, TypeOK
<1>2. turn[t].mine \in Session /\ Active(t)
  BY <1>1 DEF Turn, Pending, Calls, Active
<1> DEFINE session == [turn[t].mine EXCEPT !.orders = @ \cup {Recorded(kind, None)}]
<1>3. /\ session \in Session /\ session.cart = turn[t].mine.cart
      /\ session.orders = turn[t].mine.orders \cup {Recorded(kind, None)}
  BY <1>2 DEF Session, Recorded, Kinds
<1>4. Return(t, session) /\ ~staging /\ UNCHANGED <<food, mart, placed, martOf, unnamed>>
  BY DEF Pending, account
<1> HIDE DEF session
<1> QED
  BY <1>1, <1>2, <1>3, <1>4, ReturnKeeps DEF Recorded

\* Every tool.
LEMMA ToolsKeep ==
    ASSUME IInv, NEW t \in Turns, Tool(t)
    PROVE  IInv'
<1>1. /\ turn[t] \in Turn /\ food \in Nat /\ mart \in SUBSET Supplies /\ martOf \in issued \cup {None}
  BY DEF IInv, TypeOK
<1>2. turn[t].mine \in Session /\ turn[t].mine.cart \in SUBSET Supplies
  BY <1>1 DEF Turn, Session
<1>3. Calls(t) => Active(t)
  BY DEF Calls, Active
<1>4. CASE add_food_to_cart(t)
  BY <1>1, <1>2, <1>3, <1>4, TotalsAssumption, ReturnKeeps DEF add_food_to_cart
<1>5. CASE apply_best_coupon(t)
  BY <1>1, <1>2, <1>3, <1>5, TotalsAssumption, ReturnKeeps DEF apply_best_coupon
<1>6. CASE view_food_cart(t)
  <2>1. PICK total \in {food, None} : (total # None => total <= Cap) /\ Await(t, "checked", total)
    BY <1>6 DEF view_food_cart
  <2> QED
    BY <1>1, <1>3, <1>6, <2>1, AwaitKeeps DEF view_food_cart, ActiveStages
<1>7. CASE place_food_order(t)
  BY <1>1, <1>7, RequestKeeps DEF place_food_order, Active, Kinds
<1>8. CASE add_supplies_to_cart(t)
  <2>1. PICK items \in SUBSET Supplies \ {{}} :
            SetCart(t, turn[t].mine.cart \cup items, turn[t].mine.cart \cup items)
    BY <1>8 DEF add_supplies_to_cart
  <2>2. turn[t].mine.cart \cup items \in SUBSET Supplies
    BY <1>2
  <2> QED
    BY <1>3, <1>8, <2>1, <2>2, SetCartKeeps DEF add_supplies_to_cart
<1>9. CASE view_supplies_cart(t)
  BY <1>3, <1>9, AwaitKeeps DEF view_supplies_cart, ActiveStages
<1>10. CASE order_supplies(t)
  BY <1>10, RequestKeeps DEF order_supplies, Active, Kinds
<1>11. CASE order_supplies_pending(t)
  BY <1>11, PendingKeeps DEF order_supplies_pending
<1>12. CASE book_table_pending(t)
  BY <1>12, PendingKeeps DEF book_table_pending
<1>13. CASE create_cart(t)
  BY <1>3, <1>13, AwaitKeeps DEF create_cart, ActiveStages
<1>14. CASE book_table(t)
  BY <1>14, RequestKeeps DEF book_table, Active, Kinds
<1> QED
  BY <1>4, <1>5, <1>6, <1>7, <1>8, <1>9, <1>10, <1>11, <1>12, <1>13, <1>14 DEF Tool

-----------------------------------------------------------------------------
(* Sessions *)

\* A turn begins, on a session with a new id or on the one that Redis has.
LEMMA OpenKeeps ==
    ASSUME IInv, NEW t \in Turns, turn[t].at = "idle", NEW s \in Sessions, NEW session \in Session,
           Open(t, s, session),
           \/ s \notin issued /\ session = NoSession
           \/ s \in issued /\ store[s] # None /\ session = store[s]
    PROVE  IInv'
<1> DEFINE others == {u \in Turns : Active(u) /\ turn[u].id = s}
           next(u) == IF u = t THEN [turn[t] EXCEPT !.at = "thinking", !.id = s, !.mine = session,
                                                    !.alone = (others = {})]
                      ELSE IF u \in others THEN [turn[u] EXCEPT !.alone = FALSE]
                      ELSE turn[u]
<1>1. /\ turn \in [Turns -> Turn] /\ placed \in Seq(Placed) /\ issued \subseteq Sessions
      /\ store \in [Sessions -> Session \cup {None}] /\ martOf \in issued \cup {None}
  BY DEF IInv, TypeOK
<1>2. /\ turn' = [u \in Turns |-> next(u)] /\ issued' = issued \cup {s}
      /\ UNCHANGED <<store, food, mart, placed, martOf, unnamed, staging, forgotten>>
  BY DEF Open, account
<1>3. ASSUME NEW u \in Turns PROVE next(u) \in Turn
  <2>1. turn[u] \in Turn
    BY <1>1
  <2> HIDE DEF others
  <2>2. CASE u = t
    BY <2>1, <2>2 DEF Turn
  <2>3. CASE u # t
    BY <2>1, <2>3 DEF Turn
  <2> QED
    BY <2>2, <2>3
<1>4. turn' \in [Turns -> Turn] /\ \A u \in Turns : turn'[u] = next(u)
  BY <1>2, <1>3
<1>5. /\ turn'[t].at = "thinking" /\ turn'[t].id = s /\ turn'[t].mine = session
      /\ turn'[t].alone <=> \A u \in Turns : ~(Active(u) /\ turn[u].id = s)
  <2>1. turn[t] \in Turn /\ turn'[t] = [turn[t] EXCEPT !.at = "thinking", !.id = s, !.mine = session,
                                                       !.alone = (others = {})]
    BY <1>1, <1>4
  <2>2. (others = {}) <=> \A u \in Turns : ~(Active(u) /\ turn[u].id = s)
    OBVIOUS
  <2> HIDE DEF others
  <2> QED
    BY <2>1, <2>2 DEF Turn
<1>6. /\ \A u \in Turns \ {t} :
            /\ turn'[u].at = turn[u].at /\ turn'[u].id = turn[u].id
            /\ turn'[u].mine = turn[u].mine /\ turn'[u].read = turn[u].read
            /\ turn'[u].alone => turn[u].alone
      /\ \A u \in Turns \ {t} : Active(u) /\ turn[u].id = s => ~turn'[u].alone
  <2>1. \A u \in Turns \ {t} : turn[u] \in Turn
            /\ turn'[u] = IF u \in others THEN [turn[u] EXCEPT !.alone = FALSE] ELSE turn[u]
    BY <1>1, <1>4
  <2>2. \A u \in Turns : u \in others <=> Active(u) /\ turn[u].id = s
    OBVIOUS
  <2> HIDE DEF next, others
  <2>3. ASSUME NEW u \in Turns \ {t}
        PROVE  /\ turn'[u].at = turn[u].at /\ turn'[u].id = turn[u].id
               /\ turn'[u].mine = turn[u].mine /\ turn'[u].read = turn[u].read
               /\ turn'[u].alone => turn[u].alone
               /\ u \in others => ~turn'[u].alone
    <3>1. CASE u \in others
      <4>1. turn'[u] = [turn[u] EXCEPT !.alone = FALSE] /\ turn[u] \in Turn
        BY <2>1, <3>1
      <4> QED
        BY <4>1 DEF Turn
    <3>2. CASE u \notin others
      BY <2>1, <3>2
    <3> QED
      BY <3>1, <3>2
  <2> QED
    BY <2>2, <2>3
<1> HIDE DEF next, others
<1>7. ~Active(t) /\ ~Safe(t) /\ turn[t].id = None /\ None \notin Sessions /\ ActiveNext(t)
      /\ ~SafeNext(t)
  BY <1>5, NoneAssumption DEF IInv, TurnInv, Active, ActiveNext, ActiveStages, Safe, SafeNext
<1>8. \A u \in Turns \ {t} : (ActiveNext(u) <=> Active(u)) /\ (SafeNext(u) => Safe(u))
  BY <1>2, <1>6 DEF Active, ActiveNext, ActiveStages, Safe, SafeNext
<1>9. \A n \in DOMAIN placed : placed[n] \in Placed /\ placed[n].by \in Turns \ {t}
  <2>1. \A n \in DOMAIN placed : placed[n] \in Placed
    BY <1>1
  <2> QED
    BY <2>1 DEF IInv, TurnInv, Placed
<1>10. TypeOK'
  BY <1>1, <1>2, <1>4 DEF IInv, TypeOK
<1>11. TurnInv'
  <2>1. \A u \in Turns : turn'[u].at = "idle" => turn'[u].id = None
    BY <1>5, <1>6 DEF IInv, TurnInv
  <2>2. \A u \in Turns : turn'[u].at # "idle" => turn'[u].id \in issued'
    BY <1>2, <1>5, <1>6 DEF IInv, TurnInv
  <2>3. \A n \in DOMAIN placed' : turn'[placed'[n].by].at # "idle"
    BY <1>2, <1>6, <1>9 DEF IInv, TurnInv
  <2>4. \A u, v \in Turns : u # v /\ ActiveNext(u) /\ ActiveNext(v) /\ turn'[u].id = turn'[v].id
                            => ~turn'[u].alone
    BY <1>5, <1>6, <1>8 DEF IInv, TurnInv
  <2> QED
    BY <2>1, <2>2, <2>3, <2>4, Primed
<1>12. \A id, orders : Shown(id, orders) => ShowsNext(id, orders)
  BY <1>2, <1>6, <1>9 DEF Shown, MayShow, ShowsNext, MayShowNext
<1>13. ShownInv'
  <2>1. \A id \in Sessions : store'[id] # None => ShowsNext(id, store'[id].orders)
    BY <1>2, <1>12 DEF IInv, ShownInv
  <2>2. ShowsNext(s, session.orders)
    <3>1. CASE session = NoSession
      BY <3>1 DEF NoSession, ShowsNext
    <3>2. CASE store[s] # None /\ session = store[s]
      BY <1>2, <2>1, <3>2
    <3> QED
      BY <3>1, <3>2
  <2>3. \A u \in Turns : ActiveNext(u) => ShowsNext(turn'[u].id, turn'[u].mine.orders)
    BY <1>5, <1>6, <1>8, <1>12, <2>2 DEF IInv, ShownInv
  <2> QED
    BY <2>1, <2>3, Primed
<1>14. NothingLost'
  <2>1. ASSUME NEW n \in DOMAIN placed', placed'[n].named, SafeNext(placed'[n].by),
               store'[turn'[placed'[n].by].id] # None
        PROVE  Recorded(placed'[n].kind, n) \in store'[turn'[placed'[n].by].id].orders
    BY <1>2, <1>6, <1>8, <1>9, <2>1 DEF IInv, NothingLost, Safe
  <2> QED
    BY <2>1, Primed
<1>15. KeptInv'
  <2>1. ASSUME NEW n \in DOMAIN placed', placed'[n].named, NEW u \in Turns, ActiveNext(u),
               \/ u = placed'[n].by
               \/ SafeNext(placed'[n].by) /\ turn'[placed'[n].by].id = turn'[u].id
        PROVE  Recorded(placed'[n].kind, n) \in turn'[u].mine.orders
    <3>1. n \in DOMAIN placed /\ placed'[n] = placed[n] /\ placed[n].by \in Turns \ {t}
      BY <1>2, <1>9
    <3>2. CASE u # t
      BY <1>6, <1>8, <2>1, <3>1, <3>2 DEF IInv, KeptInv
    <3>3. CASE u = t
      <4>1. Safe(placed[n].by) /\ turn[placed[n].by].id = s
        BY <1>5, <1>6, <1>8, <2>1, <3>1, <3>3
      <4>2. s \in issued
        BY <3>1, <4>1 DEF IInv, TurnInv, Safe
      <4> QED
        BY <1>5, <2>1, <3>1, <3>3, <4>1, <4>2 DEF IInv, NothingLost, Safe
    <3> QED
      BY <3>2, <3>3
  <2> QED
    BY <2>1, Primed
<1>16. \A id \in Sessions : UndisturbedNext(id) => Undisturbed(id)
  BY <1>2, <1>6, <1>7 DEF Undisturbed, UndisturbedNext
<1>17. UndisturbedNext(s) => \A u \in Turns : ~(Active(u) /\ turn[u].id = s)
  BY <1>5 DEF UndisturbedNext
<1>18. CartIsWhatSessionKnows'
  <2>1. ASSUME NEW u \in Turns, ActiveNext(u), martOf' = turn'[u].id, UndisturbedNext(turn'[u].id)
        PROVE  mart' = turn'[u].mine.cart
    <3>1. CASE u # t
      <4>1. Active(u) /\ turn[u].id = turn'[u].id /\ turn[u].id \in Sessions
        BY <1>1, <1>6, <1>8, <2>1, <3>1 DEF IInv, TurnInv, Active
      <4> QED
        BY <1>2, <1>6, <1>16, <2>1, <3>1, <4>1 DEF IInv, CartIsWhatSessionKnows
    <3>2. CASE u = t
      <4>1. martOf = s /\ UndisturbedNext(s)
        BY <1>2, <1>5, <2>1, <3>2
      <4>2. Undisturbed(martOf) /\ martOf # None /\ s \in issued
        BY <1>1, <1>7, <1>16, <4>1
      <4>3. mart = store[s].cart
        BY <1>17, <4>1, <4>2 DEF IInv, MartInv
      <4> QED
        BY <1>2, <1>5, <3>2, <4>2, <4>3
    <3> QED
      BY <3>1, <3>2
  <2> QED
    BY <2>1, Primed
<1>19. MartInv'
  <2>1. ASSUME martOf' # None, UndisturbedNext(martOf')
        PROVE  \/ \E u \in Turns : ActiveNext(u) /\ turn'[u].id = martOf'
               \/ store'[martOf'] # None /\ mart' = store'[martOf'].cart
    <3>1. martOf' = martOf /\ Undisturbed(martOf) /\ martOf # None
      BY <1>1, <1>2, <1>16, <2>1
    <3>2. CASE \E u \in Turns : Active(u) /\ turn[u].id = martOf
      BY <1>6, <1>7, <1>8, <3>1, <3>2
    <3>3. CASE store[martOf] # None /\ mart = store[martOf].cart
      BY <1>2, <3>1, <3>3
    <3> QED
      BY <3>1, <3>2, <3>3 DEF IInv, MartInv
  <2> QED
    BY <2>1, Primed
<1>20. CapInv'
  <2>1. \A u \in Turns : turn'[u].at = "checked" /\ turn'[u].read # None => turn'[u].read <= Cap
    BY <1>5, <1>6 DEF IInv, CapInv
  <2> QED
    BY <1>2, <2>1 DEF IInv, CapInv
<1> QED
  BY <1>10, <1>11, <1>13, <1>14, <1>15, <1>18, <1>19, <1>20 DEF IInv

\* A turn ends and its session is saved, or it is cut short and its copy lost.
LEMMA EndKeeps ==
    ASSUME IInv, NEW t \in Turns, Active(t), NEW at, NEW stored \in BOOLEAN, End(t, at, stored),
           at = IF stored THEN "ended" ELSE "cut"
    PROVE  IInv'
<1> DEFINE e == [turn[t] EXCEPT !.at = at, !.mine = NoSession, !.read = None, !.again = FALSE]
<1>1. /\ turn \in [Turns -> Turn] /\ placed \in Seq(Placed) /\ issued \subseteq Sessions
      /\ store \in [Sessions -> Session \cup {None}] /\ martOf \in issued \cup {None}
      /\ turn[t] \in Turn /\ turn[t].mine \in Session
  BY DEF IInv, TypeOK, Turn
<1>2. NoSession \in Session /\ at \in {"ended", "cut"}
  BY DEF NoSession, Session
<1>3. e \in Turn /\ e.at = at /\ e.id = turn[t].id /\ e.alone = turn[t].alone
  BY <1>1, <1>2 DEF Turn
<1>4. /\ turn' = [turn EXCEPT ![t] = e]
      /\ store' = IF stored THEN [store EXCEPT ![turn[t].id] = turn[t].mine] ELSE store
      /\ UNCHANGED <<food, mart, placed, martOf, unnamed, staging, issued, forgotten>>
  BY <1>1 DEF End, account
<1> HIDE DEF e
<1>5. /\ turn' \in [Turns -> Turn] /\ turn'[t] = e
      /\ \A u \in Turns \ {t} : turn'[u] = turn[u]
  BY <1>1, <1>3, <1>4, TurnUpdate
<1>6. /\ \A u \in Turns : turn'[u].id = turn[u].id /\ turn'[u].alone = turn[u].alone
      /\ \A u \in Turns : turn'[u].at = "idle" <=> turn[u].at = "idle"
      /\ \A u \in Turns : ActiveNext(u) <=> Active(u) /\ u # t
      /\ \A u \in Turns \ {t} : SafeNext(u) <=> Safe(u)
  BY <1>2, <1>3, <1>4, <1>5 DEF Active, ActiveNext, ActiveStages, Safe, SafeNext
<1>7. turn[t].id \in issued /\ turn[t].id \in Sessions /\ None \notin Sessions
      /\ turn[t].mine # None
  BY <1>1, NoneAssumption DEF IInv, TurnInv, Active
<1>8. \A s \in Sessions : store'[s] = IF stored /\ s = turn[t].id THEN turn[t].mine ELSE store[s]
  BY <1>1, <1>4
<1>9. \A n \in DOMAIN placed : placed[n] \in Placed /\ placed[n].by \in Turns
  <2>1. \A n \in DOMAIN placed : placed[n] \in Placed
    BY <1>1
  <2> QED
    BY <2>1 DEF Placed
<1>10. TypeOK'
  BY <1>1, <1>4, <1>5, <1>7 DEF IInv, TypeOK
<1>11. TurnInv'
  <2>1. \A u \in Turns : IF turn'[u].at = "idle" THEN turn'[u].id = None ELSE turn'[u].id \in issued'
    BY <1>4, <1>6 DEF IInv, TurnInv
  <2>2. \A n \in DOMAIN placed' : turn'[placed'[n].by].at # "idle"
    BY <1>4, <1>6, <1>9 DEF IInv, TurnInv
  <2>3. \A u, v \in Turns : u # v /\ ActiveNext(u) /\ ActiveNext(v) /\ turn'[u].id = turn'[v].id
                            => ~turn'[u].alone
    BY <1>6 DEF IInv, TurnInv
  <2> QED
    BY <2>1, <2>2, <2>3, Primed
<1>12. \A id, orders : Shown(id, orders) => ShowsNext(id, orders)
  BY <1>4, <1>6, <1>9 DEF Shown, MayShow, ShowsNext, MayShowNext
<1>13. ShownInv'
  <2>1. \A id \in Sessions : store'[id] # None => ShowsNext(id, store'[id].orders)
    BY <1>8, <1>12 DEF IInv, ShownInv
  <2>2. \A u \in Turns : ActiveNext(u) => ShowsNext(turn'[u].id, turn'[u].mine.orders)
    BY <1>5, <1>6, <1>12 DEF IInv, ShownInv
  <2> QED
    BY <2>1, <2>2, Primed
<1>14. NothingLost'
  <2>1. ASSUME NEW n \in DOMAIN placed', placed'[n].named, SafeNext(placed'[n].by),
               store'[turn'[placed'[n].by].id] # None
        PROVE  Recorded(placed'[n].kind, n) \in store'[turn'[placed'[n].by].id].orders
    <3>1. n \in DOMAIN placed /\ placed'[n] = placed[n] /\ placed[n].by \in Turns
      BY <1>4, <1>9
    <3>2. turn'[placed[n].by].id = turn[placed[n].by].id /\ turn[placed[n].by].id \in Sessions
      BY <1>1, <1>6, <3>1 DEF IInv, TurnInv
    <3>3. CASE stored /\ turn[placed[n].by].id = turn[t].id
      BY <1>6, <1>8, <2>1, <3>1, <3>2, <3>3 DEF IInv, KeptInv
    <3>4. CASE ~(stored /\ turn[placed[n].by].id = turn[t].id)
      <4>1. placed[n].by # t
        BY <1>3, <1>5, <2>1, <3>1, <3>4 DEF SafeNext
      <4> QED
        BY <1>6, <1>8, <2>1, <3>1, <3>2, <3>4, <4>1 DEF IInv, NothingLost, Safe
    <3> QED
      BY <3>3, <3>4
  <2> QED
    BY <2>1, Primed
<1>15. KeptInv'
  <2>1. ASSUME NEW n \in DOMAIN placed', placed'[n].named, NEW u \in Turns, ActiveNext(u),
               \/ u = placed'[n].by
               \/ SafeNext(placed'[n].by) /\ turn'[placed'[n].by].id = turn'[u].id
        PROVE  Recorded(placed'[n].kind, n) \in turn'[u].mine.orders
    <3>1. n \in DOMAIN placed /\ placed'[n] = placed[n] /\ placed[n].by \in Turns
      BY <1>4, <1>9
    <3>2. Active(u) /\ u # t /\ turn'[u] = turn[u]
      BY <1>5, <1>6, <2>1
    <3>3. placed[n].by # t
      <4> SUFFICES ASSUME placed[n].by = t PROVE FALSE
        OBVIOUS
      <4>1. turn[t].alone /\ turn[u].id = turn[t].id
        BY <1>6, <2>1, <3>1, <3>2 DEF SafeNext
      <4> QED
        BY <3>2, <4>1 DEF IInv, TurnInv
    <3> QED
      BY <1>6, <2>1, <3>1, <3>2, <3>3 DEF IInv, KeptInv
  <2> QED
    BY <2>1, Primed
<1>16. \A id : UndisturbedNext(id) => Undisturbed(id)
  BY <1>4, <1>5, <1>6 DEF Undisturbed, UndisturbedNext, Active
<1>17. CartIsWhatSessionKnows'
  <2>1. ASSUME NEW u \in Turns, ActiveNext(u), martOf' = turn'[u].id, UndisturbedNext(turn'[u].id)
        PROVE  mart' = turn'[u].mine.cart
    BY <1>4, <1>5, <1>6, <1>16, <2>1 DEF IInv, CartIsWhatSessionKnows
  <2> QED
    BY <2>1, Primed
<1>18. MartInv'
  <2>1. ASSUME martOf' # None, UndisturbedNext(martOf')
        PROVE  \/ \E u \in Turns : ActiveNext(u) /\ turn'[u].id = martOf'
               \/ store'[martOf'] # None /\ mart' = store'[martOf'].cart
    <3>1. martOf' = martOf /\ Undisturbed(martOf) /\ martOf \in Sessions /\ mart' = mart
      BY <1>1, <1>4, <1>16, <2>1
    <3>2. CASE martOf = turn[t].id
      <4>1. stored
        BY <1>3, <1>5, <2>1, <3>1, <3>2 DEF UndisturbedNext
      <4>2. mart = turn[t].mine.cart
        BY <3>1, <3>2 DEF IInv, CartIsWhatSessionKnows
      <4> QED
        BY <1>7, <1>8, <3>1, <3>2, <4>1, <4>2
    <3>3. CASE martOf # turn[t].id
      <4>1. CASE \E u \in Turns : Active(u) /\ turn[u].id = martOf
        BY <1>6, <3>1, <3>3, <4>1
      <4>2. CASE store[martOf] # None /\ mart = store[martOf].cart
        BY <1>8, <3>1, <3>3, <4>2
      <4> QED
        BY <2>1, <3>1, <4>1, <4>2 DEF IInv, MartInv
    <3> QED
      BY <3>2, <3>3
  <2> QED
    BY <2>1, Primed
<1>19. CapInv'
  <2>1. \A u \in Turns : turn'[u].at = "checked" /\ turn'[u].read # None => turn'[u].read <= Cap
    BY <1>2, <1>3, <1>5 DEF IInv, CapInv
  <2> QED
    BY <1>4, <2>1 DEF IInv, CapInv
<1> QED
  BY <1>10, <1>11, <1>13, <1>14, <1>15, <1>17, <1>18, <1>19 DEF IInv

\* Redis forgets a session.
LEMMA ForgetKeeps ==
    ASSUME IInv, NEW s \in Sessions, Forget(s)
    PROVE  IInv'
<1>1. /\ turn' = turn /\ placed' = placed /\ mart' = mart /\ martOf' = martOf /\ food' = food
      /\ staging' = staging /\ unnamed' = unnamed /\ issued' = issued /\ forgotten' = forgotten \cup {s}
      /\ store' = [store EXCEPT ![s] = None]
  BY DEF Forget, account
<1>2. /\ store \in [Sessions -> Session \cup {None}] /\ turn \in [Turns -> Turn]
      /\ issued \subseteq Sessions /\ martOf \in issued \cup {None} /\ placed \in Seq(Placed)
  BY DEF IInv, TypeOK
<1>3. \A id \in Sessions : store'[id] = IF id = s THEN None ELSE store[id]
  BY <1>1, <1>2
<1>4. /\ \A u : ActiveNext(u) <=> Active(u)
      /\ \A u : SafeNext(u) => Safe(u) /\ turn[u].id # s
      /\ \A id : UndisturbedNext(id) => Undisturbed(id) /\ id # s
  BY <1>1 DEF Active, ActiveNext, ActiveStages, Safe, SafeNext, Undisturbed, UndisturbedNext
<1>5. TypeOK'
  BY <1>1, <1>2 DEF IInv, TypeOK
<1>6. TurnInv'
  BY <1>1 DEF IInv, TurnInv, Active
<1>7. ShownInv'
  BY <1>1, <1>3, <1>4, Primed DEF IInv, ShownInv, Shown, MayShow, ShowsNext, MayShowNext
<1>8. NothingLost'
  <2>1. ASSUME NEW n \in DOMAIN placed', placed'[n].named, SafeNext(placed'[n].by),
               store'[turn'[placed'[n].by].id] # None
        PROVE  Recorded(placed'[n].kind, n) \in store'[turn'[placed'[n].by].id].orders
    <3>1. placed[n] \in Placed
      BY <1>1, <1>2
    <3>2. Safe(placed[n].by) /\ turn[placed[n].by].id \in Sessions \ {s}
      BY <1>1, <1>2, <1>4, <2>1, <3>1 DEF IInv, TurnInv, Safe, Placed
    <3> QED
      BY <1>1, <1>3, <2>1, <3>2 DEF IInv, NothingLost, Safe
  <2> QED
    BY <2>1, Primed
<1>9. KeptInv'
  BY <1>1, <1>4, Primed DEF IInv, KeptInv
<1>10. CartIsWhatSessionKnows'
  BY <1>1, <1>4, Primed DEF IInv, CartIsWhatSessionKnows
<1>11. MartInv'
  BY <1>1, <1>2, <1>3, <1>4, Primed DEF IInv, MartInv
<1>12. CapInv'
  BY <1>1 DEF IInv, CapInv
<1> QED
  BY <1>5, <1>6, <1>7, <1>8, <1>9, <1>10, <1>11, <1>12 DEF IInv

-----------------------------------------------------------------------------
(* The theorems *)

LEMMA InitInv == Init => IInv
<1> SUFFICES ASSUME Init PROVE IInv
  OBVIOUS
<1>1. \A t \in Turns : turn[t].at = "idle" /\ turn[t].id = None /\ turn[t].read = None
  BY DEF Init
<1>2. NoSession \in Session
  BY DEF NoSession, Session
<1>3. TypeOK
  BY <1>2 DEF Init, TypeOK, Turn
<1>4. placed = <<>> /\ martOf = None /\ \A s \in Sessions : store[s] = None
  BY DEF Init
<1> QED
  BY <1>1, <1>3, <1>4 DEF IInv, TurnInv, ShownInv, NothingLost, KeptInv, CartIsWhatSessionKnows, MartInv,
        CapInv, Active

LEMMA NextInv == IInv /\ [Next]_vars => IInv'
<1> SUFFICES ASSUME IInv, [Next]_vars PROVE IInv'
  OBVIOUS
<1>1. issued \subseteq Sessions /\ store \in [Sessions -> Session \cup {None}]
  BY DEF IInv, TypeOK
<1>2. ASSUME NEW t \in Turns, new_session(t) PROVE IInv'
  <2>1. NoSession \in Session
    BY DEF NoSession, Session
  <2> QED
    BY <1>2, <2>1, OpenKeeps DEF new_session
<1>3. ASSUME NEW t \in Turns, load_session(t) PROVE IInv'
  <2>1. PICK s \in issued : store[s] # None /\ Open(t, s, store[s])
    BY <1>3 DEF load_session
  <2> QED
    BY <1>1, <1>3, <2>1, OpenKeeps DEF load_session
<1>4. ASSUME NEW t \in Turns, Tool(t) PROVE IInv'
  BY <1>4, ToolsKeep
<1>5. ASSUME NEW t \in Turns, save_session(t) PROVE IInv'
  BY <1>5, EndKeeps DEF save_session
<1>6. ASSUME NEW t \in Turns, CutShort(t) PROVE IInv'
  BY <1>6, EndKeeps DEF CutShort
<1>7. ASSUME NEW s \in Sessions, Forget(s) PROVE IInv'
  BY <1>7, ForgetKeeps
<1>8. CASE UNCHANGED vars
  BY <1>8 DEF vars, account, IInv, TypeOK, TurnInv, ShownInv, Shown, MayShow, NothingLost, KeptInv, Safe, Active,
        CartIsWhatSessionKnows, Undisturbed, MartInv, CapInv
<1> QED
  BY <1>2, <1>3, <1>4, <1>5, <1>6, <1>7, <1>8 DEF Next

\* The inductive invariant: the types; what Redis and the turns show was
\* placed; nothing that a turn has to keep is missing from its copy; Redis
\* knows the Instamart cart between the turns of the session that set it.
THEOREM Invariance == Spec => []IInv
  BY InitInv, NextInv, PTL DEF Spec

\* What a session shows by an id, in Redis or in a turn's memory, its own turns
\* have placed, and an answer has named it; a food or supplies order it shows
\* without one was answered without one, and may have been refused, or was noted
\* for want of staging.
THEOREM SessionsShowTheirOwn == Spec => []NothingFabricated
<1>1. IInv => NothingFabricated
  BY DEF IInv, TypeOK, ShownInv, Shown, NothingFabricated, Copies
<1> QED
  BY <1>1, Invariance, PTL

\* Redis keeps what the answers of every turn that has saved and was alone named.
THEOREM SavedOrdersStay == Spec => []NothingLost
<1>1. IInv => NothingLost
  BY DEF IInv
<1> QED
  BY <1>1, Invariance, PTL

\* What an undisturbed session takes the Instamart cart to hold is in it, while
\* its last update is that session's.
THEOREM CartIsKnown == Spec => []CartIsWhatSessionKnows
<1>1. IInv => CartIsWhatSessionKnows
  BY DEF IInv
<1> QED
  BY <1>1, Invariance, PTL

\* An order over the cap was placed on a total that was not read, or on another
\* one than the cart had when it was ordered.
THEOREM BreachesAreExplained == Spec => []CapBreachExplained
<1>1. IInv => CapBreachExplained
  <2> SUFFICES ASSUME IInv, NEW n \in DOMAIN placed, placed[n].kind = "food", placed[n].total > Cap,
                      placed[n].read = placed[n].total
               PROVE  FALSE
    BY DEF CapBreachExplained
  <2>1. placed[n] \in Placed
    BY DEF IInv, TypeOK
  <2>2. placed[n].read # None /\ placed[n].total \in Nat
    BY <2>1, NoneAssumption DEF Placed
  <2>3. placed[n].read <= Cap
    BY <2>2 DEF IInv, CapInv
  <2> QED
    BY <2>2, <2>3, TotalsAssumption
<1> QED
  BY <1>1, Invariance, PTL
=============================================================================
