----------------------- MODULE WorkflowTriggersProofs -----------------------
(***************************************************************************)
(* Proofs, for any number of runs, plans and ingredients, that at most one *)
(* overstock warning and one pricing review are pending, that what is      *)
(* raised twice has an overlap or a failure for its cause, and that        *)
(* nothing is missed.                                                      *)
(***************************************************************************)
EXTENDS WorkflowTriggers, TLAPS

\* Nothing is evaluated before the first response.
LEMMA InitCheck == Init => CheckInv
<1> SUFFICES ASSUME Init PROVE CheckInv
  OBVIOUS
<1>1. TypeOK
  BY DEF Init, TypeOK, Evaluation, Stages, Plan, NoPlan
<1> QED
  BY <1>1 DEF Init, CheckInv, LoopInv, ClearInv, OnePending, Started, Stages, Ended

\* An evaluation's step: r has the loop or takes it up while it is free, no
\* other evaluation changes, and r gives the loop up only to wait or to end.
LEMMA StepMoves ==
    ASSUME CheckInv, NEW r \in Runs,
           loop \in {r, Free},
           run' \in [Runs -> Evaluation],
           \A s \in Runs \ {r} : run'[s] = run[s],
           \/ loop' = r
           \/ loop' = Free /\ run'[r].at \notin Started \ {"asking"}
    PROVE  LoopInv'
<1> SUFFICES ASSUME NEW s \in Runs, run'[s].at \in Started \ {"asking"}
             PROVE  loop' = s
  BY DEF LoopInv
<1>1. CASE s = r
  BY <1>1
<1>2. CASE s # r
  <2>1. run[s].at \in Started \ {"asking"}
    BY <1>2
  <2>2. loop = s
    BY <2>1 DEF CheckInv, LoopInv
  <2> QED
    BY <1>2, <2>2, DistinctAssumption
<1> QED
  BY <1>1, <1>2

\* The rows stay, and r does not pass a check: nothing is disturbed.
LEMMA NothingCreated ==
    ASSUME CheckInv, UNCHANGED pending,
           \A s \in Runs :
               \/ run'[s].at = run[s].at
               \/ run'[s].at \notin {"overstock clear", "pricing clear"}
               \/ run'[s].at = "overstock clear" /\ ~HasPending(Overstock)
               \/ run'[s].at = "pricing clear" /\ ~HasPending(Pricing)
    PROVE  ClearInv' /\ OnePending'
BY DEF CheckInv, ClearInv, OnePending, HasPending, Overstock, Pricing

\* A row that is neither an overstock warning nor a pricing review disturbs no
\* check.
LEMMA OtherCreated ==
    ASSUME CheckInv, NEW row \in Row, row.category \notin {Overstock, Pricing},
           pending' = pending \cup {row},
           \A s \in Runs : \/ run'[s].at = run[s].at
                           \/ run'[s].at \notin {"overstock clear", "pricing clear"}
    PROVE  ClearInv' /\ OnePending'
BY DEF CheckInv, ClearInv, OnePending, HasPending, Overstock, Pricing

\* A row of a category of which none is pending, created by the evaluation
\* that has the loop: no other evaluation is past a check.
LEMMA ClearCreated ==
    ASSUME CheckInv, NEW r \in Runs, loop = r,
           NEW c \in {Overstock, Pricing}, ~HasPending(c),
           pending' = pending \cup {RowOf(c, r)},
           \A s \in Runs \ {r} : run'[s] = run[s],
           run'[r].at \notin {"overstock clear", "pricing clear"}
    PROVE  ClearInv' /\ OnePending'
<1>1. \A s \in Runs : run'[s].at \notin {"overstock clear", "pricing clear"}
  <2> SUFFICES ASSUME NEW s \in Runs, s # r
               PROVE  run[s].at \notin {"overstock clear", "pricing clear"}
    OBVIOUS
  <2> QED
    BY DEF CheckInv, LoopInv, Started, Stages, Ended
<1>2. ClearInv'
  BY <1>1 DEF ClearInv
<1>3. RowOf(c, r).category = c
  BY DEF RowOf
<1>4. OnePending'
  <2> SUFFICES ASSUME NEW d \in {Overstock, Pricing}, NEW x \in pending', NEW y \in pending',
                      x.category = d, y.category = d
               PROVE  x = y
    BY DEF OnePending
  <2>1. CASE d = c
    BY <2>1 DEF HasPending
  <2>2. CASE d # c
    BY <1>3, <2>2 DEF CheckInv, OnePending
  <2> QED
    BY <2>1, <2>2
<1> QED
  BY <1>2, <1>4

\* The beginning of an evaluation.
LEMMA BeginCheck ==
    ASSUME CheckInv, NEW r \in Runs, NEW plan \in Plans, Begin(r, plan)
    PROVE  CheckInv'
<1>1. /\ run[r].at = "waiting" /\ loop = Free /\ loop' = r
      /\ UNCHANGED <<pending, decided>>
      /\ run' = [run EXCEPT
            ![r].at = IF ~HasPending(Restock) /\ Cardinality(plan.critical) >= 2
                      THEN "shortages" ELSE "overstock",
            ![r].plan = plan,
            ![r].todo = IF ~HasPending(Restock) /\ Cardinality(plan.critical) >= 2
                        THEN plan.critical ELSE {},
            ![r].saw = IF HasPending(Restock) THEN {Restock} ELSE {}]
      /\ overlaps' \in {overlaps, overlaps \cup {{r, s} : s \in {q \in Runs : run[q].at = "asking"}}}
  BY DEF Begin
<1>2. plan \in Plan /\ plan.critical \in SUBSET Ingredients
  BY InputAssumption DEF Plan
<1>3. run \in [Runs -> Evaluation]
  BY DEF CheckInv, TypeOK
<1>4. /\ run' \in [Runs -> Evaluation]
      /\ run'[r].at \in {"shortages", "overstock"}
      /\ \A s \in Runs \ {r} : run'[s] = run[s]
  <2> DEFINE stage == IF ~HasPending(Restock) /\ Cardinality(plan.critical) >= 2
                      THEN "shortages" ELSE "overstock"
             shortages == IF ~HasPending(Restock) /\ Cardinality(plan.critical) >= 2
                          THEN plan.critical ELSE {}
             seen == IF HasPending(Restock) THEN {Restock} ELSE {}
  <2>1. run' = [run EXCEPT ![r].at = stage, ![r].plan = plan, ![r].todo = shortages,
                           ![r].saw = seen]
    BY <1>1
  <2>2. /\ stage \in Stages /\ stage \in {"shortages", "overstock"}
        /\ shortages \in SUBSET Ingredients
        /\ seen \in SUBSET Categories
    BY <1>2 DEF Stages, Categories
  <2> HIDE DEF stage, shortages, seen
  <2> DEFINE e == [run[r] EXCEPT !.at = stage, !.plan = plan, !.todo = shortages, !.saw = seen]
  <2>3. e \in Evaluation /\ e.at = stage
    BY <1>2, <1>3, <2>2 DEF Evaluation
  <2>4. run' = [run EXCEPT ![r] = e]
    BY <1>3, <2>1
  <2> HIDE DEF e
  <2> QED
    BY <1>3, <2>2, <2>3, <2>4
<1>5. TypeOK'
  BY <1>1, <1>4 DEF CheckInv, TypeOK
<1>6. LoopInv'
  BY <1>1, <1>4, StepMoves
<1>7. ClearInv' /\ OnePending'
  BY <1>1, <1>4, NothingCreated
<1> QED
  BY <1>5, <1>6, <1>7 DEF CheckInv

\* A step of the evaluation that has the loop, or takes it up.
LEMMA StepCheck ==
    ASSUME CheckInv, NEW r \in Runs, Step(r)
    PROVE  CheckInv'
<1>1. run \in [Runs -> Evaluation] /\ run[r] \in Evaluation /\ pending \subseteq Row
  BY DEF CheckInv, TypeOK
<1>2. /\ Restock \in Categories /\ Overstock \in Categories /\ Pricing \in Categories
      /\ Draft \in Categories
      /\ Restock \notin {Overstock, Pricing} /\ Draft \notin {Overstock, Pricing}
  BY DEF Categories, Restock, Draft, Overstock, Pricing
<1>3. \A c \in Categories : RowOf(c, r) \in Row /\ RowOf(c, r).category = c
  BY DEF Row, RowOf
<1>4. ASSUME NEW i \in Ingredients, FindNoVendor(r, i) PROVE CheckInv'
  <2>1. run' \in [Runs -> Evaluation] /\ run'[r].at = "shortages" /\ run[r].at = "shortages"
        /\ (\A s \in Runs \ {r} : run'[s] = run[s])
    BY <1>1, <1>4 DEF FindNoVendor, Evaluation
  <2>2. TypeOK'
    BY <2>1, <1>4 DEF FindNoVendor, CheckInv, TypeOK
  <2> QED
    BY <2>1, <2>2, <1>4, StepMoves, NothingCreated DEF FindNoVendor, CheckInv
<1>5. ASSUME NEW i \in Ingredients, AskLLM(r, i) PROVE CheckInv'
  <2>1. run' \in [Runs -> Evaluation] /\ run'[r].at = "asking"
        /\ (\A s \in Runs \ {r} : run'[s] = run[s])
    BY <1>1, <1>5 DEF AskLLM, Evaluation, Stages
  <2>2. TypeOK'
    BY <2>1, <1>5 DEF AskLLM, CheckInv, TypeOK
  <2> QED
    BY <2>1, <2>2, <1>5, StepMoves, NothingCreated DEF AskLLM, CheckInv
<1>6. ASSUME Answer(r) PROVE CheckInv'
  <2>1. run' \in [Runs -> Evaluation] /\ run'[r].at = "asked"
        /\ (\A s \in Runs \ {r} : run'[s] = run[s])
    BY <1>1, <1>6 DEF Answer, Evaluation, Stages
  <2>2. TypeOK'
    BY <2>1, <1>6 DEF Answer, CheckInv, TypeOK
  <2> QED
    BY <2>1, <2>2, <1>6, StepMoves, NothingCreated DEF Answer, CheckInv
<1>7. ASSUME CreateDraft(r) PROVE CheckInv'
  <2>1. run' \in [Runs -> Evaluation] /\ run'[r].at = "shortages"
        /\ (\A s \in Runs \ {r} : run'[s] = run[s])
    BY <1>1, <1>7 DEF CreateDraft, Evaluation, Stages
  <2>2. /\ DraftOf(run[r].item, r) \in Row
        /\ DraftOf(run[r].item, r).category \notin {Overstock, Pricing}
    BY <1>1, <1>2 DEF DraftOf, Row, Evaluation
  <2>3. TypeOK'
    BY <2>1, <2>2, <1>7 DEF CreateDraft, CreateAction, CheckInv, TypeOK
  <2>4. ClearInv' /\ OnePending'
    BY <2>1, <2>2, <1>7, OtherCreated DEF CreateDraft, CreateAction
  <2> QED
    BY <2>1, <2>3, <2>4, <1>7, StepMoves DEF CreateDraft, CheckInv
<1>8. ASSUME CreateAlert(r) PROVE CheckInv'
  <2>1. run' \in [Runs -> Evaluation] /\ run'[r].at = "overstock"
        /\ (\A s \in Runs \ {r} : run'[s] = run[s])
    BY <1>1, <1>8 DEF CreateAlert, Evaluation, Stages
  <2>2. TypeOK'
    BY <2>1, <1>2, <1>3, <1>8 DEF CreateAlert, CreateAction, CheckInv, TypeOK
  <2>3. ClearInv' /\ OnePending'
    BY <2>1, <1>2, <1>3, <1>8, OtherCreated DEF CreateAlert, CreateAction
  <2> QED
    BY <2>1, <2>2, <2>3, <1>8, StepMoves DEF CreateAlert, CheckInv
<1>9. ASSUME CheckOverstock(r) PROVE CheckInv'
  <2>1. /\ run' \in [Runs -> Evaluation]
        /\ run'[r].at \in {"overstock clear", "pricing"}
        /\ run'[r].at = "overstock clear" => ~HasPending(Overstock)
        /\ \A s \in Runs \ {r} : run'[s] = run[s]
    BY <1>1, <1>2, <1>9 DEF CheckOverstock, Evaluation, Stages
  <2>2. TypeOK'
    <3>1. loop' \in {loop, Free} /\ UNCHANGED <<pending, decided, overlaps>>
      BY <1>9 DEF CheckOverstock
    <3>2. run' \in [Runs -> Evaluation]
      BY <2>1
    <3>3. loop' \in Runs \cup {Free}
      BY <3>1 DEF CheckInv, TypeOK
    <3> QED
      BY <3>1, <3>2, <3>3 DEF CheckInv, TypeOK
  <2> QED
    BY <2>1, <2>2, <1>9, StepMoves, NothingCreated DEF CheckOverstock, CheckInv
<1>10. ASSUME CreateOverstock(r) PROVE CheckInv'
  <2>1. run' \in [Runs -> Evaluation] /\ run'[r].at = "pricing"
        /\ (\A s \in Runs \ {r} : run'[s] = run[s])
    BY <1>1, <1>10 DEF CreateOverstock, Evaluation, Stages
  <2>2. TypeOK'
    <3>1. /\ loop' \in {loop, Free} /\ UNCHANGED <<decided, overlaps>>
          /\ pending' = pending \cup {RowOf(Overstock, r)}
      BY <1>10 DEF CreateOverstock, CreateAction
    <3>2. RowOf(Overstock, r) \in Row
      BY <1>2, <1>3
    <3> QED
      BY <2>1, <3>1, <3>2 DEF CheckInv, TypeOK
  <2>3. loop = r /\ ~HasPending(Overstock)
    BY <1>10 DEF CreateOverstock, CheckInv, ClearInv
  <2>4. ClearInv' /\ OnePending'
    BY <2>1, <2>3, <1>10, ClearCreated DEF CreateOverstock, CreateAction
  <2> QED
    BY <2>1, <2>2, <2>4, <1>10, StepMoves DEF CreateOverstock, CheckInv
<1>11. ASSUME CheckPricing(r) PROVE CheckInv'
  <2>1. /\ run' \in [Runs -> Evaluation]
        /\ \/ run'[r].at = "pricing clear" /\ ~HasPending(Pricing) /\ loop' = r
           \/ run'[r].at = "done" /\ loop' = Free
        /\ \A s \in Runs \ {r} : run'[s] = run[s]
    BY <1>1, <1>2, <1>11 DEF CheckPricing, Evaluation, Stages
  <2>2. TypeOK'
    <3>1. loop' \in {loop, Free} /\ UNCHANGED <<pending, decided, overlaps>>
      BY <1>11 DEF CheckPricing
    <3>2. run' \in [Runs -> Evaluation]
      BY <2>1
    <3>3. loop' \in Runs \cup {Free}
      BY <3>1 DEF CheckInv, TypeOK
    <3> QED
      BY <3>1, <3>2, <3>3 DEF CheckInv, TypeOK
  <2>3. LoopInv'
    BY <2>1, <1>11, StepMoves DEF CheckPricing, Started, Ended
  <2> QED
    BY <2>1, <2>2, <2>3, <1>11, NothingCreated DEF CheckPricing, CheckInv
<1>12. ASSUME CreatePricing(r) PROVE CheckInv'
  <2>1. run' \in [Runs -> Evaluation] /\ run'[r].at = "done"
        /\ (\A s \in Runs \ {r} : run'[s] = run[s])
    BY <1>1, <1>12 DEF CreatePricing, Evaluation, Stages
  <2>2. TypeOK'
    <3>1. /\ loop' \in {loop, Free} /\ UNCHANGED <<decided, overlaps>>
          /\ pending' = pending \cup {RowOf(Pricing, r)}
      BY <1>12 DEF CreatePricing, CreateAction
    <3>2. RowOf(Pricing, r) \in Row
      BY <1>2, <1>3
    <3> QED
      BY <2>1, <3>1, <3>2 DEF CheckInv, TypeOK
  <2>3. loop = r /\ ~HasPending(Pricing)
    BY <1>12 DEF CreatePricing, CheckInv, ClearInv
  <2>4. ClearInv' /\ OnePending'
    BY <2>1, <2>3, <1>12, ClearCreated DEF CreatePricing, CreateAction
  <2>5. LoopInv'
    BY <2>1, <1>12, StepMoves DEF CreatePricing, Started, Ended
  <2> QED
    BY <2>2, <2>4, <2>5 DEF CheckInv
<1> QED
  BY <1>4, <1>5, <1>6, <1>7, <1>8, <1>9, <1>10, <1>11, <1>12 DEF Step

\* A failed evaluation gives the loop up.
LEMMA FailCheck ==
    ASSUME CheckInv, NEW r \in Runs, Fail(r)
    PROVE  CheckInv'
<1>1. run' \in [Runs -> Evaluation] /\ run'[r].at = "failed"
      /\ (\A s \in Runs \ {r} : run'[s] = run[s])
  <2>1. run \in [Runs -> Evaluation] /\ run' = [run EXCEPT ![r].at = "failed"]
    BY DEF Fail, CheckInv, TypeOK
  <2> QED
    BY <2>1 DEF Evaluation, Stages
<1>2. TypeOK'
  BY <1>1 DEF Fail, CheckInv, TypeOK
<1>3. LoopInv'
  BY <1>1, StepMoves DEF Fail, Started, Ended
<1> QED
  BY <1>1, <1>2, <1>3, NothingCreated DEF Fail, CheckInv

\* After a crash no evaluation is at work.
LEMMA CrashCheck == CheckInv /\ Crash => CheckInv'
<1> SUFFICES ASSUME CheckInv, Crash PROVE CheckInv'
  OBVIOUS
<1>1. /\ run' \in [Runs -> Evaluation]
      /\ \A s \in Runs : \/ run'[s].at = run[s].at /\ run[s].at \notin Started
                         \/ run'[s].at = "failed"
  <2>1. run \in [Runs -> Evaluation]
    BY DEF CheckInv, TypeOK
  <2>2. run' = [r \in Runs |-> IF run[r].at \in Started THEN [run[r] EXCEPT !.at = "failed"]
                               ELSE run[r]]
    BY DEF Crash
  <2>3. \A e \in Evaluation : /\ [e EXCEPT !.at = "failed"] \in Evaluation
                              /\ [e EXCEPT !.at = "failed"].at = "failed"
    BY DEF Evaluation, Stages
  <2> QED
    BY <2>1, <2>2, <2>3
<1>2. TypeOK'
  BY <1>1 DEF Crash, CheckInv, TypeOK
<1>3. LoopInv'
  BY <1>1 DEF LoopInv, Started, Ended
<1> QED
  BY <1>1, <1>2, <1>3, NothingCreated DEF Crash, CheckInv

\* A decision only removes a pending row, and an owner's draft is no alert.
LEMMA OwnerCheck ==
    ASSUME CheckInv, \/ \E row \in pending : Decide(row)
                 \/ \E i \in Picked : create_vendor_message(i)
    PROVE  CheckInv'
<1>1. ASSUME NEW row \in pending, Decide(row) PROVE CheckInv'
  <2>1. /\ pending' \subseteq pending /\ decided' = decided \cup {row}
        /\ UNCHANGED <<run, loop, overlaps>>
    BY <1>1 DEF Decide
  <2>2. TypeOK'
    BY <2>1 DEF CheckInv, TypeOK
  <2>3. LoopInv'
    BY <2>1 DEF CheckInv, LoopInv
  <2>4. ClearInv'
    BY <2>1 DEF CheckInv, ClearInv, HasPending
  <2>5. OnePending'
    BY <2>1 DEF CheckInv, OnePending
  <2> QED
    BY <2>2, <2>3, <2>4, <2>5 DEF CheckInv
<1>2. ASSUME NEW i \in Picked, create_vendor_message(i) PROVE CheckInv'
  <2>1. DraftOf(i, Owner) \in Row /\ DraftOf(i, Owner).category \notin {Overstock, Pricing}
    BY InputAssumption DEF DraftOf, Row, Categories, Draft, Overstock, Pricing
  <2>2. TypeOK' /\ LoopInv'
    BY <1>2, <2>1 DEF create_vendor_message, CreateAction, CheckInv, TypeOK, LoopInv
  <2>3. ClearInv' /\ OnePending'
    BY <1>2, <2>1, OtherCreated DEF create_vendor_message, CreateAction
  <2> QED
    BY <2>2, <2>3 DEF CheckInv
<1> QED
  BY <1>1, <1>2

LEMMA NextCheck == CheckInv /\ [Next]_vars => CheckInv'
<1>1. ASSUME CheckInv, UNCHANGED vars PROVE CheckInv'
  <2>1. TypeOK'
    BY <1>1 DEF vars, CheckInv, TypeOK
  <2>2. LoopInv'
    BY <1>1 DEF vars, CheckInv, LoopInv
  <2>3. ClearInv' /\ OnePending'
    BY <1>1, NothingCreated DEF vars
  <2> QED
    BY <2>1, <2>2, <2>3 DEF CheckInv
<1> QED
  BY <1>1, BeginCheck, StepCheck, FailCheck, CrashCheck, OwnerCheck DEF Next

-----------------------------------------------------------------------------
(* The history *)

\* Rows tell runs and ingredients apart.
LEMMA RowsDiffer ==
    /\ \A c, d, r, s : RowOf(c, r) = RowOf(d, s) => c = d /\ r = s
    /\ \A i, j, r, s : DraftOf(i, r) = DraftOf(j, s) => i = j /\ r = s
    /\ \A i \in Ingredients : \A c, r, s : RowOf(c, r) # DraftOf(i, s)
<1>1. \A c, d, r, s : RowOf(c, r) = RowOf(d, s) => c = d /\ r = s
  <2> SUFFICES ASSUME NEW c, NEW d, NEW r, NEW s, RowOf(c, r) = RowOf(d, s)
               PROVE  c = d /\ r = s
    OBVIOUS
  <2>1. RowOf(c, r).category = c /\ RowOf(c, r).by = r
    BY DEF RowOf
  <2>2. RowOf(d, s).category = d /\ RowOf(d, s).by = s
    BY DEF RowOf
  <2> QED
    BY <2>1, <2>2
<1>2. \A i, j, r, s : DraftOf(i, r) = DraftOf(j, s) => i = j /\ r = s
  <2> SUFFICES ASSUME NEW i, NEW j, NEW r, NEW s, DraftOf(i, r) = DraftOf(j, s)
               PROVE  i = j /\ r = s
    OBVIOUS
  <2>1. DraftOf(i, r).ingredient = i /\ DraftOf(i, r).by = r
    BY DEF DraftOf
  <2>2. DraftOf(j, s).ingredient = j /\ DraftOf(j, s).by = s
    BY DEF DraftOf
  <2> QED
    BY <2>1, <2>2
<1>3. \A i \in Ingredients : \A c, r, s : RowOf(c, r) # DraftOf(i, s)
  <2> SUFFICES ASSUME NEW i \in Ingredients, NEW c, NEW r, NEW s, RowOf(c, r) = DraftOf(i, s)
               PROVE  FALSE
    OBVIOUS
  <2>1. RowOf(c, r).ingredient = NoIngredient /\ DraftOf(i, s).ingredient = i
    BY DEF RowOf, DraftOf
  <2> QED
    BY <2>1, DistinctAssumption
<1> QED
  BY <1>1, <1>2, <1>3

\* How two pending drafts of runs r and s are explained.
Explained(r, s) ==
    \/ {r, s} \in overlaps
    \/ \E q \in {r, s} : run[q].at = "failed" /\ RowOf(Restock, q) \notin Rows
    \/ \E q \in {r, s} : RowOf(Restock, q) \in decided

\* A step of one evaluation: it creates rows of its own only, an alert and drafts
\* only while it handles shortages, which it begins to do when no alert is
\* pending and marks those that do so already.
LEMMA StepHistory ==
    ASSUME HistoryInv, NEW r \in Runs, \A s \in Runs \ {r} : run'[s] = run[s],
           overlaps \subseteq overlaps', pending \subseteq pending', decided' = decided,
           \A s \in Runs \ {r} : \A c : RowOf(c, s) \in pending' => RowOf(c, s) \in pending,
           \A s \in Runs \ {r} : \A i \in Ingredients :
                DraftOf(i, s) \in pending' => DraftOf(i, s) \in pending,
           run'[r].at \in Handling =>
                \/ run[r].at \in Handling
                \/ \A s \in Runs \ {r} : /\ RowOf(Restock, s) \notin pending
                                         /\ run[s].at \in Handling => {r, s} \in overlaps',
           RowOf(Restock, r) \in pending' => RowOf(Restock, r) \in pending \/ run[r].at \in Handling,
           \A i \in Ingredients :
                DraftOf(i, r) \in pending' => DraftOf(i, r) \in pending \/ run[r].at \in Handling,
           run[r].at = "failed" => run'[r].at = "failed" /\ pending' = pending,
           Drafted(run'[r], r, pending' \cup decided'), Raised(run'[r], r, pending' \cup decided')
    PROVE  HistoryInv'
<1> USE DEF Rows
<1>1. \A s \in Runs : Drafted(run[s], s, Rows) /\ Raised(run[s], s, Rows)
  BY DEF HistoryInv
<1>2. \A s \in Runs \ {r} : \A c : RowOf(c, s) \in Rows' <=> RowOf(c, s) \in Rows
  OBVIOUS
<1>3. \A s \in Runs \ {r} : \A i \in Ingredients : DraftOf(i, s) \in Rows' <=> DraftOf(i, s) \in Rows
  OBVIOUS
<1>4. \A s \in Runs : Drafted(run'[s], s, Rows')
  BY <1>1, <1>2, <1>3 DEF Drafted
<1>5. \A s \in Runs : Raised(run'[s], s, Rows')
  BY <1>1, <1>2 DEF Raised
<1>6. OverlapInv'
  BY DEF HistoryInv, OverlapInv
<1>7. RestockDuplicatesOverlap'
  BY DEF HistoryInv, OverlapInv, RestockDuplicatesOverlap
<1>8. RepeatedDraftsExplained'
  <2>1. \A s, u \in Runs : Explained(s, u) => Explained(s, u)'
    BY <1>2 DEF Explained
  <2>2. ASSUME NEW u \in Runs \ {r}, NEW i \in Ingredients, DraftOf(i, u) \in pending,
               run[r].at \in Handling
        PROVE  Explained(r, u)
    <3>1. run[u].at \in Handling \cup {"failed"} \/ RowOf(Restock, u) \in Rows
      BY <1>1, <2>2 DEF Drafted
    <3>2. run[u].at \in Handling \/ RowOf(Restock, u) \in pending => {r, u} \in overlaps
      BY <2>2 DEF HistoryInv, OverlapInv
    <3> QED
      BY <3>1, <3>2 DEF Explained
  <2>3. ASSUME NEW s \in Runs, NEW u \in Runs, s # u, NEW i \in Ingredients,
               DraftOf(i, s) \in pending', DraftOf(i, u) \in pending'
        PROVE  Explained(s, u)
    <3>1. CASE DraftOf(i, s) \in pending /\ DraftOf(i, u) \in pending
      BY <2>3, <3>1 DEF HistoryInv, RepeatedDraftsExplained, Explained
    <3>2. CASE DraftOf(i, s) \notin pending
      <4>1. s = r /\ run[r].at \in Handling /\ DraftOf(i, u) \in pending
        BY <2>3, <3>2
      <4> QED
        BY <2>2, <2>3, <4>1
    <3>3. CASE DraftOf(i, u) \notin pending
      <4>1. u = r /\ run[r].at \in Handling /\ DraftOf(i, s) \in pending
        BY <2>3, <3>3
      <4>2. Explained(r, s)
        BY <2>2, <2>3, <4>1
      <4> QED
        BY <4>1, <4>2 DEF Explained
    <3> QED
      BY <3>1, <3>2, <3>3
  <2> QED
    BY <2>1, <2>3 DEF RepeatedDraftsExplained, Explained
<1> QED
  BY <1>4, <1>5, <1>6, <1>7, <1>8 DEF HistoryInv

\* What a step leaves as it was: the runs other than r, and, when it creates
\* nothing, the rows.
LEMMA QuietHistory ==
    ASSUME HistoryInv, NEW r \in Runs, \A s \in Runs \ {r} : run'[s] = run[s],
           overlaps \subseteq overlaps', UNCHANGED <<pending, decided>>,
           run'[r].at \in Handling =>
                \/ run[r].at \in Handling
                \/ \A s \in Runs \ {r} : /\ RowOf(Restock, s) \notin pending
                                         /\ run[s].at \in Handling => {r, s} \in overlaps',
           run[r].at = "failed" => run'[r].at = "failed",
           Drafted(run'[r], r, Rows), Raised(run'[r], r, Rows)
    PROVE  HistoryInv'
BY StepHistory DEF Rows

LEMMA BeginHistory ==
    ASSUME CheckInv, HistoryInv, NEW r \in Runs, NEW plan \in Plans, Begin(r, plan)
    PROVE  HistoryInv'
<1> DEFINE raise == ~HasPending(Restock) /\ Cardinality(plan.critical) >= 2
           e == [run[r] EXCEPT !.at = IF raise THEN "shortages" ELSE "overstock", !.plan = plan,
                               !.todo = IF raise THEN plan.critical ELSE {},
                               !.saw = IF HasPending(Restock) THEN {Restock} ELSE {}]
<1>1. run \in [Runs -> Evaluation] /\ run[r] \in Evaluation
  BY DEF CheckInv, TypeOK
<1>2. /\ e.at = IF raise THEN "shortages" ELSE "overstock"
      /\ e.plan = plan /\ e.reachable = run[r].reachable
      /\ e.saw = IF HasPending(Restock) THEN {Restock} ELSE {}
  BY <1>1 DEF Evaluation
<1>3. /\ run[r].at = "waiting" /\ loop = Free /\ UNCHANGED <<pending, decided>>
      /\ run' = [run EXCEPT ![r] = e]
      /\ overlaps' = IF raise
                     THEN overlaps \cup {{r, s} : s \in {q \in Runs : run[q].at = "asking"}}
                     ELSE overlaps
  BY <1>1 DEF Begin, Evaluation
<1> HIDE DEF e
<1>4. run'[r] = e /\ \A s \in Runs \ {r} : run'[s] = run[s]
  BY <1>1, <1>3
<1>5. \A s \in Runs : run[s].at \in Handling => run[s].at = "asking"
  BY <1>3, DistinctAssumption DEF CheckInv, LoopInv, Handling, Started, Stages, Ended
<1>6. /\ Drafted(run[r], r, Rows) /\ Raised(run[r], r, Rows)
  BY DEF HistoryInv
<1>7. /\ run[r].reachable = {} /\ RowOf(Restock, r) \notin Rows
      /\ \A i \in Ingredients : DraftOf(i, r) \notin Rows
  BY <1>3, <1>6 DEF Drafted, Past, Handling
<1>8. Drafted(e, r, Rows)
  BY <1>2, <1>7 DEF Drafted, Handling, Past
<1>9. Raised(e, r, Rows)
  <2>1. Restock \in e.saw \/ ~(e.at \in Past /\ Cardinality(e.plan.critical) >= 2)
    BY <1>2 DEF Past
  <2>2. e.at \notin {"pricing", "pricing clear", "done"}
    BY <1>2
  <2> QED
    BY <2>1, <2>2 DEF Raised
<1>10. raise => \A s : RowOf(Restock, s) \notin pending
  BY DEF HasPending, RowOf
<1>11. e.at \in Handling => \A s \in Runs \ {r} :
            /\ RowOf(Restock, s) \notin pending
            /\ run[s].at \in Handling => {r, s} \in overlaps'
  <2>1. e.at \in Handling => raise
    BY <1>2 DEF Handling
  <2> HIDE DEF raise
  <2> QED
    BY <1>3, <1>5, <1>10, <2>1
<1> HIDE DEF raise
<1> QED
  BY <1>3, <1>4, <1>8, <1>9, <1>11, QuietHistory

\* The steps of an evaluation that create no row.
LEMMA ReadHistory ==
    ASSUME CheckInv, HistoryInv, NEW r \in Runs,
           \/ \E i \in Ingredients : FindNoVendor(r, i) \/ AskLLM(r, i)
           \/ Answer(r) \/ CheckOverstock(r) \/ CheckPricing(r) \/ Fail(r)
    PROVE  HistoryInv'
<1>1. run \in [Runs -> Evaluation] /\ run[r] \in Evaluation
  BY DEF CheckInv, TypeOK
<1>2. Drafted(run[r], r, Rows) /\ Raised(run[r], r, Rows)
  BY DEF HistoryInv
<1>3. ASSUME NEW i \in Ingredients, FindNoVendor(r, i) PROVE HistoryInv'
  <2> DEFINE e == [run[r] EXCEPT !.todo = @ \ {i}]
  <2>1. /\ e.at = run[r].at /\ e.reachable = run[r].reachable /\ e.item = run[r].item
        /\ e.saw = run[r].saw /\ e.plan = run[r].plan
    BY <1>1 DEF Evaluation
  <2>2. /\ run' = [run EXCEPT ![r] = e] /\ run[r].at = "shortages"
        /\ UNCHANGED <<pending, decided, overlaps>>
    BY <1>1, <1>3 DEF FindNoVendor, Evaluation
  <2> HIDE DEF e
  <2>3. run'[r] = e /\ \A s \in Runs \ {r} : run'[s] = run[s]
    BY <1>1, <2>2
  <2>4. Drafted(e, r, Rows) /\ Raised(e, r, Rows)
    BY <1>2, <2>1 DEF Drafted, Raised
  <2> QED
    BY <2>1, <2>2, <2>3, <2>4, QuietHistory
<1>4. ASSUME NEW i \in Ingredients, AskLLM(r, i) PROVE HistoryInv'
  <2> DEFINE e == [run[r] EXCEPT !.at = "asking", !.item = i, !.reachable = @ \cup {i}]
  <2>1. /\ e.at = "asking" /\ e.reachable = run[r].reachable \cup {i} /\ e.item = i
        /\ e.saw = run[r].saw /\ e.plan = run[r].plan
    BY <1>1 DEF Evaluation
  <2>2. /\ run' = [run EXCEPT ![r] = e] /\ run[r].at = "shortages"
        /\ UNCHANGED <<pending, decided, overlaps>>
    BY <1>1, <1>4 DEF AskLLM, Evaluation
  <2> HIDE DEF e
  <2>3. run'[r] = e /\ \A s \in Runs \ {r} : run'[s] = run[s]
    BY <1>1, <2>2
  <2>4. Drafted(e, r, Rows) /\ Raised(e, r, Rows)
    BY <1>2, <2>1, <2>2 DEF Drafted, Raised, Handling, Past
  <2> QED
    BY <2>1, <2>2, <2>3, <2>4, QuietHistory DEF Handling
<1>5. ASSUME Answer(r) PROVE HistoryInv'
  <2> DEFINE e == [run[r] EXCEPT !.at = "asked"]
  <2>1. /\ e.at = "asked" /\ e.reachable = run[r].reachable /\ e.item = run[r].item
        /\ e.saw = run[r].saw /\ e.plan = run[r].plan
    BY <1>1 DEF Evaluation
  <2>2. /\ run' = [run EXCEPT ![r] = e] /\ run[r].at = "asking"
        /\ UNCHANGED <<pending, decided, overlaps>>
    BY <1>1, <1>5 DEF Answer, Evaluation
  <2> HIDE DEF e
  <2>3. run'[r] = e /\ \A s \in Runs \ {r} : run'[s] = run[s]
    BY <1>1, <2>2
  <2>4. Drafted(e, r, Rows) /\ Raised(e, r, Rows)
    BY <1>2, <2>1, <2>2 DEF Drafted, Raised, Handling, Past
  <2> QED
    BY <2>1, <2>2, <2>3, <2>4, QuietHistory DEF Handling
<1>6. ASSUME CheckOverstock(r) PROVE HistoryInv'
  <2> DEFINE e == [run[r] EXCEPT !.at = IF ~HasPending(Overstock) /\ run[r].plan.spoiling
                                        THEN "overstock clear" ELSE "pricing",
                                 !.saw = IF HasPending(Overstock) THEN @ \cup {Overstock} ELSE @]
  <2>1. /\ e.at = IF ~HasPending(Overstock) /\ run[r].plan.spoiling THEN "overstock clear" ELSE "pricing"
        /\ e.reachable = run[r].reachable
        /\ e.saw = IF HasPending(Overstock) THEN run[r].saw \cup {Overstock} ELSE run[r].saw
        /\ e.plan = run[r].plan
    BY <1>1 DEF Evaluation
  <2>2. /\ run' = [run EXCEPT ![r] = e] /\ run[r].at = "overstock"
        /\ UNCHANGED <<pending, decided, overlaps>>
    BY <1>1, <1>6 DEF CheckOverstock, Evaluation
  <2> HIDE DEF e
  <2>3. run'[r] = e /\ \A s \in Runs \ {r} : run'[s] = run[s]
    BY <1>1, <2>2
  <2>4. Drafted(e, r, Rows)
    BY <1>2, <2>1, <2>2 DEF Drafted, Handling, Past
  <2>5. Raised(e, r, Rows)
    BY <1>2, <2>1, <2>2 DEF Raised, Past
  <2> QED
    BY <2>1, <2>2, <2>3, <2>4, <2>5, QuietHistory DEF Handling
<1>7. ASSUME CheckPricing(r) PROVE HistoryInv'
  <2> DEFINE raise == ~HasPending(Pricing) /\ run[r].plan.contested
             e == [run[r] EXCEPT !.at = IF raise THEN "pricing clear" ELSE "done",
                                 !.saw = IF HasPending(Pricing) THEN @ \cup {Pricing} ELSE @]
  <2>1. /\ e.at = IF raise THEN "pricing clear" ELSE "done"
        /\ e.reachable = run[r].reachable
        /\ e.saw = IF HasPending(Pricing) THEN run[r].saw \cup {Pricing} ELSE run[r].saw
        /\ e.plan = run[r].plan
    BY <1>1 DEF Evaluation
  <2>2. /\ run' = [run EXCEPT ![r] = e] /\ run[r].at = "pricing"
        /\ UNCHANGED <<pending, decided, overlaps>>
    BY <1>1, <1>7 DEF CheckPricing, Evaluation
  <2> HIDE DEF e
  <2>3. run'[r] = e /\ \A s \in Runs \ {r} : run'[s] = run[s]
    BY <1>1, <2>2
  <2>4. Drafted(e, r, Rows)
    BY <1>2, <2>1, <2>2 DEF Drafted, Handling, Past
  <2>5. Raised(e, r, Rows)
    BY <1>2, <2>1, <2>2 DEF Raised, Past
  <2> QED
    BY <2>1, <2>2, <2>3, <2>4, <2>5, QuietHistory DEF Handling
<1>8. ASSUME Fail(r) PROVE HistoryInv'
  <2> DEFINE e == [run[r] EXCEPT !.at = "failed"]
  <2>1. /\ e.at = "failed" /\ e.reachable = run[r].reachable /\ e.item = run[r].item
        /\ e.saw = run[r].saw /\ e.plan = run[r].plan
    BY <1>1 DEF Evaluation
  <2>2. run' = [run EXCEPT ![r] = e] /\ UNCHANGED <<pending, decided, overlaps>>
    BY <1>1, <1>8 DEF Fail, Evaluation
  <2> HIDE DEF e
  <2>3. run'[r] = e /\ \A s \in Runs \ {r} : run'[s] = run[s]
    BY <1>1, <2>2
  <2>4. Drafted(e, r, Rows) /\ Raised(e, r, Rows)
    BY <1>2, <2>1 DEF Drafted, Raised, Handling, Past
  <2> QED
    BY <2>1, <2>2, <2>3, <2>4, QuietHistory DEF Handling
<1> QED
  BY <1>3, <1>4, <1>5, <1>6, <1>7, <1>8

LEMMA CreateDraftHistory ==
    ASSUME CheckInv, HistoryInv, NEW r \in Runs, CreateDraft(r)
    PROVE  HistoryInv'
<1> DEFINE i == run[r].item
           e == [run[r] EXCEPT !.at = "shortages", !.todo = @ \ {i}, !.item = NoIngredient]
           rows == pending' \cup decided'
<1>1. run \in [Runs -> Evaluation] /\ run[r] \in Evaluation
  BY DEF CheckInv, TypeOK
<1>2. Drafted(run[r], r, Rows) /\ Raised(run[r], r, Rows)
  BY DEF HistoryInv
<1>3. /\ e.at = "shortages" /\ e.reachable = run[r].reachable /\ e.saw = run[r].saw
      /\ e.plan = run[r].plan /\ e.reachable \subseteq Ingredients
  BY <1>1 DEF Evaluation
<1>4. /\ run' = [run EXCEPT ![r] = e] /\ run[r].at = "asked" /\ UNCHANGED <<decided, overlaps>>
      /\ pending' = pending \cup {DraftOf(i, r)}
  BY <1>1 DEF CreateDraft, CreateAction, Evaluation
<1> HIDE DEF e
<1>5. run'[r] = e /\ \A s \in Runs \ {r} : run'[s] = run[s]
  BY <1>1, <1>4
<1>6. \A c, s : RowOf(c, s) \in pending' => RowOf(c, s) \in pending \/ c = Draft
  <2>1. RowOf(Draft, r).category = Draft /\ DraftOf(i, r).category = Draft
    BY DEF RowOf, DraftOf
  <2>2. \A c, s : RowOf(c, s).category = c
    BY DEF RowOf
  <2> QED
    BY <1>4, <2>1, <2>2
<1>7. Restock # Draft /\ Overstock # Draft /\ Pricing # Draft
  BY DEF Restock, Draft, Overstock, Pricing
<1>8. \A s \in Runs \ {r} : \A c : RowOf(c, s) \in pending' => RowOf(c, s) \in pending
  <2>1. \A c, s : RowOf(c, s).by = s
    BY DEF RowOf
  <2>2. DraftOf(i, r).by = r
    BY DEF DraftOf
  <2> QED
    BY <1>4, <2>1, <2>2
<1>9. \A s \in Runs \ {r} : \A j \in Ingredients : DraftOf(j, s) \in pending' => DraftOf(j, s) \in pending
  BY <1>4, RowsDiffer
<1>10. /\ RowOf(Restock, r) \in rows <=> RowOf(Restock, r) \in Rows
       /\ \A row \in Rows : row \in rows
       /\ DraftOf(i, r) \in rows
  BY <1>4, <1>6, <1>7 DEF Rows
<1> HIDE DEF rows
<1>11. Drafted(e, r, rows)
  <2>1. \A j \in e.reachable : DraftOf(j, r) \in rows
    BY <1>2, <1>3, <1>4, <1>10 DEF Drafted, Handling
  <2>2. RowOf(Restock, r) \notin rows
    BY <1>2, <1>4, <1>10 DEF Drafted, Past
  <2> QED
    BY <1>3, <2>1, <2>2 DEF Drafted, Past, Handling
<1>12. Raised(e, r, rows)
  BY <1>3 DEF Raised, Past
<1>13. run[r].at \in Handling /\ run[r].at # "failed"
  BY <1>4 DEF Handling
<1> QED
  BY <1>4, <1>5, <1>8, <1>9, <1>11, <1>12, <1>13, StepHistory DEF rows

\* A row that is about no ingredient: the rows of other runs, and all drafts, stay.
LEMMA RowCreated ==
    ASSUME NEW c, NEW r \in Runs, pending' = pending \cup {RowOf(c, r)}, UNCHANGED decided
    PROVE  /\ \A d, s : RowOf(d, s) \in pending' => RowOf(d, s) \in pending \/ (d = c /\ s = r)
           /\ \A d, s : RowOf(d, s) \in Rows' => RowOf(d, s) \in Rows \/ (d = c /\ s = r)
           /\ \A i \in Ingredients : \A s : DraftOf(i, s) \in pending' => DraftOf(i, s) \in pending
           /\ \A i \in Ingredients : \A s : DraftOf(i, s) \in Rows' <=> DraftOf(i, s) \in Rows
           /\ \A row \in Rows : row \in Rows'
           /\ RowOf(c, r) \in Rows'
BY RowsDiffer DEF Rows

LEMMA CreateRowHistory ==
    ASSUME CheckInv, HistoryInv, NEW r \in Runs,
           CreateAlert(r) \/ CreateOverstock(r) \/ CreatePricing(r)
    PROVE  HistoryInv'
<1>1. run \in [Runs -> Evaluation] /\ run[r] \in Evaluation
  BY DEF CheckInv, TypeOK
<1>2. Drafted(run[r], r, Rows) /\ Raised(run[r], r, Rows)
  BY DEF HistoryInv
<1>3. run[r].reachable \subseteq Ingredients
  BY <1>1 DEF Evaluation
<1>4. Restock # Overstock /\ Restock # Pricing /\ Overstock # Pricing
  BY DEF Restock, Overstock, Pricing
<1>5. ASSUME NEW c, NEW from \in Started, NEW to \in Past, run[r].at = from,
             \/ c = Restock /\ from = "shortages" /\ to = "overstock"
             \/ c = Overstock /\ from = "overstock clear" /\ to = "pricing"
             \/ c = Pricing /\ from = "pricing clear" /\ to = "done",
             pending' = pending \cup {RowOf(c, r)}, UNCHANGED <<decided, overlaps>>,
             run' = [run EXCEPT ![r].at = to]
      PROVE  HistoryInv'
  <2> DEFINE e == [run[r] EXCEPT !.at = to]
  <2>1. /\ e.at = to /\ e.reachable = run[r].reachable /\ e.item = run[r].item
        /\ e.saw = run[r].saw /\ e.plan = run[r].plan
    BY <1>1 DEF Evaluation
  <2>2. run' = [run EXCEPT ![r] = e]
    BY <1>1, <1>5 DEF Evaluation
  <2> HIDE DEF e
  <2>3. run'[r] = e /\ \A s \in Runs \ {r} : run'[s] = run[s]
    BY <1>1, <2>2
  <2>4. /\ \A d, s : RowOf(d, s) \in pending' => RowOf(d, s) \in pending \/ (d = c /\ s = r)
        /\ \A d, s : RowOf(d, s) \in Rows' => RowOf(d, s) \in Rows \/ (d = c /\ s = r)
        /\ \A i \in Ingredients : \A s : DraftOf(i, s) \in pending' => DraftOf(i, s) \in pending
        /\ \A i \in Ingredients : \A s : DraftOf(i, s) \in Rows' <=> DraftOf(i, s) \in Rows
        /\ \A row \in Rows : row \in Rows'
        /\ RowOf(c, r) \in Rows'
    BY <1>5, RowCreated
  <2>5. Drafted(e, r, Rows')
    <3>1. \A i \in e.reachable : DraftOf(i, r) \in Rows'
      BY <1>2, <1>3, <1>5, <2>1, <2>4 DEF Drafted, Handling, Past
    <3>2. e.at \in Past /\ e.at \notin Handling /\ e.at # "waiting"
      BY <1>5, <2>1 DEF Past, Handling
    <3>3. e.reachable # {} => RowOf(Restock, r) \in Rows'
      BY <1>2, <1>5, <2>1, <2>4 DEF Drafted, Past
    <3>4. \A i \in Ingredients : DraftOf(i, r) \in Rows' => RowOf(Restock, r) \in Rows'
      BY <1>2, <1>5, <2>4 DEF Drafted, Handling
    <3> QED
      BY <3>1, <3>2, <3>3, <3>4 DEF Drafted
  <2>6. Raised(e, r, Rows')
    <3>1. \A d : RowOf(d, r) \in Rows => RowOf(d, r) \in Rows'
      BY <2>4
    <3> QED
      BY <1>2, <1>5, <2>1, <2>4, <3>1 DEF Raised, Past
  <2>7. RowOf(Restock, r) \in pending' => RowOf(Restock, r) \in pending \/ run[r].at \in Handling
    BY <1>4, <1>5, <2>4 DEF Handling
  <2>8. run'[r].at \notin Handling /\ run[r].at # "failed"
    BY <1>5, <2>1, <2>3 DEF Past, Handling
  <2> QED
    BY <1>5, <2>3, <2>4, <2>5, <2>6, <2>7, <2>8, StepHistory DEF Rows
<1>6. CASE CreateAlert(r)
  <2>1. /\ run[r].at = "shortages" /\ pending' = pending \cup {RowOf(Restock, r)}
        /\ UNCHANGED <<decided, overlaps>> /\ run' = [run EXCEPT ![r].at = "overstock"]
    BY <1>6 DEF CreateAlert, CreateAction
  <2>2. "shortages" \in Started /\ "overstock" \in Past
    BY DEF Started, Stages, Ended, Past
  <2> QED
    BY <1>5, <2>1, <2>2
<1>7. CASE CreateOverstock(r)
  <2>1. /\ run[r].at = "overstock clear" /\ pending' = pending \cup {RowOf(Overstock, r)}
        /\ UNCHANGED <<decided, overlaps>> /\ run' = [run EXCEPT ![r].at = "pricing"]
    BY <1>7 DEF CreateOverstock, CreateAction
  <2>2. "overstock clear" \in Started /\ "pricing" \in Past
    BY DEF Started, Stages, Ended, Past
  <2> QED
    BY <1>5, <2>1, <2>2
<1>8. CASE CreatePricing(r)
  <2>1. /\ run[r].at = "pricing clear" /\ pending' = pending \cup {RowOf(Pricing, r)}
        /\ UNCHANGED <<decided, overlaps>> /\ run' = [run EXCEPT ![r].at = "done"]
    BY <1>8 DEF CreatePricing, CreateAction
  <2>2. "pricing clear" \in Started /\ "done" \in Past
    BY DEF Started, Stages, Ended, Past
  <2> QED
    BY <1>5, <2>1, <2>2
<1> QED
  BY <1>6, <1>7, <1>8

\* A crash creates nothing, and what it ends has failed.
LEMMA CrashHistory ==
    ASSUME CheckInv, HistoryInv, Crash
    PROVE  HistoryInv'
<1>1. run \in [Runs -> Evaluation]
  BY DEF CheckInv, TypeOK
<1>2. \A s \in Runs : run'[s] = IF run[s].at \in Started THEN [run[s] EXCEPT !.at = "failed"] ELSE run[s]
  BY DEF Crash
<1>3. \A s \in Runs : /\ run'[s].reachable = run[s].reachable /\ run'[s].saw = run[s].saw
                      /\ run'[s].plan = run[s].plan /\ run'[s].item = run[s].item
                      /\ run'[s].at = IF run[s].at \in Started THEN "failed" ELSE run[s].at
  BY <1>1, <1>2 DEF Evaluation
<1>4. UNCHANGED <<pending, decided, overlaps>> /\ Rows' = Rows
  BY DEF Crash, Rows
<1>5. \A s \in Runs : Drafted(run[s], s, Rows) /\ Raised(run[s], s, Rows)
  BY DEF HistoryInv
<1>6. \A s \in Runs : Drafted(run'[s], s, Rows')
  BY <1>3, <1>4, <1>5 DEF Drafted, Handling, Past
<1>7. \A s \in Runs : Raised(run'[s], s, Rows')
  BY <1>3, <1>4, <1>5 DEF Raised, Past
<1>8. \A s \in Runs : run'[s].at \in Handling => run[s].at \in Handling
  BY <1>3 DEF Handling
<1>9. OverlapInv' /\ RestockDuplicatesOverlap'
  BY <1>4, <1>8 DEF HistoryInv, OverlapInv, RestockDuplicatesOverlap
<1>10. \A s \in Runs : run[s].at = "failed" => run'[s].at = "failed"
  BY <1>3
<1>11. RepeatedDraftsExplained'
  BY <1>4, <1>10 DEF HistoryInv, RepeatedDraftsExplained
<1> QED
  BY <1>6, <1>7, <1>9, <1>11 DEF HistoryInv

\* A decision keeps the row, and an owner's draft is no run's.
LEMMA OwnerHistory ==
    ASSUME CheckInv, HistoryInv,
           \/ \E row \in pending : Decide(row)
           \/ \E i \in Picked : create_vendor_message(i)
    PROVE  HistoryInv'
<1>1. /\ UNCHANGED <<run, overlaps>> /\ decided \subseteq decided'
      /\ \A s \in Runs : \A c : RowOf(c, s) \in pending' => RowOf(c, s) \in pending
      /\ \A s \in Runs : \A i \in Ingredients : DraftOf(i, s) \in pending' => DraftOf(i, s) \in pending
      /\ \A s \in Runs : \A c : RowOf(c, s) \in Rows' <=> RowOf(c, s) \in Rows
      /\ \A s \in Runs : \A i \in Ingredients : DraftOf(i, s) \in Rows' <=> DraftOf(i, s) \in Rows
  <2>1. ASSUME NEW row \in pending, Decide(row)
        PROVE  UNCHANGED <<run, overlaps>> /\ decided \subseteq decided' /\ pending' \subseteq pending
               /\ Rows' = Rows
    BY <2>1 DEF Decide, Rows
  <2>2. ASSUME NEW i \in Picked, create_vendor_message(i)
        PROVE  UNCHANGED <<run, overlaps, decided>> /\ pending' = pending \cup {DraftOf(i, Owner)}
               /\ i \in Ingredients
    BY <2>2, InputAssumption DEF create_vendor_message, CreateAction
  <2>3. /\ \A i : DraftOf(i, Owner).by = Owner
        /\ \A c, s : RowOf(c, s).by = s
        /\ \A i, s : DraftOf(i, s).by = s
    BY DEF DraftOf, RowOf
  <2> QED
    BY <2>1, <2>2, <2>3, DistinctAssumption DEF Rows
<1>2. \A s \in Runs : Drafted(run'[s], s, Rows') /\ Raised(run'[s], s, Rows')
  <2> SUFFICES ASSUME NEW s \in Runs
               PROVE  Drafted(run'[s], s, Rows') /\ Raised(run'[s], s, Rows')
    OBVIOUS
  <2>1. run' = run /\ Drafted(run[s], s, Rows) /\ Raised(run[s], s, Rows)
    BY <1>1 DEF HistoryInv
  <2>2. /\ \A c : RowOf(c, s) \in Rows' <=> RowOf(c, s) \in Rows
        /\ \A i \in Ingredients : DraftOf(i, s) \in Rows' <=> DraftOf(i, s) \in Rows
    BY <1>1
  <2>3. run[s].reachable \subseteq Ingredients
    BY DEF CheckInv, TypeOK, Evaluation
  <2>4. Drafted(run'[s], s, Rows')
    BY <2>1, <2>2, <2>3 DEF Drafted
  <2>5. Raised(run'[s], s, Rows')
    BY <2>1, <2>2 DEF Raised
  <2> QED
    BY <2>4, <2>5
<1>3. OverlapInv' /\ RestockDuplicatesOverlap'
  BY <1>1 DEF HistoryInv, OverlapInv, RestockDuplicatesOverlap
<1>4. RepeatedDraftsExplained'
  BY <1>1 DEF HistoryInv, RepeatedDraftsExplained
<1> QED
  BY <1>2, <1>3, <1>4 DEF HistoryInv

-----------------------------------------------------------------------------
(* The theorems *)

LEMMA InitInv == Init => IInv
<1> SUFFICES ASSUME Init PROVE IInv
  OBVIOUS
<1>1. Rows = {} /\ pending = {}
      /\ \A r \in Runs : run[r].at = "waiting" /\ run[r].reachable = {}
  BY DEF Init, Rows
<1>2. \A r \in Runs : Drafted(run[r], r, Rows) /\ Raised(run[r], r, Rows)
  BY <1>1 DEF Drafted, Raised, Handling, Past
<1>3. OverlapInv /\ RestockDuplicatesOverlap /\ RepeatedDraftsExplained
  BY <1>1 DEF OverlapInv, RestockDuplicatesOverlap, RepeatedDraftsExplained, Handling
<1> QED
  BY <1>2, <1>3, InitCheck DEF IInv, HistoryInv

LEMMA NextInv == IInv /\ [Next]_vars => IInv'
<1> SUFFICES ASSUME CheckInv, HistoryInv, [Next]_vars PROVE HistoryInv'
  BY NextCheck DEF IInv
<1>1. CASE UNCHANGED vars
  <2>1. UNCHANGED <<pending, decided, run, overlaps>>
    BY <1>1 DEF vars
  <2> QED
    BY <2>1 DEF HistoryInv, OverlapInv, RestockDuplicatesOverlap, RepeatedDraftsExplained, Rows
<1>2. ASSUME NEW r \in Runs, Step(r) PROVE HistoryInv'
  BY <1>2, ReadHistory, CreateDraftHistory, CreateRowHistory DEF Step
<1> QED
  BY <1>1, <1>2, BeginHistory, ReadHistory, CrashHistory, OwnerHistory DEF Next

\* The inductive invariant holds in every reachable state.
THEOREM Invariance == Spec => []IInv
BY InitInv, NextInv, PTL DEF Spec

\* At most one overstock warning and one pricing review are ever pending.
THEOREM OnePendingAlways == Spec => []OnePending
<1>1. IInv => OnePending
  BY DEF IInv, CheckInv
<1> QED
  BY <1>1, Invariance, PTL

\* Two restock alerts are pending only of runs that overlapped at the LLM.
THEOREM DoubleAlertsOverlap == Spec => []RestockDuplicatesOverlap
<1>1. IInv => RestockDuplicatesOverlap
  BY DEF IInv, HistoryInv
<1> QED
  BY <1>1, Invariance, PTL

\* A vendor's second draft comes of an overlap, a failure before the alert, or an
\* alert that has been decided.
THEOREM DoubleDraftsAreExplained == Spec => []RepeatedDraftsExplained
<1>1. IInv => RepeatedDraftsExplained
  BY DEF IInv, HistoryInv
<1> QED
  BY <1>1, Invariance, PTL

\* Alerts come with all their drafts, and drafts of a finished run with an alert.
THEOREM AlertsComeWithDrafts == Spec => []AlertAndDrafts
<1>1. IInv => AlertAndDrafts
  <2> SUFFICES ASSUME IInv, NEW r \in Runs
               PROVE  /\ RowOf(Restock, r) \in Rows => \A i \in run[r].reachable : DraftOf(i, r) \in Rows
                      /\ run[r].at = "done" /\ run[r].reachable # {} => RowOf(Restock, r) \in Rows
    BY DEF AlertAndDrafts
  <2>1. Drafted(run[r], r, Rows)
    BY DEF IInv, HistoryInv
  <2> QED
    BY <2>1 DEF Drafted, Past
<1> QED
  BY <1>1, Invariance, PTL

\* An evaluation that is done has raised, or found raised, all its plan calls for.
THEOREM NothingIsMissed == Spec => []NothingMissed
<1>1. IInv => NothingMissed
  <2> SUFFICES ASSUME IInv, NEW r \in Runs, run[r].at = "done"
               PROVE  LET raised(c) == RowOf(c, r) \in Rows \/ c \in run[r].saw IN
                      /\ Cardinality(run[r].plan.critical) >= 2 => raised(Restock)
                      /\ run[r].plan.spoiling => raised(Overstock)
                      /\ run[r].plan.contested => raised(Pricing)
    BY DEF NothingMissed
  <2>1. Raised(run[r], r, Rows)
    BY DEF IInv, HistoryInv
  <2> QED
    BY <2>1 DEF Raised, Past
<1> QED
  BY <1>1, Invariance, PTL
=============================================================================
